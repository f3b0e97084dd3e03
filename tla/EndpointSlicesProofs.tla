------------------------ MODULE EndpointSlicesProofs ------------------------
(***************************************************************************)
(* Proofs about EndpointSlices, for any services, slices, ports and           *)
(* addresses, any events and any order in which the slices are ranged over.   *)
(***************************************************************************)
EXTENDS EndpointSlices, Integers, FiniteSetTheorems, WellFoundedInduction, TLAPS

-----------------------------------------------------------------------------
(* The range over the slices: some slice comes first and some comes last.    *)

LessThan == {p \in Nat \X Nat : p[1] < p[2]}

LEMMA LeastNatural ==
  ASSUME NEW S \in SUBSET Nat, S # {}
  PROVE  \E m \in S : \A n \in S : m <= n
<1>1. IsWellFoundedOn(LessThan, Nat)
  BY NatLessThanWellFounded, Zenon DEF OpToRel, LessThan
<1>2. PICK m \in S : \A n \in S : ~ (<<n, m>> \in LessThan)
  BY <1>1, WFMin, Zenon
<1>3. ASSUME NEW n \in S PROVE m <= n
  <2>1. n \in Nat /\ m \in Nat
    OBVIOUS
  <2>2. ~(n < m)
    BY <1>2, <2>1 DEF LessThan
  <2>3. QED
    BY <2>1, <2>2
<1>4. QED
  BY <1>3

LEMMA FirstInOrder ==
  ASSUME NEW order \in Orders, NEW S \in SUBSET SliceNames, S # {}
  PROVE  \E n \in S : \A m \in S : order[n] <= order[m]
<1> DEFINE ranks == {order[n] : n \in S}
<1>1. Cardinality(SliceNames) \in Nat
  BY FS_CardinalityType, SliceNamesAssumption
<1>2. \A n \in S : order[n] \in Nat
  BY <1>1 DEF Orders
<1>3. ranks \in SUBSET Nat /\ ranks # {}
  BY <1>2
<1> HIDE DEF ranks
<1>4. PICK r \in ranks : \A q \in ranks : r <= q
  BY <1>3, LeastNatural
<1>5. QED
  BY <1>4 DEF ranks

LEMMA LastInOrder ==
  ASSUME NEW order \in Orders, NEW S \in SUBSET SliceNames, S # {}
  PROVE  \E n \in S : \A m \in S : order[n] >= order[m]
<1> DEFINE N     == Cardinality(SliceNames)
           ranks == {N - order[n] : n \in S}
<1>1. N \in Nat
  BY FS_CardinalityType, SliceNamesAssumption
<1> HIDE DEF N
<1>2. \A n \in S : order[n] \in Nat /\ order[n] <= N
  BY <1>1 DEF Orders, N
<1>3. ranks \in SUBSET Nat /\ ranks # {}
  BY <1>1, <1>2
<1> HIDE DEF ranks
<1>4. PICK r \in ranks : \A q \in ranks : r <= q
  BY <1>3, LeastNatural
<1>5. PICK n \in S : r = N - order[n]
  BY <1>4 DEF ranks
<1>6. ASSUME NEW m \in S PROVE order[n] >= order[m]
  <2>1. N - order[m] \in ranks
    BY DEF ranks
  <2>2. N - order[n] <= N - order[m]
    BY <1>4, <1>5, <2>1
  <2>3. QED
    BY <1>1, <1>2, <2>2
<1>7. QED
  BY <1>6

-----------------------------------------------------------------------------
(* What addEndpointsByIP takes, whatever the order: nothing if no slice offers  *)
(* the address, and one of the offers, a local one if there is one, if some do. *)
LEMMA TakenIsOffered ==
  ASSUME NEW infos, NEW order \in Orders, NEW k \in Keys, NEW i \in IPs
  PROVE  /\ Offering(infos, k, i) = {} => addEndpointsByIP(infos, order, k, i) = None
         /\ Offering(infos, k, i) # {} =>
              \E n \in Offering(infos, k, i) :
                /\ addEndpointsByIP(infos, order, k, i) = Offer(infos, n, k, i)
                /\ (\E m \in Offering(infos, k, i) : infos[m].endpoints[i] = "local")
                     => infos[n].endpoints[i] = "local"
<1> DEFINE offering == Offering(infos, k, i)
           local    == {n \in offering : infos[n].endpoints[i] = "local"}
           first    == CHOOSE n \in offering : \A m \in offering : order[n] <= order[m]
           last     == CHOOSE n \in local : \A m \in local : order[n] >= order[m]
<1>1. offering \in SUBSET SliceNames /\ local \in SUBSET SliceNames
  BY DEF Offering
<1>2. addEndpointsByIP(infos, order, k, i) =
        IF offering = {} THEN None
        ELSE Offer(infos, IF local = {} THEN first ELSE last, k, i)
  BY DEF addEndpointsByIP
<1> HIDE DEF offering
<1>3. CASE offering = {}
  BY <1>2, <1>3 DEF offering
<1>4. CASE offering # {} /\ local = {}
  <2>1. first \in offering
    BY <1>1, <1>4, FirstInOrder
  <2>2. QED
    BY <1>2, <1>4, <2>1 DEF offering
<1>5. CASE offering # {} /\ local # {}
  <2>1. \E n \in local : \A m \in local : order[n] >= order[m]
    BY <1>1, <1>5, LastInOrder
  <2> HIDE DEF local
  <2>2. last \in local
    BY <2>1
  <2>3. last \in offering /\ infos[last].endpoints[i] = "local"
    BY <2>2 DEF local
  <2>4. addEndpointsByIP(infos, order, k, i) = Offer(infos, last, k, i)
    BY <1>2, <1>5
  <2>5. QED
    BY <2>3, <2>4, <1>5 DEF offering
<1>6. QED
  BY <1>3, <1>4, <1>5

(* So it takes one of the abstract specification's picks. *)
LEMMA TakenIsPick ==
  ASSUME NEW infos, NEW order \in Orders, NEW k \in Keys, NEW i \in IPs
  PROVE  addEndpointsByIP(infos, order, k, i)
           \in View!Picks({Offer(infos, n, k, i) : n \in Offering(infos, k, i)})
<1> DEFINE offering == Offering(infos, k, i)
           offers   == {Offer(infos, n, k, i) : n \in offering}
           taken    == addEndpointsByIP(infos, order, k, i)
<1>1. \A n : Offer(infos, n, k, i).place = infos[n].endpoints[i]
  BY DEF Offer
<1> HIDE DEF taken, offering
<1>2. CASE offering = {}
  BY <1>2, TakenIsOffered DEF View!Picks, taken, offering
<1>3. CASE offering # {}
  <2>1. PICK n \in offering :
          /\ taken = Offer(infos, n, k, i)
          /\ (\E m \in offering : infos[m].endpoints[i] = "local")
               => infos[n].endpoints[i] = "local"
    BY <1>3, TakenIsOffered DEF taken, offering
  <2>2. taken \in offers /\ offers # {}
    BY <2>1
  <2>3. (\E o \in offers : o.place = "local") => taken.place = "local"
    BY <1>1, <2>1
  <2> HIDE DEF offers
  <2>4. taken \in View!Picks(offers)
    BY <2>2, <2>3 DEF View!Picks
  <2>5. QED
    BY <2>4 DEF taken, offers, offering
<1>4. QED
  BY <1>2, <1>3

-----------------------------------------------------------------------------
(***************************************************************************)
(* The inductive invariant: types, PendingIsLatest, and that the map has an   *)
(* endpoint exactly where some applied slice offers one, without which a port  *)
(* that no slice offers before and after a change could keep old endpoints.   *)
(***************************************************************************)
MapIsApplied ==
  \A s \in Services, k \in Keys, i \in IPs :
    endpointsMap[s][k][i] # None <=> Offering(applied[s], k, i) # {}

IInv == TypeOK /\ PendingIsLatest /\ MapIsApplied

LEMMA InitIInv == Init => IInv
<1> SUFFICES ASSUME Init PROVE IInv
  OBVIOUS
<1>1. TypeOK
  BY DEF Init, TypeOK, NoInfos, NoEndpoints
<1>2. PendingIsLatest
  BY DEF Init, PendingIsLatest, checkedOut, Latest, NoInfos
<1>3. MapIsApplied
  BY DEF Init, MapIsApplied, Offering, NoInfos, NoEndpoints
<1>4. QED
  BY <1>1, <1>2, <1>3 DEF IInv

LEMMA InfoType ==
  ASSUME NEW slice \in Slices, NEW remove \in BOOLEAN
  PROVE  /\ newEndpointSliceInfo(slice, remove) \in Infos
         /\ newEndpointSliceInfo(slice, remove) # None
         /\ newEndpointSliceInfo(slice, remove).remove = remove
         /\ ~remove => /\ newEndpointSliceInfo(slice, remove).ports = slice.ports
                       /\ newEndpointSliceInfo(slice, remove).endpoints = slice.endpoints
<1>1. newEndpointSliceInfo(slice, remove) \in Infos
  BY DEF newEndpointSliceInfo, Infos, Slices
<1>2. QED
  BY <1>1, NoneAssumption DEF newEndpointSliceInfo

(* The types of one slice of one service. *)
LEMMA SliceType ==
  ASSUME TypeOK, NEW s \in Services, NEW n \in SliceNames
  PROVE  /\ slices[s][n] # None => slices[s][n] \in Slices
         /\ applied[s][n] # None => applied[s][n] \in Infos /\ ~applied[s][n].remove
         /\ pending[s][n] # None => pending[s][n] \in Infos
BY DEF TypeOK

(***************************************************************************)
(* An event as far as it is the same for both handlers: slice n of s is now   *)
(* new, and info is what becomes pending if it is a change.                  *)
(***************************************************************************)
LEMMA SliceEvent ==
  ASSUME IInv, NEW s \in Services, NEW n \in SliceNames,
         NEW new \in Slices \cup {None}, NEW info \in Infos,
         IF new = None THEN info.remove /\ slices[s][n] # None
                       ELSE info = newEndpointSliceInfo(new, FALSE),
         slices' = [slices EXCEPT ![s][n] = new],
         updatePending(s, n, info),
         UNCHANGED <<applied, endpointsMap>>
  PROVE  IInv' /\ (slices'[s][n] = slices[s][n] \/ pending'[s][n] # None)
<1>0. TypeOK /\ PendingIsLatest /\ MapIsApplied
  BY DEF IInv
<1>1. info # None
  BY NoneAssumption
<1>2. pending' = IF esInfoChanged(s, n, info)
                 THEN [pending EXCEPT ![s][n] = info] ELSE pending
  BY DEF updatePending
<1>3. /\ slices \in [Services -> [SliceNames -> Slices \cup {None}]]
      /\ pending \in [Services -> [SliceNames -> Infos \cup {None}]]
  BY <1>0 DEF TypeOK
<1>4. TypeOK'
  BY <1>0, <1>2, <1>3 DEF TypeOK
<1>5. MapIsApplied'
  BY <1>0 DEF MapIsApplied, Offering
<1>6. ASSUME NEW t \in Services, NEW m \in SliceNames, t # s \/ m # n
      PROVE  checkedOut(t)'[m] = Latest(t, m)'
  <2>1. slices'[t][m] = slices[t][m] /\ pending'[t][m] = pending[t][m]
    BY <1>2, <1>3, <1>6
  <2>2. checkedOut(t)'[m] = checkedOut(t)[m]
    BY <2>1 DEF checkedOut
  <2>3. Latest(t, m)' = Latest(t, m)
    BY <2>1 DEF Latest, newEndpointSliceInfo
  <2>4. QED
    BY <1>0, <2>2, <2>3 DEF PendingIsLatest
<1>7. slices'[s][n] = new
  BY <1>3
<1>8. checkedOut(s)[n] = Latest(s, n)
  BY <1>0 DEF PendingIsLatest
<1>9. CASE esInfoChanged(s, n, info)
  <2>1. pending'[s][n] = info
    BY <1>2, <1>3, <1>9
  <2>2. new # None => ~info.remove
    BY InfoType
  <2>3. checkedOut(s)'[n] = Latest(s, n)'
    BY <1>1, <1>7, <2>1, <2>2 DEF checkedOut, Latest
  <2>4. PendingIsLatest'
    BY <1>6, <2>3 DEF PendingIsLatest
  <2>5. QED
    BY <1>1, <1>4, <1>5, <2>1, <2>4 DEF IInv
<1>10. CASE ~esInfoChanged(s, n, info)
  <2>1. pending' = pending
    BY <1>2, <1>10
  <2>2. new # None => ~info.remove
    BY InfoType
  <2>3. CASE pending[s][n] # None
    <3>1. pending[s][n] = info
      BY <1>10, <2>3 DEF esInfoChanged
    <3>2. checkedOut(s)'[n] = Latest(s, n)'
      BY <1>1, <1>7, <2>1, <2>2, <3>1 DEF checkedOut, Latest
    <3>3. PendingIsLatest'
      BY <1>6, <3>2 DEF PendingIsLatest
    <3>4. QED
      BY <1>4, <1>5, <2>1, <2>3, <3>3 DEF IInv
  <2>4. CASE pending[s][n] = None /\ applied[s][n] # None
    <3>1. applied[s][n] = info /\ ~info.remove
      BY <1>0, <1>10, <2>4, SliceType DEF esInfoChanged
    <3>2. new # None /\ info = newEndpointSliceInfo(new, FALSE)
      BY <3>1
    <3>3. checkedOut(s)[n] = info /\ checkedOut(s)'[n] = info
      BY <2>1, <2>4, <3>1 DEF checkedOut
    <3>4. slices[s][n] # None /\ info = newEndpointSliceInfo(slices[s][n], FALSE)
      BY <1>1, <1>8, <3>3 DEF Latest
    <3>5. slices[s][n] \in Slices /\ new \in Slices
      BY <1>0, <3>2, <3>4, SliceType
    <3>6. slices[s][n] = new
      BY <3>2, <3>4, <3>5 DEF newEndpointSliceInfo, Slices
    <3>7. PendingIsLatest'
      BY <1>6, <1>7, <1>8, <3>3, <3>6 DEF PendingIsLatest, Latest
    <3>8. QED
      BY <1>4, <1>5, <1>7, <3>6, <3>7 DEF IInv
  <2>5. CASE pending[s][n] = None /\ applied[s][n] = None
    <3>1. info.remove
      BY <1>10, <2>5 DEF esInfoChanged
    <3>2. new = None /\ slices[s][n] # None
      BY <2>2, <3>1
    <3>3. Latest(s, n) = None
      BY <1>8, <2>5 DEF checkedOut
    <3>4. Latest(s, n) # None
      BY <1>0, <3>2, SliceType, InfoType DEF Latest
    <3>5. QED
      BY <3>3, <3>4
  <2>6. QED
    BY <2>3, <2>4, <2>5
<1>11. QED
  BY <1>9, <1>10

LEMMA SetSliceIInv ==
  ASSUME IInv, NEW s \in Services, NEW n \in SliceNames, NEW slice \in Slices,
         SetSlice(s, n, slice)
  PROVE  IInv' /\ (slices'[s][n] = slices[s][n] \/ pending'[s][n] # None)
<1> DEFINE info == newEndpointSliceInfo(slice, FALSE)
<1>1. info \in Infos /\ slice # None
  BY InfoType, NoneAssumption
<1>2. /\ slices' = [slices EXCEPT ![s][n] = slice]
      /\ updatePending(s, n, info)
      /\ UNCHANGED <<applied, endpointsMap>>
  BY DEF SetSlice
<1>3. QED
  BY <1>1, <1>2, SliceEvent

LEMMA DeleteSliceIInv ==
  ASSUME IInv, NEW s \in Services, NEW n \in SliceNames, DeleteSlice(s, n)
  PROVE  IInv' /\ (slices'[s][n] = slices[s][n] \/ pending'[s][n] # None)
<1> DEFINE info == newEndpointSliceInfo(slices[s][n], TRUE)
<1>1. /\ slices[s][n] # None
      /\ slices' = [slices EXCEPT ![s][n] = None]
      /\ updatePending(s, n, info)
      /\ UNCHANGED <<applied, endpointsMap>>
  BY DEF DeleteSlice
<1>2. slices[s][n] \in Slices
  BY <1>1, SliceType DEF IInv
<1>3. info \in Infos /\ info.remove
  BY <1>2, InfoType
<1> HIDE DEF info
<1>4. QED
  BY <1>1, <1>3, SliceEvent

-----------------------------------------------------------------------------
(* A pass. *)

Maps == [Keys -> [IPs -> Offers \cup {None}]]

(* The map computed from some infos has endpoints where they offer some. *)
LEMMA MapOfInfos ==
  ASSUME NEW infos \in [SliceNames -> Infos \cup {None}], NEW order \in Orders
  PROVE  /\ getEndpointsMap(infos, order) \in Maps
         /\ \A k \in Keys, i \in IPs :
              getEndpointsMap(infos, order)[k][i] # None <=> Offering(infos, k, i) # {}
<1>1. ASSUME NEW k \in Keys, NEW i \in IPs
      PROVE  /\ addEndpointsByIP(infos, order, k, i) \in Offers \cup {None}
             /\ addEndpointsByIP(infos, order, k, i) # None
                  <=> Offering(infos, k, i) # {}
  <2>1. CASE Offering(infos, k, i) = {}
    BY <2>1, TakenIsOffered
  <2>2. CASE Offering(infos, k, i) # {}
    <3>1. PICK n \in Offering(infos, k, i) :
            addEndpointsByIP(infos, order, k, i) = Offer(infos, n, k, i)
      BY <2>2, TakenIsOffered
    <3>2. n \in SliceNames /\ infos[n] # None
            /\ infos[n].ports[k] # None /\ infos[n].endpoints[i] # None
      BY DEF Offering
    <3>3. infos[n] \in Infos
      BY <3>2
    <3>4. Offer(infos, n, k, i) \in Offers
      BY <3>2, <3>3 DEF Infos, Offer, Offers
    <3>5. QED
      BY <2>2, <3>1, <3>4, NoneAssumption
  <2>3. QED
    BY <2>1, <2>2
<1>2. QED
  BY <1>1 DEF getEndpointsMap, Maps

(* Taking the previous endpoints out of a map that has them, and putting the   *)
(* current ones in, leaves the current ones.                               *)
LEMMA ApplyLeadsToCurrent ==
  ASSUME NEW map \in Maps, NEW previous \in Maps, NEW current \in Maps,
         \A k \in Keys, i \in IPs : map[k][i] # None <=> previous[k][i] # None
  PROVE  apply(map, previous, current) = current
<1>1. ASSUME NEW k \in Keys, current[k] = NoEndpoints, previous[k] = NoEndpoints
      PROVE  map[k] = NoEndpoints
  <2>1. \A i \in IPs : map[k][i] = None
    BY <1>1 DEF NoEndpoints
  <2>2. map[k] \in [IPs -> Offers \cup {None}]
    BY DEF Maps
  <2>3. QED
    BY <2>1, <2>2 DEF NoEndpoints
<1>2. \A k \in Keys : apply(map, previous, current)[k] = current[k]
  BY <1>1 DEF apply
<1>3. QED
  BY <1>2 DEF apply, Maps

(* What the applied infos of a service are and become. *)
LEMMA InfosType ==
  ASSUME TypeOK, NEW s \in Services
  PROVE  /\ applied[s] \in [SliceNames -> {f \in Infos : ~f.remove} \cup {None}]
         /\ checkedOut(s) \in [SliceNames -> {f \in Infos : ~f.remove} \cup {None}]
         /\ pending[s] = NoInfos => checkedOut(s) = applied[s]
<1>1. applied[s] \in [SliceNames -> {f \in Infos : ~f.remove} \cup {None}]
  BY DEF TypeOK
<1>2. \A n \in SliceNames : pending[s][n] # None => pending[s][n] \in Infos
  BY SliceType
<1>3. checkedOut(s) \in [SliceNames -> {f \in Infos : ~f.remove} \cup {None}]
  BY <1>1, <1>2 DEF checkedOut
<1>4. pending[s] = NoInfos => checkedOut(s) = applied[s]
  BY <1>1 DEF checkedOut, NoInfos
<1>5. QED
  BY <1>1, <1>3, <1>4

LEMMA UpdateEndpointsMapResult ==
  ASSUME IInv, UpdateEndpointsMap
  PROVE  \E after \in [Services -> Orders] :
           endpointsMap' = [s \in Services |->
             IF pending[s] = NoInfos THEN endpointsMap[s]
             ELSE getEndpointsMap(checkedOut(s), after[s])]
<1>0. TypeOK /\ MapIsApplied
  BY DEF IInv
<1>1. PICK before \in [Services -> Orders], after \in [Services -> Orders] :
        endpointsMap' = [s \in Services |->
          IF s \in {u \in Services : pending[u] # NoInfos}
          THEN apply(endpointsMap[s], getEndpointsMap(applied[s], before[s]),
                     getEndpointsMap(checkedOut(s), after[s]))
          ELSE endpointsMap[s]]
  BY DEF UpdateEndpointsMap
<1>2. ASSUME NEW s \in Services
      PROVE  apply(endpointsMap[s], getEndpointsMap(applied[s], before[s]),
                   getEndpointsMap(checkedOut(s), after[s]))
               = getEndpointsMap(checkedOut(s), after[s])
  <2>1. /\ before[s] \in Orders /\ after[s] \in Orders
        /\ applied[s] \in [SliceNames -> Infos \cup {None}]
        /\ checkedOut(s) \in [SliceNames -> Infos \cup {None}]
    BY <1>0, InfosType
  <2>2. endpointsMap[s] \in Maps
    BY <1>0 DEF TypeOK, Maps
  <2>3. /\ getEndpointsMap(applied[s], before[s]) \in Maps
        /\ getEndpointsMap(checkedOut(s), after[s]) \in Maps
    BY <2>1, MapOfInfos
  <2>4. ASSUME NEW k \in Keys, NEW i \in IPs
        PROVE  endpointsMap[s][k][i] # None
                 <=> getEndpointsMap(applied[s], before[s])[k][i] # None
    <3>1. getEndpointsMap(applied[s], before[s])[k][i] # None
            <=> Offering(applied[s], k, i) # {}
      BY <2>1, MapOfInfos
    <3>2. QED
      BY <1>0, <3>1 DEF MapIsApplied
  <2>5. QED
    BY <2>2, <2>3, <2>4, ApplyLeadsToCurrent
<1>3. endpointsMap' = [s \in Services |->
        IF pending[s] = NoInfos THEN endpointsMap[s]
        ELSE getEndpointsMap(checkedOut(s), after[s])]
  BY <1>1, <1>2
<1>4. QED
  BY <1>3

LEMMA UpdateEndpointsMapIInv ==
  ASSUME IInv, UpdateEndpointsMap
  PROVE  IInv'
<1>0. TypeOK /\ PendingIsLatest /\ MapIsApplied
  BY DEF IInv
<1>1. PICK after \in [Services -> Orders] :
        endpointsMap' = [s \in Services |->
          IF pending[s] = NoInfos THEN endpointsMap[s]
          ELSE getEndpointsMap(checkedOut(s), after[s])]
  BY UpdateEndpointsMapResult
<1>2. /\ applied' = [s \in Services |-> checkedOut(s)]
      /\ pending' = [s \in Services |-> NoInfos]
      /\ slices' = slices
  BY DEF UpdateEndpointsMap
<1>3. ASSUME NEW s \in Services
      PROVE  /\ endpointsMap[s] \in Maps
             /\ getEndpointsMap(checkedOut(s), after[s]) \in Maps
             /\ \A k \in Keys, i \in IPs :
                  getEndpointsMap(checkedOut(s), after[s])[k][i] # None
                    <=> Offering(checkedOut(s), k, i) # {}
  <2>1. after[s] \in Orders /\ checkedOut(s) \in [SliceNames -> Infos \cup {None}]
    BY <1>0, InfosType
  <2>2. QED
    BY <1>0, <2>1, MapOfInfos DEF TypeOK, Maps
<1>4. TypeOK'
  <2>1. endpointsMap' \in [Services -> Maps]
    BY <1>1, <1>3
  <2>2. applied' \in [Services -> [SliceNames -> {f \in Infos : ~f.remove} \cup {None}]]
    BY <1>0, <1>2, InfosType
  <2>3. pending' \in [Services -> [SliceNames -> Infos \cup {None}]]
    BY <1>2 DEF NoInfos
  <2>4. QED
    BY <1>0, <1>2, <2>1, <2>2, <2>3 DEF TypeOK, Maps
<1>5. PendingIsLatest'
  <2> SUFFICES ASSUME NEW s \in Services, NEW n \in SliceNames
               PROVE  checkedOut(s)'[n] = Latest(s, n)'
    BY DEF PendingIsLatest
  <2>1. applied'[s][n] = checkedOut(s)[n] /\ pending'[s][n] = None
    BY <1>2 DEF NoInfos
  <2>2. checkedOut(s)'[n] = checkedOut(s)[n]
    BY <2>1 DEF checkedOut
  <2>3. Latest(s, n)' = Latest(s, n)
    BY <1>2 DEF Latest, newEndpointSliceInfo
  <2>4. QED
    BY <1>0, <2>2, <2>3 DEF PendingIsLatest
<1>6. MapIsApplied'
  <2> SUFFICES ASSUME NEW s \in Services, NEW k \in Keys, NEW i \in IPs
               PROVE  endpointsMap'[s][k][i] # None <=> Offering(checkedOut(s), k, i) # {}
    BY <1>2 DEF MapIsApplied, Offering
  <2>1. CASE pending[s] = NoInfos
    <3>1. endpointsMap'[s] = endpointsMap[s] /\ checkedOut(s) = applied[s]
      BY <1>0, <1>1, <2>1, InfosType
    <3>2. QED
      BY <1>0, <3>1 DEF MapIsApplied
  <2>2. CASE pending[s] # NoInfos
    BY <1>1, <1>3, <2>2
  <2>3. QED
    BY <2>1, <2>2
<1>7. QED
  BY <1>4, <1>5, <1>6 DEF IInv

LEMMA NextIInv == IInv /\ [Next]_vars => IInv'
<1> SUFFICES ASSUME IInv, [Next]_vars PROVE IInv'
  OBVIOUS
<1>1. CASE \E s \in Services, n \in SliceNames, slice \in Slices : SetSlice(s, n, slice)
  BY <1>1, SetSliceIInv
<1>2. CASE \E s \in Services, n \in SliceNames : DeleteSlice(s, n)
  BY <1>2, DeleteSliceIInv
<1>3. CASE UpdateEndpointsMap
  BY <1>3, UpdateEndpointsMapIInv
<1>4. CASE UNCHANGED vars
  <2>1. TypeOK' /\ MapIsApplied'
    BY <1>4 DEF vars, IInv, TypeOK, MapIsApplied, Offering
  <2>2. PendingIsLatest'
    BY <1>4 DEF vars, IInv, PendingIsLatest, checkedOut, Latest, newEndpointSliceInfo
  <2>3. QED
    BY <2>1, <2>2 DEF IInv
<1>5. QED
  BY <1>1, <1>2, <1>3, <1>4 DEF Next

LEMMA SpecIInv == Spec => []IInv
BY InitIInv, NextIInv, PTL DEF Spec

(* Every behaviour of the cache is well typed; checkoutChanges applies no       *)
(* removal.                                                                *)
THEOREM SpecTypeOK == Spec => []TypeOK
BY SpecIInv, PTL DEF IInv

(* updatePending drops no event about a slice as no change that a pass would    *)
(* have needed: pending over applied is always the last object.              *)
THEOREM SpecPendingIsLatest == Spec => []PendingIsLatest
BY SpecIInv, PTL DEF IInv

-----------------------------------------------------------------------------
(* The refinement of EndpointsView. *)

LEMMA InitImplements == Init => View!Init
BY DEF Init, View!Init, Offering, NoInfos, NoEndpoints

(* An event about slice n of s changes what s offers only, and only if s has    *)
(* something pending then.                                                 *)
LEMMA EventImplements ==
  ASSUME IInv, IInv', NEW s \in Services, NEW n \in SliceNames,
         NEW new \in Slices \cup {None}, NEW info \in Infos,
         slices' = [slices EXCEPT ![s][n] = new],
         updatePending(s, n, info),
         UNCHANGED <<applied, endpointsMap>>,
         slices'[s][n] = slices[s][n] \/ pending'[s][n] # None
  PROVE  View!Observe(s)
<1> DEFINE offers(t, k, i) == {Offer(slices[t], m, k, i) : m \in Offering(slices[t], k, i)}
           offered == [t \in Services |-> [k \in Keys |-> [i \in IPs |-> offers(t, k, i)]]]
           behind  == {t \in Services : pending[t] # NoInfos}
<1>1. /\ slices \in [Services -> [SliceNames -> Slices \cup {None}]]
      /\ slices' \in [Services -> [SliceNames -> Slices \cup {None}]]
      /\ pending \in [Services -> [SliceNames -> Infos \cup {None}]]
  BY DEF IInv, TypeOK
<1>2. ASSUME NEW t \in Services, NEW k \in Keys, NEW i \in IPs
      PROVE  offers(t, k, i)' \subseteq Offers
  <2>1. ASSUME NEW m \in Offering(slices'[t], k, i)
        PROVE  Offer(slices'[t], m, k, i) \in Offers
    <3>1. m \in SliceNames /\ slices'[t][m] # None
            /\ slices'[t][m].ports[k] # None /\ slices'[t][m].endpoints[i] # None
      BY DEF Offering
    <3>2. slices'[t][m] \in Slices
      BY <1>1, <3>1
    <3>3. QED
      BY <3>1, <3>2 DEF Slices, Offer, Offers
  <2>2. QED
    BY <2>1
<1>3. offered' \in [Services -> [Keys -> [IPs -> SUBSET Offers]]]
  BY <1>2
<1>4. \A t \in Services \ {s} : slices'[t] = slices[t]
  BY <1>1
<1>5. \A t \in Services \ {s} : offered'[t] = offered[t]
  BY <1>4
<1>6. pending' = pending \/ pending' = [pending EXCEPT ![s][n] = info]
  BY DEF updatePending
<1>7. behind' \in {behind, behind \cup {s}}
  <2>1. CASE pending' = pending
    BY <2>1
  <2>2. CASE pending' = [pending EXCEPT ![s][n] = info]
    <3>1. pending'[s][n] = info /\ \A t \in Services \ {s} : pending'[t] = pending[t]
      BY <1>1, <2>2
    <3>2. pending'[s] # NoInfos
      BY <3>1, NoneAssumption DEF NoInfos
    <3>3. QED
      BY <3>1, <3>2
  <2>3. QED
    BY <1>6, <2>1, <2>2
<1>8. offered'[s] # offered[s] => s \in behind'
  <2>1. CASE slices'[s][n] = slices[s][n]
    <3>1. slices' = slices
      BY <1>1, <2>1
    <3>2. QED
      BY <3>1
  <2>2. CASE pending'[s][n] # None
    <3>1. pending'[s] # NoInfos
      BY <2>2 DEF NoInfos
    <3>2. QED
      BY <3>1
  <2>3. QED
    BY <2>1, <2>2
<1>9. endpointsMap' = endpointsMap
  OBVIOUS
<1> HIDE DEF offers
<1>10. QED
  BY <1>3, <1>5, <1>7, <1>8, <1>9 DEF View!Observe, offers

(* What a pass computes from the infos of a service is what the abstract pass  *)
(* picks from the slices themselves.                                       *)
LEMMA OffersOfLatest ==
  ASSUME IInv, NEW s \in Services, NEW k \in Keys, NEW i \in IPs
  PROVE  {Offer(checkedOut(s), n, k, i) : n \in Offering(checkedOut(s), k, i)}
           = {Offer(slices[s], n, k, i) : n \in Offering(slices[s], k, i)}
<1>1. ASSUME NEW n \in SliceNames
      PROVE  /\ checkedOut(s)[n] = None <=> slices[s][n] = None
             /\ slices[s][n] # None =>
                  /\ checkedOut(s)[n].ports = slices[s][n].ports
                  /\ checkedOut(s)[n].endpoints = slices[s][n].endpoints
  <2>1. checkedOut(s)[n] = Latest(s, n)
    BY DEF IInv, PendingIsLatest
  <2>2. slices[s][n] # None => slices[s][n] \in Slices
    BY SliceType DEF IInv
  <2>3. QED
    BY <2>1, <2>2, InfoType DEF Latest
<1>2. Offering(checkedOut(s), k, i) = Offering(slices[s], k, i)
  BY <1>1 DEF Offering
<1>3. \A n \in Offering(slices[s], k, i) :
        Offer(checkedOut(s), n, k, i) = Offer(slices[s], n, k, i)
  BY <1>1 DEF Offering, Offer
<1>4. QED
  BY <1>2, <1>3

LEMMA UpdateEndpointsMapImplements ==
  ASSUME IInv, UpdateEndpointsMap
  PROVE  View!Refresh
<1>1. PICK after \in [Services -> Orders] :
        endpointsMap' = [s \in Services |->
          IF pending[s] = NoInfos THEN endpointsMap[s]
          ELSE getEndpointsMap(checkedOut(s), after[s])]
  BY UpdateEndpointsMapResult
<1>2. pending' = [s \in Services |-> NoInfos] /\ slices' = slices
  BY DEF UpdateEndpointsMap
<1>3. endpointsMap' \in [Services -> [Keys -> [IPs -> Offers \cup {None}]]]
  BY UpdateEndpointsMapIInv DEF IInv, TypeOK
<1>4. ASSUME NEW s \in Services, pending[s] # NoInfos, NEW k \in Keys, NEW i \in IPs
      PROVE  endpointsMap'[s][k][i]
               \in View!Picks({Offer(slices[s], n, k, i) : n \in Offering(slices[s], k, i)})
  <2>1. endpointsMap'[s][k][i] = addEndpointsByIP(checkedOut(s), after[s], k, i)
    BY <1>1, <1>4 DEF getEndpointsMap
  <2>2. after[s] \in Orders
    OBVIOUS
  <2>3. addEndpointsByIP(checkedOut(s), after[s], k, i)
          \in View!Picks({Offer(checkedOut(s), n, k, i) : n \in Offering(checkedOut(s), k, i)})
    BY <2>2, TakenIsPick
  <2>4. {Offer(checkedOut(s), n, k, i) : n \in Offering(checkedOut(s), k, i)}
          = {Offer(slices[s], n, k, i) : n \in Offering(slices[s], k, i)}
    BY OffersOfLatest
  <2>5. QED
    BY <2>1, <2>3, <2>4
<1>5. \A s \in Services : pending[s] = NoInfos => endpointsMap'[s] = endpointsMap[s]
  BY <1>1
<1> DEFINE offers(s, k, i) == {Offer(slices[s], n, k, i) : n \in Offering(slices[s], k, i)}
           offered == [s \in Services |-> [k \in Keys |-> [i \in IPs |-> offers(s, k, i)]]]
           behind  == {s \in Services : pending[s] # NoInfos}
<1>6. \A s \in Services \ behind : endpointsMap'[s] = endpointsMap[s]
  BY <1>5
<1>7. behind' = {} /\ offered' = offered
  BY <1>2
<1>8. ASSUME NEW s \in behind, NEW k \in Keys, NEW i \in IPs
      PROVE  endpointsMap'[s][k][i] \in View!Picks(offered[s][k][i])
  <2>1. offered[s][k][i] = offers(s, k, i)
    OBVIOUS
  <2>2. QED
    BY <1>4, <2>1
<1> HIDE DEF offers
<1>9. QED
  BY <1>3, <1>6, <1>7, <1>8 DEF View!Refresh, offers

LEMMA NextImplements == IInv /\ IInv' /\ [Next]_vars => [View!Next]_(View!viewVars)
<1> SUFFICES ASSUME IInv, IInv', [Next]_vars PROVE [View!Next]_(View!viewVars)
  OBVIOUS
<1>1. ASSUME NEW s \in Services, NEW n \in SliceNames, NEW slice \in Slices,
             SetSlice(s, n, slice)
      PROVE  View!Observe(s)
  <2> DEFINE info == newEndpointSliceInfo(slice, FALSE)
  <2>1. info \in Infos
    BY InfoType
  <2>2. /\ slices' = [slices EXCEPT ![s][n] = slice]
        /\ updatePending(s, n, info)
        /\ UNCHANGED <<applied, endpointsMap>>
    BY <1>1 DEF SetSlice
  <2>3. slices'[s][n] = slices[s][n] \/ pending'[s][n] # None
    BY <1>1, SetSliceIInv
  <2> HIDE DEF info
  <2>4. QED
    BY <2>1, <2>2, <2>3, EventImplements
<1>2. ASSUME NEW s \in Services, NEW n \in SliceNames, DeleteSlice(s, n)
      PROVE  View!Observe(s)
  <2> DEFINE info == newEndpointSliceInfo(slices[s][n], TRUE)
  <2>1. /\ slices[s][n] # None
        /\ slices' = [slices EXCEPT ![s][n] = None]
        /\ updatePending(s, n, info)
        /\ UNCHANGED <<applied, endpointsMap>>
    BY <1>2 DEF DeleteSlice
  <2>2. slices[s][n] \in Slices
    BY <2>1, SliceType DEF IInv
  <2>3. info \in Infos
    BY <2>2, InfoType
  <2>4. slices'[s][n] = slices[s][n] \/ pending'[s][n] # None
    BY <1>2, DeleteSliceIInv
  <2> HIDE DEF info
  <2>5. QED
    BY <2>1, <2>3, <2>4, EventImplements
<1>3. CASE UpdateEndpointsMap
  BY <1>3, UpdateEndpointsMapImplements DEF View!Next
<1>4. CASE UNCHANGED vars
  BY <1>4 DEF vars, View!viewVars, Offering, Offer
<1>5. QED
  BY <1>1, <1>2, <1>3, <1>4 DEF Next, View!Next

(* The cache and the map implement the view a pass relies on: endpoints picked  *)
(* from exactly the addresses offered when it began.                        *)
THEOREM SpecImplementsEndpointsView == Spec => ImplementsEndpointsView
BY SpecIInv, InitImplements, NextImplements, PTL
   DEF Spec, ImplementsEndpointsView, View!Spec

-----------------------------------------------------------------------------
(* The refinement of TrackerView. *)

(* The comparison with what is pending, or else applied, is one with the last  *)
(* object of the slice: an event changes something when that changes.         *)
LEMMA SetSliceChanged ==
  ASSUME IInv, NEW s \in Services, NEW n \in SliceNames, NEW slice \in Slices
  PROVE  esInfoChanged(s, n, newEndpointSliceInfo(slice, FALSE))
           <=> newEndpointSliceInfo(slice, FALSE) # Latest(s, n)
<1> DEFINE info == newEndpointSliceInfo(slice, FALSE)
<1>1. info \in Infos /\ info # None /\ info.remove = FALSE
  BY InfoType
<1>2. Latest(s, n) = IF pending[s][n] = None THEN applied[s][n]
                     ELSE IF pending[s][n].remove THEN None ELSE pending[s][n]
  BY DEF IInv, PendingIsLatest, checkedOut
<1> HIDE DEF info
<1>3. esInfoChanged(s, n, info) <=> info # Latest(s, n)
  BY <1>1, <1>2 DEF esInfoChanged
<1>4. QED
  BY <1>3 DEF info

LEMMA DeleteSliceChanged ==
  ASSUME IInv, NEW s \in Services, NEW n \in SliceNames, slices[s][n] # None
  PROVE  esInfoChanged(s, n, newEndpointSliceInfo(slices[s][n], TRUE))
           /\ Latest(s, n) # None
<1> DEFINE info == newEndpointSliceInfo(slices[s][n], TRUE)
<1>1. slices[s][n] \in Slices
  BY SliceType DEF IInv
<1>2. info.remove = TRUE
  BY <1>1, InfoType
<1>3. Latest(s, n) # None /\ Latest(s, n).remove = FALSE
  BY <1>1, InfoType DEF Latest
<1>4. Latest(s, n) = IF pending[s][n] = None THEN applied[s][n]
                     ELSE IF pending[s][n].remove THEN None ELSE pending[s][n]
  BY DEF IInv, PendingIsLatest, checkedOut
<1> HIDE DEF info
<1>5. esInfoChanged(s, n, info)
  BY <1>2, <1>3, <1>4 DEF esInfoChanged
<1>6. QED
  BY <1>3, <1>5 DEF info

LEMMA LatestType ==
  ASSUME TypeOK, NEW s \in Services, NEW n \in SliceNames
  PROVE  Latest(s, n) \in Infos \cup {None}
BY SliceType, InfoType DEF Latest

(* An event about slice n of s that is recorded when it changes that slice.     *)
LEMMA EventTracker ==
  ASSUME IInv, IInv', NEW s \in Services, NEW n \in SliceNames,
         NEW new \in Slices \cup {None}, NEW info \in Infos,
         slices' = [slices EXCEPT ![s][n] = new],
         updatePending(s, n, info),
         UNCHANGED applied,
         esInfoChanged(s, n, info) <=> Latest(s, n)' # Latest(s, n)
  PROVE  Tracker!Observe(s)
<1> DEFINE known  == [t \in Services |-> [m \in SliceNames |-> Latest(t, m)]]
           behind == {t \in Services : pending[t] # NoInfos}
<1>1. /\ slices \in [Services -> [SliceNames -> Slices \cup {None}]]
      /\ slices' \in [Services -> [SliceNames -> Slices \cup {None}]]
      /\ pending \in [Services -> [SliceNames -> Infos \cup {None}]]
  BY DEF IInv, TypeOK
<1>2. known' \in [Services -> [SliceNames -> Infos \cup {None}]]
  <2>1. \A t \in Services, m \in SliceNames : Latest(t, m)' \in Infos \cup {None}
    <3>1. ASSUME NEW t \in Services, NEW m \in SliceNames, slices'[t][m] # None
          PROVE  newEndpointSliceInfo(slices'[t][m], FALSE) \in Infos
      <4>1. slices'[t][m] \in Slices
        BY <1>1, <3>1
      <4>2. QED
        BY <4>1, InfoType
    <3>2. QED
      BY <3>1 DEF Latest
  <2>2. QED
    BY <2>1
<1>3. \A t \in Services, m \in SliceNames :
        t # s \/ m # n => Latest(t, m)' = Latest(t, m)
  BY <1>1 DEF Latest
<1>4. \A t \in Services \ {s} : known'[t] = known[t]
  BY <1>3
<1>5. known'[s] # known[s] <=> Latest(s, n)' # Latest(s, n)
  <2>1. known'[s] = [m \in SliceNames |-> Latest(s, m)']
          /\ known[s] = [m \in SliceNames |-> Latest(s, m)]
    OBVIOUS
  <2>2. QED
    BY <1>3, <2>1
<1>6. CASE esInfoChanged(s, n, info)
  <2>1. pending' = [pending EXCEPT ![s][n] = info]
    BY <1>6 DEF updatePending
  <2>2. pending'[s][n] = info /\ \A t \in Services \ {s} : pending'[t] = pending[t]
    BY <1>1, <2>1
  <2>3. pending'[s] # NoInfos
    BY <2>2, NoneAssumption DEF NoInfos
  <2>4. behind' = behind \cup {s}
    BY <2>2, <2>3
  <2> HIDE DEF known, behind
  <2>5. QED
    BY <1>2, <1>4, <1>5, <1>6, <2>4 DEF Tracker!Observe, known, behind
<1>7. CASE ~esInfoChanged(s, n, info)
  <2>1. pending' = pending
    BY <1>7 DEF updatePending
  <2> HIDE DEF known
  <2>2. QED
    BY <1>2, <1>4, <1>5, <1>7, <2>1 DEF Tracker!Observe, known
<1>8. QED
  BY <1>6, <1>7

LEMMA SetSliceTracker ==
  ASSUME IInv, IInv', NEW s \in Services, NEW n \in SliceNames, NEW slice \in Slices,
         SetSlice(s, n, slice)
  PROVE  Tracker!Observe(s)
<1> DEFINE info == newEndpointSliceInfo(slice, FALSE)
<1>1. info \in Infos /\ slice # None
  BY InfoType, NoneAssumption
<1>2. slices' = [slices EXCEPT ![s][n] = slice] /\ updatePending(s, n, info)
        /\ applied' = applied
  BY DEF SetSlice
<1>3. slices'[s][n] = slice
  BY <1>2 DEF IInv, TypeOK
<1>4. Latest(s, n)' = info
  BY <1>1, <1>3 DEF Latest
<1>5. esInfoChanged(s, n, info) <=> Latest(s, n)' # Latest(s, n)
  BY <1>4, SetSliceChanged
<1> HIDE DEF info
<1>6. QED
  BY <1>1, <1>2, <1>5, EventTracker

LEMMA DeleteSliceTracker ==
  ASSUME IInv, IInv', NEW s \in Services, NEW n \in SliceNames, DeleteSlice(s, n)
  PROVE  Tracker!Observe(s)
<1> DEFINE info == newEndpointSliceInfo(slices[s][n], TRUE)
<1>1. /\ slices[s][n] # None /\ applied' = applied
      /\ slices' = [slices EXCEPT ![s][n] = None] /\ updatePending(s, n, info)
  BY DEF DeleteSlice
<1>2. info \in Infos
  <2>1. slices[s][n] \in Slices
    BY <1>1, SliceType DEF IInv
  <2>2. QED
    BY <2>1, InfoType
<1>3. slices'[s][n] = None
  BY <1>1 DEF IInv, TypeOK
<1>4. Latest(s, n)' = None
  BY <1>3 DEF Latest
<1>5. esInfoChanged(s, n, info) <=> Latest(s, n)' # Latest(s, n)
  BY <1>1, <1>4, DeleteSliceChanged
<1> HIDE DEF info
<1>6. QED
  BY <1>1, <1>2, <1>5, EventTracker

LEMMA UpdateEndpointsMapTracker ==
  ASSUME IInv, UpdateEndpointsMap
  PROVE  Tracker!Take
<1>1. /\ slices' = slices
      /\ applied' = [s \in Services |-> checkedOut(s)]
      /\ \A s \in Services : pending'[s] = NoInfos
  BY DEF UpdateEndpointsMap
<1>2. \A s \in Services : checkedOut(s) = [n \in SliceNames |-> Latest(s, n)]
  BY DEF IInv, PendingIsLatest, checkedOut
<1>3. \A s \in Services, n \in SliceNames : Latest(s, n)' = Latest(s, n)
  BY <1>1 DEF Latest
<1>4. {s \in Services : pending'[s] # NoInfos} = {}
  BY <1>1
<1>5. QED
  BY <1>1, <1>2, <1>3, <1>4 DEF Tracker!Take

LEMMA NextTracker == IInv /\ IInv' /\ [Next]_vars => [Tracker!Next]_(Tracker!vars)
<1> SUFFICES ASSUME IInv, IInv', [Next]_vars PROVE [Tracker!Next]_(Tracker!vars)
  OBVIOUS
<1>1. CASE \E s \in Services, n \in SliceNames, slice \in Slices : SetSlice(s, n, slice)
  BY <1>1, SetSliceTracker DEF Tracker!Next
<1>2. CASE \E s \in Services, n \in SliceNames : DeleteSlice(s, n)
  BY <1>2, DeleteSliceTracker DEF Tracker!Next
<1>3. CASE UpdateEndpointsMap
  BY <1>3, UpdateEndpointsMapTracker DEF Tracker!Next
<1>4. CASE UNCHANGED vars
  BY <1>4 DEF vars, Tracker!vars, Latest
<1>5. QED
  BY <1>1, <1>2, <1>3, <1>4 DEF Next

(* EndpointSliceCache has a change pending for every service whose slices are   *)
(* not those applied, and EndpointSliceUpdate adds one exactly when an event    *)
(* changes a slice: no pass that finds nothing pending misses anything.        *)
THEOREM SpecImplementsTrackerView == Spec => ImplementsTrackerView
<1>1. Init => Tracker!Init
  BY DEF Init, NoInfos, Latest, Tracker!Init, Tracker!New
<1>2. QED
  BY <1>1, NextTracker, SpecIInv, PTL DEF Spec, ImplementsTrackerView, Tracker!Spec
=============================================================================
