----------------------- MODULE EndpointsChangesProofs -----------------------
(***************************************************************************)
(* Proofs about EndpointsChanges, for any services, keys, endpoints and       *)
(* trigger times, any number of subsets in an object and any events, before,  *)
(* between and after the steps of a pass.                                   *)
(***************************************************************************)
EXTENDS EndpointsChanges, TLAPS

USE DEF EndpointsMaps

(* The map of an object is a map, that of no object is none. *)
LEMMA MapType ==
  ASSUME NEW o \in Objects
  PROVE  /\ endpointsToEndpointsMap(o) \in EndpointsMaps \cup {None}
         /\ endpointsToEndpointsMap(o) = None <=> o = None
<1>1. CASE o = None
  BY <1>1 DEF endpointsToEndpointsMap
<1>2. CASE o # None
  <2>1. endpointsToEndpointsMap(o) \in EndpointsMaps
    BY <1>2 DEF endpointsToEndpointsMap
  <2>2. QED
    BY <1>2, <2>1, NoneAssumption
<1>3. QED
  BY <1>1, <1>2

LEMMA EntriesType ==
  ASSUME NEW m \in EndpointsMaps \cup {None}
  PROVE  entries(m) \in EndpointsMaps
BY DEF entries, NoEndpoints

(* The lemma a pass rests on: a map with its own entries taken out and the    *)
(* new ones put in is the new one.                                         *)
LEMMA ApplyLeadsToCurrent ==
  ASSUME NEW old \in EndpointsMaps, NEW new \in EndpointsMaps
  PROVE  merge(unmerge(old, old), new) = new
<1>1. ASSUME NEW k \in Keys
      PROVE  merge(unmerge(old, old), new)[k] = new[k]
  BY DEF unmerge, merge
<1>2. QED
  BY <1>1 DEF merge

-----------------------------------------------------------------------------
(* The inductive invariant: types, changes checked out only within a pass, and *)
(* the two properties, which need each other only through the changes.        *)
CheckedOut == pc = "idle" => changes = NoChanges
IInv == TypeOK /\ CheckedOut /\ PendingLeadsToLatest /\ TimesHaveChanges

LEMMA InitIInv == Init => IInv
<1> SUFFICES ASSUME Init PROVE IInv
  OBVIOUS
<1>1. entries(endpointsToEndpointsMap(None)) = NoEndpoints
  BY DEF endpointsToEndpointsMap, entries
<1>2. TypeOK
  BY DEF Init, TypeOK, NoChanges, NoEndpoints, Objects
<1>3. CheckedOut /\ TimesHaveChanges
  BY DEF Init, CheckedOut, TimesHaveChanges
<1>4. PendingLeadsToLatest
  BY <1>1 DEF Init, PendingLeadsToLatest, Served, NoChanges
<1>5. QED
  BY <1>2, <1>3, <1>4 DEF IInv

(* What is known of the maps of one service. *)
LEMMA MapsOf ==
  ASSUME TypeOK, NEW s \in Services
  PROVE  /\ endpointsMap[s] \in EndpointsMaps
         /\ Served(s) \in EndpointsMaps
         /\ objects[s] \in Objects
         /\ endpointsToEndpointsMap(objects[s]) \in EndpointsMaps \cup {None}
         /\ items[s] # None => items[s] \in Changes
         /\ changes[s] # None => changes[s] \in Changes
<1>1. /\ endpointsMap[s] \in EndpointsMaps
      /\ objects[s] \in Objects
      /\ items[s] # None => items[s] \in Changes
      /\ changes[s] # None => changes[s] \in Changes
  BY DEF TypeOK
<1>2. changes[s] # None => entries(changes[s].current) \in EndpointsMaps
  BY <1>1, EntriesType DEF Changes
<1>3. QED
  BY <1>1, <1>2, MapType DEF Served

(* A service's change starts where the map of the passes is or will be. *)
LEMMA PreviousOfType ==
  ASSUME IInv, NEW s \in Services
  PROVE  /\ previousOf(s) \in EndpointsMaps \cup {None}
         /\ entries(previousOf(s)) = Served(s)
<1>1. TypeOK /\ PendingLeadsToLatest
  BY DEF IInv
<1>2. CASE items[s] = None
  BY <1>1, <1>2, MapsOf DEF previousOf, PendingLeadsToLatest
<1>3. CASE items[s] # None
  BY <1>1, <1>3, MapsOf DEF previousOf, PendingLeadsToLatest, Changes
<1>4. QED
  BY <1>2, <1>3

-----------------------------------------------------------------------------
(* An event keeps the invariant: the merged change starts where it did and     *)
(* leads to the object of the event, or is dropped with its times.           *)
LEMMA UpdateIInv ==
  ASSUME IInv, NEW s \in Services, NEW o \in Objects, NEW t \in Times \cup {None},
         Update(s, o, t)
  PROVE  IInv'
<1> DEFINE previous == previousOf(s)
           current  == endpointsToEndpointsMap(o)
           change   == [previous |-> previous, current |-> current]
           recorded == IF t # None /\ o # None
                       THEN lastChangeTriggerTimes[s] \cup {t}
                       ELSE lastChangeTriggerTimes[s]
<1>0. TypeOK /\ CheckedOut /\ PendingLeadsToLatest /\ TimesHaveChanges
  BY DEF IInv
<1>1. /\ previous \in EndpointsMaps \cup {None}
      /\ entries(previous) = Served(s)
  BY PreviousOfType
<1>2. current \in EndpointsMaps \cup {None}
  BY MapType
<1>3. change \in Changes /\ change # None
  BY <1>1, <1>2, NoneAssumption DEF Changes
<1>4. change.previous = previous /\ change.current = current
  OBVIOUS
<1>5. /\ items' = [items EXCEPT ![s] = IF previous = current THEN None ELSE change]
      /\ lastChangeTriggerTimes' =
           [lastChangeTriggerTimes EXCEPT ![s] = timesOf(recorded, previous = current)]
      /\ objects' = [objects EXCEPT ![s] = o]
      /\ pc' = pc /\ changes' = changes /\ endpointsMap' = endpointsMap
      /\ staleEndpoints' = staleEndpoints /\ staleServiceNames' = staleServiceNames
  BY DEF Update, stale
<1>6. recorded \subseteq Times
  BY <1>0 DEF TypeOK
<1> HIDE DEF previous, change, recorded
<1>7. TypeOK'
  <2>1. timesOf(recorded, previous = current) \subseteq Times
    BY <1>6 DEF timesOf
  <2>2. items' \in [Services -> Changes \cup {None}]
    BY <1>0, <1>3, <1>5 DEF TypeOK
  <2>3. lastChangeTriggerTimes' \in [Services -> SUBSET Times]
    BY <1>0, <1>5, <2>1 DEF TypeOK
  <2>4. objects' \in [Services -> Objects]
    BY <1>0, <1>5 DEF TypeOK
  <2>5. QED
    BY <1>0, <1>5, <2>2, <2>3, <2>4 DEF TypeOK
<1>8. CheckedOut'
  BY <1>0, <1>5 DEF CheckedOut, NoChanges
<1>9. PendingLeadsToLatest'
  <2> SUFFICES ASSUME NEW r \in Services
               PROVE  /\ pc = "apply" /\ changes[r] # None
                           => entries(changes[r].previous) = endpointsMap[r]
                      /\ IF items'[r] = None
                         THEN Served(r) = entries(endpointsToEndpointsMap(objects'[r]))
                         ELSE /\ Served(r) = entries(items'[r].previous)
                              /\ items'[r].previous # items'[r].current
                              /\ items'[r].current = endpointsToEndpointsMap(objects'[r])
    BY <1>5 DEF PendingLeadsToLatest, Served, entries
  <2>1. pc = "apply" /\ changes[r] # None
          => entries(changes[r].previous) = endpointsMap[r]
    BY <1>0 DEF PendingLeadsToLatest
  <2>2. CASE r # s
    <3>1. items'[r] = items[r] /\ objects'[r] = objects[r]
      BY <1>0, <1>5, <2>2 DEF TypeOK
    <3>2. QED
      BY <1>0, <3>1 DEF PendingLeadsToLatest
  <2>3. CASE r = s
    <3>1. /\ items'[s] = IF previous = current THEN None ELSE change
          /\ objects'[s] = o
      BY <1>0, <1>5 DEF TypeOK
    <3>2. CASE previous = current
      BY <1>1, <2>1, <2>3, <3>1, <3>2
    <3>3. CASE previous # current
      BY <1>1, <1>3, <1>4, <2>1, <2>3, <3>1, <3>3
    <3>4. QED
      BY <3>2, <3>3
  <2>4. QED
    BY <2>2, <2>3
<1>10. TimesHaveChanges'
  <2> SUFFICES ASSUME NEW r \in Services, lastChangeTriggerTimes'[r] # {}
               PROVE  items'[r] # None \/ changes[r] # None
    BY <1>5 DEF TimesHaveChanges
  <2>1. CASE r # s
    BY <1>0, <1>5, <2>1 DEF TypeOK, TimesHaveChanges
  <2>2. CASE r = s
    <3>1. /\ items'[s] = IF previous = current THEN None ELSE change
          /\ lastChangeTriggerTimes'[s] = timesOf(recorded, previous = current)
      BY <1>0, <1>5 DEF TypeOK
    <3>2. previous # current
      BY <2>2, <3>1 DEF timesOf
    <3>3. QED
      BY <1>3, <2>2, <3>1, <3>2
  <2>3. QED
    BY <2>1, <2>2
<1>11. QED
  BY <1>7, <1>8, <1>9, <1>10 DEF IInv

(* The checkout: what was pending starts where the map is. *)
LEMMA CheckoutIInv ==
  ASSUME IInv, checkoutChanges
  PROVE  IInv'
<1>0. TypeOK /\ CheckedOut /\ PendingLeadsToLatest /\ TimesHaveChanges
  BY DEF IInv
<1>1. /\ pc = "idle" /\ pc' = "apply"
      /\ changes = NoChanges /\ changes' = items /\ items' = NoChanges
      /\ staleEndpoints' = {} /\ staleServiceNames' = {}
      /\ objects' = objects /\ endpointsMap' = endpointsMap
      /\ lastChangeTriggerTimes' = lastChangeTriggerTimes
  BY <1>0 DEF checkoutChanges, CheckedOut
<1>2. TypeOK'
  BY <1>0, <1>1 DEF TypeOK, NoChanges
<1>3. CheckedOut' /\ TimesHaveChanges'
  BY <1>0, <1>1 DEF CheckedOut, TimesHaveChanges, NoChanges
<1>4. PendingLeadsToLatest'
  <2> SUFFICES ASSUME NEW s \in Services
               PROVE  /\ items[s] # None => entries(items[s].previous) = endpointsMap[s]
                      /\ (IF items[s] = None THEN endpointsMap[s]
                          ELSE entries(items[s].current))
                           = entries(endpointsToEndpointsMap(objects[s]))
    BY <1>1 DEF PendingLeadsToLatest, Served, entries, NoChanges
  <2>1. Served(s) = endpointsMap[s]
    BY <1>1 DEF Served, NoChanges
  <2>2. QED
    BY <1>0, <2>1 DEF PendingLeadsToLatest
<1>5. QED
  BY <1>2, <1>3, <1>4 DEF IInv

(* apply gives every service the endpoints its change leads to, and finds what *)
(* the abstract specification says about the UDP ones.                       *)
LEMMA ApplyResult ==
  ASSUME IInv, apply
  PROVE  /\ endpointsMap' = [s \in Services |-> Served(s)]
         /\ staleEndpoints' = View!Gone(endpointsMap, [s \in Services |-> Served(s)])
         /\ staleServiceNames' = View!Back(endpointsMap, [s \in Services |-> Served(s)])
<1> DEFINE changed == {s \in Services : changes[s] # None}
           old(s)  == entries(changes[s].previous)
           new(s)  == entries(changes[s].current)
<1>0. TypeOK /\ PendingLeadsToLatest
  BY DEF IInv
<1>1. ASSUME NEW s \in changed
      PROVE  /\ old(s) = endpointsMap[s] /\ new(s) = Served(s)
             /\ merge(unmerge(endpointsMap[s], old(s)), new(s)) = Served(s)
  <2>1. old(s) = endpointsMap[s] /\ new(s) = Served(s)
    BY <1>0 DEF apply, PendingLeadsToLatest, Served
  <2>2. endpointsMap[s] \in EndpointsMaps /\ Served(s) \in EndpointsMaps
    BY <1>0, MapsOf
  <2>3. QED
    BY <2>1, <2>2, ApplyLeadsToCurrent
<1>2. ASSUME NEW s \in Services \ changed
      PROVE  endpointsMap[s] = Served(s)
  BY DEF Served
<1>3. /\ endpointsMap' = [s \in Services |->
           IF s \in changed THEN merge(unmerge(endpointsMap[s], old(s)), new(s))
           ELSE endpointsMap[s]]
      /\ staleEndpoints' = UNION {staleIn(s, old(s), new(s)) : s \in changed}
      /\ staleServiceNames' = UNION {revivedIn(s, old(s), new(s)) : s \in changed}
  BY DEF apply
<1>4. endpointsMap' = [s \in Services |-> Served(s)]
  BY <1>1, <1>2, <1>3
<1> HIDE DEF old, new
<1>5. /\ UNION {staleIn(s, old(s), new(s)) : s \in changed}
           = UNION {staleIn(s, endpointsMap[s], Served(s)) : s \in changed}
      /\ UNION {revivedIn(s, old(s), new(s)) : s \in changed}
           = UNION {revivedIn(s, endpointsMap[s], Served(s)) : s \in changed}
  BY <1>1
<1> DEFINE snap == [s \in Services |-> Served(s)]
<1>6. UNION {staleIn(s, endpointsMap[s], Served(s)) : s \in changed}
        = View!Gone(endpointsMap, snap)
  BY <1>2 DEF staleIn, View!Gone
<1>7. UNION {revivedIn(s, endpointsMap[s], Served(s)) : s \in changed}
        = View!Back(endpointsMap, snap)
  <2>1. ASSUME NEW s \in changed, NEW u
        PROVE  u \in revivedIn(s, endpointsMap[s], Served(s))
                 <=> /\ u \in Services \X UDPKeys /\ u[1] = s
                     /\ endpointsMap[s][u[2]] = {} /\ Served(s)[u[2]] # {}
    BY DEF revivedIn
  <2>2. ASSUME NEW u
        PROVE  u \in View!Back(endpointsMap, snap)
                 <=> /\ u \in Services \X UDPKeys
                     /\ endpointsMap[u[1]][u[2]] = {} /\ Served(u[1])[u[2]] # {}
    BY DEF View!Back
  <2>3. ASSUME NEW u \in View!Back(endpointsMap, snap)
        PROVE  u[1] \in changed
    BY <1>2, <2>2
  <2>4. QED
    BY <2>1, <2>2, <2>3
<1>8. QED
  BY <1>3, <1>4, <1>5, <1>6, <1>7

LEMMA ApplyIInv ==
  ASSUME IInv, apply
  PROVE  IInv'
<1>0. TypeOK /\ CheckedOut /\ PendingLeadsToLatest /\ TimesHaveChanges
  BY DEF IInv
<1>1. /\ pc = "apply" /\ pc' = "times"
      /\ changes' = changes /\ items' = items /\ objects' = objects
      /\ lastChangeTriggerTimes' = lastChangeTriggerTimes
  BY DEF apply
<1>2. endpointsMap' = [s \in Services |-> Served(s)]
  BY ApplyResult
<1>3. /\ staleEndpoints' \subseteq Services \X UDPKeys \X Endpoints
      /\ staleServiceNames' \subseteq Services \X UDPKeys
  BY ApplyResult DEF View!Gone, View!Back
<1>4. \A s \in Services : Served(s) \in EndpointsMaps
  BY <1>0, MapsOf
<1>5. TypeOK'
  BY <1>0, <1>1, <1>2, <1>3, <1>4 DEF TypeOK
<1>6. CheckedOut' /\ TimesHaveChanges'
  BY <1>0, <1>1 DEF CheckedOut, TimesHaveChanges
<1>7. PendingLeadsToLatest'
  <2> SUFFICES ASSUME NEW s \in Services
               PROVE  IF items[s] = None
                      THEN endpointsMap'[s] = entries(endpointsToEndpointsMap(objects[s]))
                      ELSE /\ endpointsMap'[s] = entries(items[s].previous)
                           /\ items[s].previous # items[s].current
                           /\ items[s].current = endpointsToEndpointsMap(objects[s])
    BY <1>1 DEF PendingLeadsToLatest, Served, entries
  <2>1. endpointsMap'[s] = Served(s)
    BY <1>2
  <2>2. QED
    BY <1>0, <2>1 DEF PendingLeadsToLatest
<1>8. QED
  BY <1>5, <1>6, <1>7 DEF IInv

LEMMA CheckoutTriggerTimesIInv ==
  ASSUME IInv, checkoutTriggerTimes
  PROVE  IInv'
<1>0. TypeOK /\ CheckedOut /\ PendingLeadsToLatest
  BY DEF IInv
<1>1. /\ pc = "times" /\ pc' = "idle"
      /\ lastChangeTriggerTimes' = [s \in Services |-> {}]
      /\ objects' = objects /\ items' = items /\ changes' = NoChanges
      /\ endpointsMap' = endpointsMap
      /\ staleEndpoints' = staleEndpoints /\ staleServiceNames' = staleServiceNames
  BY DEF checkoutTriggerTimes, stale
<1>2. TypeOK'
  BY <1>0, <1>1 DEF TypeOK, NoChanges
<1>3. CheckedOut' /\ TimesHaveChanges'
  BY <1>1 DEF CheckedOut, TimesHaveChanges
<1>4. PendingLeadsToLatest'
  BY <1>0, <1>1 DEF PendingLeadsToLatest, Served, entries
<1>5. QED
  BY <1>2, <1>3, <1>4 DEF IInv

LEMMA NextIInv == IInv /\ [Next]_vars => IInv'
<1> SUFFICES ASSUME IInv, [Next]_vars PROVE IInv'
  OBVIOUS
<1>1. CASE \E s \in Services, o \in Objects, t \in Times \cup {None} : Update(s, o, t)
  BY <1>1, UpdateIInv
<1>2. CASE checkoutChanges
  BY <1>2, CheckoutIInv
<1>3. CASE apply
  BY <1>3, ApplyIInv
<1>4. CASE checkoutTriggerTimes
  BY <1>4, CheckoutTriggerTimesIInv
<1>5. CASE UNCHANGED vars
  BY <1>5 DEF vars, stale, IInv, TypeOK, CheckedOut, PendingLeadsToLatest, TimesHaveChanges,
             Served, entries
<1>6. QED
  BY <1>1, <1>2, <1>3, <1>4, <1>5 DEF Next

LEMMA SpecIInv == Spec => []IInv
BY InitIInv, NextIInv, PTL DEF Spec

(* Every behaviour of the tracker and of EndpointsMap.Update is well typed. *)
THEOREM SpecTypeOK == Spec => []TypeOK
BY SpecIInv, PTL DEF IInv

(* What Update merged leads from what the passes hold, or are about to hold,   *)
(* to the last object, with events between checkoutChanges and apply too.     *)
THEOREM SpecPendingLeadsToLatest == Spec => []PendingLeadsToLatest
BY SpecIInv, PTL DEF IInv

(* A trigger time is recorded only for a service with a change, pending or in  *)
(* the hands of EndpointsMap.Update, although checkoutChanges and             *)
(* checkoutTriggerTimes lock the tracker apart.                             *)
THEOREM SpecTimesHaveChanges == Spec => []TimesHaveChanges
BY SpecIInv, PTL DEF IInv

-----------------------------------------------------------------------------
(* The refinement of EndpointsCopy: an event is observed, the checkout takes   *)
(* the snapshot, apply refreshes, and taking the times is a stutter.         *)

LEMMA InitImplements == Init => View!Init
<1>1. entries(endpointsToEndpointsMap(None)) = NoEndpoints
  BY DEF endpointsToEndpointsMap, entries
<1>2. QED
  BY <1>1 DEF Init, View!Init, NoEndpoints

LEMMA UpdateImplements ==
  ASSUME IInv, NEW s \in Services, NEW o \in Objects, NEW t \in Times \cup {None},
         Update(s, o, t)
  PROVE  View!Observe(s)
<1> DEFINE known == [r \in Services |-> entries(endpointsToEndpointsMap(objects[r]))]
<1>1. /\ objects' = [objects EXCEPT ![s] = o]
      /\ pc' = pc /\ changes' = changes /\ endpointsMap' = endpointsMap
      /\ staleEndpoints' = staleEndpoints /\ staleServiceNames' = staleServiceNames
  BY DEF Update, stale
<1>2. objects \in [Services -> Objects]
  BY DEF IInv, TypeOK
<1>3. objects' \in [Services -> Objects]
  BY <1>1, <1>2
<1>4. known' \in [Services -> EndpointsMaps]
  BY <1>3, MapType, EntriesType
<1>5. \A r \in Services \ {s} : known'[r] = known[r]
  BY <1>1, <1>2
<1>6. (IF pc = "apply" THEN [r \in Services |-> Served(r)] ELSE None)'
        = IF pc = "apply" THEN [r \in Services |-> Served(r)] ELSE None
  BY <1>1 DEF Served, entries
<1>7. QED
  BY <1>1, <1>4, <1>5, <1>6 DEF View!Observe, View!Maps

LEMMA CheckoutImplements ==
  ASSUME IInv, checkoutChanges
  PROVE  View!TakeSnapshot
<1> DEFINE known == [s \in Services |-> entries(endpointsToEndpointsMap(objects[s]))]
<1>1. /\ pc = "idle" /\ pc' = "apply"
      /\ items' = NoChanges
      /\ objects' = objects /\ endpointsMap' = endpointsMap
      /\ staleEndpoints' = {} /\ staleServiceNames' = {}
  BY DEF checkoutChanges
<1>2. PendingLeadsToLatest'
  BY CheckoutIInv DEF IInv
<1>3. [s \in Services |-> Served(s)]' = known'
  BY <1>1, <1>2 DEF PendingLeadsToLatest, NoChanges
<1>4. known' = known
  BY <1>1
<1>5. QED
  BY <1>1, <1>3, <1>4 DEF View!TakeSnapshot

LEMMA ApplyImplements ==
  ASSUME IInv, apply
  PROVE  View!Refresh
<1> DEFINE snap == [s \in Services |-> Served(s)]
<1>1. pc = "apply" /\ pc' = "times" /\ objects' = objects
  BY DEF apply
<1>2. snap # None
  <2>1. \A s \in Services : Served(s) \in EndpointsMaps
    BY MapsOf DEF IInv
  <2>2. snap \in [Services -> EndpointsMaps]
    BY <2>1
  <2>3. QED
    BY <2>2, NoneAssumption
<1>3. QED
  BY <1>1, <1>2, ApplyResult DEF View!Refresh

LEMMA NextImplements == IInv /\ [Next]_vars => [View!Next]_(View!viewVars)
<1> SUFFICES ASSUME IInv, [Next]_vars PROVE [View!Next]_(View!viewVars)
  OBVIOUS
<1>1. CASE \E s \in Services, o \in Objects, t \in Times \cup {None} : Update(s, o, t)
  BY <1>1, UpdateImplements DEF View!Next
<1>2. CASE checkoutChanges
  BY <1>2, CheckoutImplements DEF View!Next
<1>3. CASE apply
  BY <1>3, ApplyImplements DEF View!Next
<1>4. CASE checkoutTriggerTimes
  BY <1>4 DEF checkoutTriggerTimes, stale, View!viewVars
<1>5. CASE UNCHANGED vars
  BY <1>5 DEF vars, stale, View!viewVars, Served, entries
<1>6. QED
  BY <1>1, <1>2, <1>3, <1>4, <1>5 DEF Next

(* The tracker, the map and the two visits under the lock implement the copy   *)
(* a pass relies on.                                                       *)
THEOREM SpecImplementsEndpointsCopy == Spec => ImplementsEndpointsCopy
BY SpecIInv, InitImplements, NextImplements, PTL
   DEF Spec, ImplementsEndpointsCopy, View!Spec
=============================================================================
