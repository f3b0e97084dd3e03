------------------------ MODULE ServiceChangesProofs ------------------------
(* Proofs about ServiceChanges, for any services, ports, addresses and events. *)
EXTENDS ServiceChanges, TLAPS

USE DEF Keys, Infos, ServiceMaps

(* The service ports of any object form a map. *)
LEMMA ServiceMapType ==
  ASSUME NEW o \in Objects
  PROVE  serviceToServiceMap(o) \in ServiceMaps
<1>1. CASE o = None
  BY <1>1 DEF serviceToServiceMap
<1>2. CASE o # None
  <2>1. /\ o.clusterIP \in IPs \cup {None}
        /\ o.ports \in [PortNames -> [protocol : Protocols, number : Numbers]
                                       \cup {None}]
    BY <1>2 DEF Objects, Ports
  <2>2. ASSUME NEW k \in Keys, o.clusterIP # None, o.ports[k.port] # None
        PROVE  [clusterIP |-> o.clusterIP, port |-> o.ports[k.port].number] \in Infos
    <3>1. o.ports[k.port] \in [protocol : Protocols, number : Numbers]
      BY <2>1, <2>2
    <3>2. QED
      BY <2>1, <2>2, <3>1
  <2>3. QED
    BY <2>2 DEF serviceToServiceMap
<1>3. QED
  BY <1>1, <1>2

(***************************************************************************)
(* apply on a map that a change starts from: what is merged and not removed   *)
(* is what the change leads to, and what is removed is what it takes away.    *)
(***************************************************************************)
LEMMA ApplyLeadsToCurrent ==
  ASSUME NEW old \in ServiceMaps, NEW new \in ServiceMaps
  PROVE  unmerge(merge(old, new), filter(old, new)) = new
<1>1. ASSUME NEW k \in Keys
      PROVE  unmerge(merge(old, new), filter(old, new))[k] = new[k]
  BY DEF unmerge, merge, filter
<1>2. QED
  BY <1>1 DEF unmerge

LEMMA StaleIsGone ==
  ASSUME NEW old \in ServiceMaps, NEW new \in ServiceMaps
  PROVE  staleIPs(merge(old, new), filter(old, new)) = View!Gone(old, new)
<1> DEFINE m == merge(old, new)
           f == filter(old, new)
<1>1. ASSUME NEW k \in UDPKeys
      PROVE  /\ (f[k] # None /\ m[k] # None) <=> (old[k] # None /\ new[k] = None)
             /\ old[k] # None /\ new[k] = None => m[k] = old[k]
  BY DEF UDPKeys, merge, filter
<1>2. {j \in UDPKeys : f[j] # None /\ m[j] # None}
        = {j \in UDPKeys : old[j] # None /\ new[j] = None}
  BY <1>1
<1> HIDE DEF m, f
<1>3. {m[k].clusterIP : k \in {j \in UDPKeys : f[j] # None /\ m[j] # None}}
        = {old[k].clusterIP : k \in {j \in UDPKeys : old[j] # None /\ new[j] = None}}
  BY <1>1, <1>2
<1>4. QED
  BY <1>3 DEF staleIPs, View!Gone, m, f

-----------------------------------------------------------------------------
(* The inductive invariant: types, and the meaning of a pending change. *)
IInv == TypeOK /\ PendingIsDifference

LEMMA InitIInv == Init => IInv
<1> SUFFICES ASSUME Init PROVE IInv
  OBVIOUS
<1>1. serviceToServiceMap(None) = NoPorts
  BY DEF serviceToServiceMap, NoPorts
<1>2. TypeOK
  BY DEF Init, TypeOK, Objects, NoPorts
<1>3. PendingIsDifference
  BY <1>1 DEF Init, PendingIsDifference
<1>4. QED
  BY <1>2, <1>3 DEF IInv

(* Both maps of a service can be read from its change.                      *)
LEMMA PendingChange ==
  ASSUME IInv, NEW s \in ServiceNames
  PROVE  /\ serviceMap[s] \in ServiceMaps
         /\ serviceToServiceMap(objects[s]) \in ServiceMaps
         /\ items[s] = None <=> serviceMap[s] = serviceToServiceMap(objects[s])
         /\ items[s] # None => /\ items[s].previous = serviceMap[s]
                               /\ items[s].current = serviceToServiceMap(objects[s])
<1> DEFINE m == serviceToServiceMap(objects[s])
           change == [previous |-> serviceMap[s], current |-> m]
<1>1. serviceMap[s] \in ServiceMaps /\ m \in ServiceMaps
  BY ServiceMapType DEF IInv, TypeOK
<1>2. change \in Changes
  BY <1>1 DEF Changes
<1>3. change # None
  BY <1>2, NoneAssumption
<1>4. IF serviceMap[s] = m THEN items[s] = None ELSE items[s] = change
  BY DEF IInv, PendingIsDifference
<1>5. QED
  BY <1>1, <1>3, <1>4

(* An event keeps the invariant: the change starts where the map of the passes *)
(* is and leads to the object of the event.                                *)
LEMMA UpdateIInv ==
  ASSUME IInv, NEW s \in ServiceNames, NEW o \in Objects, Update(s, o)
  PROVE  IInv'
<1> DEFINE current == serviceToServiceMap(o)
           change  == [previous |-> serviceMap[s], current |-> current]
<1>1. current \in ServiceMaps /\ serviceMap[s] \in ServiceMaps
  BY ServiceMapType DEF IInv, TypeOK
<1>2. change \in Changes
  BY <1>1 DEF Changes
<1>3. (IF items[s] = None THEN serviceToServiceMap(objects[s])
       ELSE items[s].previous) = serviceMap[s]
  BY PendingChange
<1>4. items' = [items EXCEPT ![s] = IF serviceMap[s] = current THEN None ELSE change]
  BY <1>3 DEF Update
<1>5. /\ objects' = [objects EXCEPT ![s] = o]
      /\ serviceMap' = serviceMap
      /\ UDPStaleClusterIP' = UDPStaleClusterIP
  BY DEF Update
<1> HIDE DEF change
<1>6. TypeOK'
  BY <1>2, <1>4, <1>5 DEF IInv, TypeOK
<1>7. PendingIsDifference'
  <2> SUFFICES ASSUME NEW t \in ServiceNames
               PROVE  IF serviceMap'[t] = serviceToServiceMap(objects'[t])
                      THEN items'[t] = None
                      ELSE items'[t] = [previous |-> serviceMap'[t],
                                        current |-> serviceToServiceMap(objects'[t])]
    BY DEF PendingIsDifference
  <2>1. CASE t = s
    BY <2>1, <1>4, <1>5 DEF IInv, TypeOK, change
  <2>2. CASE t # s
    <3>1. items'[t] = items[t] /\ objects'[t] = objects[t]
      BY <2>2, <1>4, <1>5 DEF IInv, TypeOK
    <3>2. QED
      BY <3>1, <1>5 DEF IInv, PendingIsDifference
  <2>3. QED
    BY <2>1, <2>2
<1>8. QED
  BY <1>6, <1>7 DEF IInv

(* A pass leaves the map of every service at its last object, and reports the  *)
(* addresses that went with it.                                             *)
LEMMA UpdateServiceMapResult ==
  ASSUME IInv, UpdateServiceMap
  PROVE  /\ serviceMap' = [s \in ServiceNames |-> serviceToServiceMap(objects[s])]
         /\ UDPStaleClusterIP' =
              UNION {View!Gone(serviceMap[s], serviceToServiceMap(objects[s])) :
                       s \in ServiceNames}
<1> DEFINE new(s)  == serviceToServiceMap(objects[s])
           changed == {s \in ServiceNames : items[s] # None}
<1>1. ASSUME NEW s \in changed
      PROVE  /\ unmerge(merged(s), removed(s)) = new(s)
             /\ staleIPs(merged(s), removed(s)) = View!Gone(serviceMap[s], new(s))
  <2>1. merged(s) = merge(serviceMap[s], new(s)) /\ removed(s) = filter(serviceMap[s], new(s))
    BY PendingChange DEF merged, removed
  <2>2. QED
    BY <2>1, PendingChange, ApplyLeadsToCurrent, StaleIsGone
<1>2. ASSUME NEW s \in ServiceNames \ changed
      PROVE  /\ serviceMap[s] = new(s)
             /\ View!Gone(serviceMap[s], new(s)) = {}
  BY PendingChange DEF View!Gone
<1>3. serviceMap' = [s \in ServiceNames |-> new(s)]
  <2>1. serviceMap' = [s \in ServiceNames |->
                         IF s \in changed THEN unmerge(merged(s), removed(s))
                         ELSE serviceMap[s]]
    BY DEF UpdateServiceMap
  <2>2. QED
    BY <2>1, <1>1, <1>2
<1>4. UDPStaleClusterIP' = UNION {View!Gone(serviceMap[s], new(s)) : s \in changed}
  <2>1. UDPStaleClusterIP' = UNION {staleIPs(merged(s), removed(s)) : s \in changed}
    BY DEF UpdateServiceMap
  <2>2. QED
    BY <2>1, <1>1
<1> HIDE DEF new, changed
<1>5. UNION {View!Gone(serviceMap[s], new(s)) : s \in changed}
        = UNION {View!Gone(serviceMap[s], new(s)) : s \in ServiceNames}
  BY <1>2 DEF changed
<1>6. QED
  BY <1>3, <1>4, <1>5 DEF new

LEMMA UpdateServiceMapIInv ==
  ASSUME IInv, UpdateServiceMap
  PROVE  IInv'
<1>1. /\ items' = [s \in ServiceNames |-> None]
      /\ objects' = objects
  BY DEF UpdateServiceMap
<1>2. serviceMap' = [s \in ServiceNames |-> serviceToServiceMap(objects[s])]
  BY UpdateServiceMapResult
<1>3. ASSUME NEW s \in ServiceNames
      PROVE  View!Gone(serviceMap[s], serviceToServiceMap(objects[s])) \subseteq IPs
  <2>1. serviceMap[s] \in ServiceMaps
    BY PendingChange
  <2>2. ASSUME NEW k \in UDPKeys, serviceMap[s][k] # None
        PROVE  serviceMap[s][k].clusterIP \in IPs
    BY <2>1, <2>2 DEF UDPKeys
  <2>3. QED
    BY <2>2 DEF View!Gone
<1>4. UDPStaleClusterIP' \subseteq IPs
  BY <1>3, UpdateServiceMapResult
<1>5. TypeOK'
  BY <1>1, <1>2, <1>4, PendingChange DEF IInv, TypeOK
<1>6. PendingIsDifference'
  BY <1>1, <1>2 DEF PendingIsDifference
<1>7. QED
  BY <1>5, <1>6 DEF IInv

LEMMA NextIInv == IInv /\ [Next]_vars => IInv'
<1> SUFFICES ASSUME IInv, [Next]_vars PROVE IInv'
  OBVIOUS
<1>1. CASE \E s \in ServiceNames, o \in Objects : Update(s, o)
  BY <1>1, UpdateIInv
<1>2. CASE UpdateServiceMap
  BY <1>2, UpdateServiceMapIInv
<1>3. CASE UNCHANGED vars
  BY <1>3 DEF vars, IInv, TypeOK, PendingIsDifference
<1>4. QED
  BY <1>1, <1>2, <1>3 DEF Next

LEMMA SpecIInv == Spec => []IInv
BY InitIInv, NextIInv, PTL DEF Spec

(* Every behaviour of the tracker is well typed. *)
THEOREM SpecTypeOK == Spec => []TypeOK
BY SpecIInv, PTL DEF IInv

(* Exactly the services that differ from the map of the passes are pending,    *)
(* whatever the events of ServiceChangeTracker.Update and the passes between.  *)
THEOREM SpecPendingIsDifference == Spec => []PendingIsDifference
BY SpecIInv, PTL DEF IInv

-----------------------------------------------------------------------------
(* The refinement of ServiceView: an event is observed, a pass refreshes. *)

LEMMA InitImplements == Init => View!Init
<1>1. serviceToServiceMap(None) = NoPorts
  BY DEF serviceToServiceMap, NoPorts
<1>2. QED
  BY <1>1 DEF Init, View!Init, NoPorts

LEMMA UpdateImplements ==
  ASSUME IInv, NEW s \in ServiceNames, NEW o \in Objects, Update(s, o)
  PROVE  View!Observe(s)
<1> DEFINE known == [t \in ServiceNames |-> serviceToServiceMap(objects[t])]
<1>1. /\ objects' = [objects EXCEPT ![s] = o]
      /\ serviceMap' = serviceMap
      /\ UDPStaleClusterIP' = UDPStaleClusterIP
  BY DEF Update
<1>2. objects \in [ServiceNames -> Objects]
  BY DEF IInv, TypeOK
<1>3. objects' \in [ServiceNames -> Objects]
  BY <1>1, <1>2
<1>4. known' \in [ServiceNames -> View!Maps]
  BY <1>3, ServiceMapType DEF View!Maps
<1>5. \A t \in ServiceNames \ {s} : known'[t] = known[t]
  BY <1>1, <1>2
<1>6. QED
  BY <1>1, <1>4, <1>5 DEF View!Observe

LEMMA UpdateServiceMapImplements ==
  ASSUME IInv, UpdateServiceMap
  PROVE  View!Refresh
<1> DEFINE known == [t \in ServiceNames |-> serviceToServiceMap(objects[t])]
<1>1. known' = known
  BY DEF UpdateServiceMap
<1>2. serviceMap' = known
  BY UpdateServiceMapResult
<1>3. UDPStaleClusterIP' = UNION {View!Gone(serviceMap[s], known[s]) : s \in ServiceNames}
  BY UpdateServiceMapResult
<1>4. QED
  BY <1>1, <1>2, <1>3 DEF View!Refresh

LEMMA NextImplements == IInv /\ [Next]_vars => [View!Next]_(View!viewVars)
<1> SUFFICES ASSUME IInv, [Next]_vars PROVE [View!Next]_(View!viewVars)
  OBVIOUS
<1>1. CASE \E s \in ServiceNames, o \in Objects : Update(s, o)
  BY <1>1, UpdateImplements DEF View!Next
<1>2. CASE UpdateServiceMap
  BY <1>2, UpdateServiceMapImplements DEF View!Next
<1>3. CASE UNCHANGED vars
  BY <1>3 DEF vars, View!viewVars
<1>4. QED
  BY <1>1, <1>2, <1>3 DEF Next

(* The tracker and the map implement the view a pass relies on. *)
THEOREM SpecImplementsServiceView == Spec => ImplementsServiceView
BY SpecIInv, InitImplements, NextImplements, PTL
   DEF Spec, ImplementsServiceView, View!Spec
=============================================================================
