--------------------------- MODULE ServiceChanges ---------------------------
(***************************************************************************)
(* ServiceChangeTracker and ServiceMap (controller/service.go): events are   *)
(* merged into one change per service, and UpdateServiceMap applies the      *)
(* changes to the map of the passes.  Both hold the tracker's lock.         *)
(*                                                                         *)
(* A ServicePortName is a service and a key, the port's name and protocol;   *)
(* a ServiceMap of the code is a function over keys here, None where the     *)
(* code's map has no entry, and one such function per service.              *)
(***************************************************************************)
CONSTANTS
  ServiceNames,  \* namespace/name
  PortNames,
  Protocols,     \* "UDP" is the one whose addresses go stale
  Numbers,       \* port numbers
  IPs,           \* cluster addresses
  None           \* no object, no cluster address, no port, no entry, no change

Keys    == [port : PortNames, protocol : Protocols]
Infos   == [clusterIP : IPs, port : Numbers]
UDPKeys == {k \in Keys : k.protocol = "UDP"}

(* The Service objects an event may carry: None is a service that is deleted  *)
(* or was not there; a service without cluster address is headless, and the   *)
(* API server takes no other service without a port.                        *)
Ports   == [PortNames -> [protocol : Protocols, number : Numbers] \cup {None}]
Objects == {o \in [clusterIP : IPs \cup {None}, ports : Ports] :
              o.clusterIP # None => \E p \in PortNames : o.ports[p] # None}
           \cup {None}

ServiceMaps == [Keys -> Infos \cup {None}]
NoPorts     == [k \in Keys |-> None]
Changes     == [previous : ServiceMaps, current : ServiceMaps]

ASSUME NoneAssumption == /\ None \notin IPs
                         /\ None \notin [protocol : Protocols, number : Numbers]
                         /\ None \notin Infos
                         /\ None \notin Changes

VARIABLES
  objects,           \* informer: the object of the last event of each service
  items,             \* the change pending for each service
  serviceMap,        \* proxier.serviceMap
  UDPStaleClusterIP  \* of the last UpdateServiceMap

vars == <<objects, items, serviceMap, UDPStaleClusterIP>>

-----------------------------------------------------------------------------
(* The service ports of an object; a headless or absent service has none.    *)
serviceToServiceMap(o) ==
  [k \in Keys |->
     IF /\ o # None /\ o.clusterIP # None
        /\ o.ports[k.port] # None /\ o.ports[k.port].protocol = k.protocol
     THEN [clusterIP |-> o.clusterIP, port |-> o.ports[k.port].number]
     ELSE None]

(* A mutant: an update is unmerged like a deletion.                         *)
filterNothing(sm, other) == sm

(* The three operations on maps; in each, other is read and sm is changed.   *)
merge(sm, other)   == [k \in Keys |-> IF other[k] # None THEN other[k] ELSE sm[k]]
filter(sm, other)  == [k \in Keys |-> IF other[k] # None THEN None ELSE sm[k]]
unmerge(sm, other) == [k \in Keys |-> IF other[k] # None THEN None ELSE sm[k]]

(* What unmerge finds stale: the UDP ports it deletes. *)
staleIPs(sm, other) ==
  {sm[k].clusterIP : k \in {j \in UDPKeys : other[j] # None /\ sm[j] # None}}

Init == /\ objects = [s \in ServiceNames |-> None]
        /\ items = [s \in ServiceNames |-> None]
        /\ serviceMap = [s \in ServiceNames |-> NoPorts]
        /\ UDPStaleClusterIP = {}

(* A mutant: every event starts a new change.                               *)
UpdateAfresh(s, o) ==
  LET change == [previous |-> serviceToServiceMap(objects[s]),
                 current  |-> serviceToServiceMap(o)]
  IN  /\ items' = [items EXCEPT ![s] = IF change.previous = change.current
                                       THEN None ELSE change]
      /\ objects' = [objects EXCEPT ![s] = o]
      /\ UNCHANGED <<serviceMap, UDPStaleClusterIP>>

(* A mutant: the change of a deleted service has no current map.            *)
UpdateWithoutMap(s, o) ==
  /\ items' = [items EXCEPT ![s] =
                 [previous |-> serviceToServiceMap(objects[s]),
                  current  |-> IF o = None THEN None ELSE serviceToServiceMap(o)]]
  /\ objects' = [objects EXCEPT ![s] = o]
  /\ UNCHANGED <<serviceMap, UDPStaleClusterIP>>

(***************************************************************************)
(* Update(previous, current), called with the object of the last event and   *)
(* that of this one: the first event since the last pass remembers where     *)
(* the service came from, every event where it is now, and a change that     *)
(* leads back is dropped.                                                  *)
(***************************************************************************)
Update(s, o) ==
  LET previous == IF items[s] = None THEN serviceToServiceMap(objects[s])
                  ELSE items[s].previous
      current  == serviceToServiceMap(o)
  IN  /\ items' = [items EXCEPT ![s] = IF previous = current THEN None
                                       ELSE [previous |-> previous, current |-> current]]
      /\ objects' = [objects EXCEPT ![s] = o]
      /\ UNCHANGED <<serviceMap, UDPStaleClusterIP>>

(* apply, for the change of service s: merge, filter, unmerge. *)
merged(s)  == merge(serviceMap[s], items[s].current)
removed(s) == filter(items[s].previous, items[s].current)

UpdateServiceMap ==
  LET changed == {s \in ServiceNames : items[s] # None}
  IN  /\ serviceMap' = [s \in ServiceNames |->
                          IF s \in changed THEN unmerge(merged(s), removed(s))
                          ELSE serviceMap[s]]
      /\ UDPStaleClusterIP' = UNION {staleIPs(merged(s), removed(s)) : s \in changed}
      /\ items' = [s \in ServiceNames |-> None]
      /\ UNCHANGED objects

Next == \/ \E s \in ServiceNames, o \in Objects : Update(s, o)
        \/ UpdateServiceMap

Spec == Init /\ [][Next]_vars

-----------------------------------------------------------------------------
(* Every variable has its type. *)
TypeOK ==
  /\ objects \in [ServiceNames -> Objects]
  /\ items \in [ServiceNames -> Changes \cup {None}]
  /\ serviceMap \in [ServiceNames -> ServiceMaps]
  /\ UDPStaleClusterIP \subseteq IPs

(* A change is pending for a service exactly when the map of the passes      *)
(* differs from the last object the informer delivered, and it leads from    *)
(* the one to the other, however many events it merges: none is lost, none   *)
(* is left that would run a pass for nothing.                               *)
PendingIsDifference ==
  \A s \in ServiceNames :
    IF serviceMap[s] = serviceToServiceMap(objects[s])
    THEN items[s] = None
    ELSE items[s] = [previous |-> serviceMap[s],
                     current  |-> serviceToServiceMap(objects[s])]

(* Applying the merged changes one service at a time gives what copying the   *)
(* state of every service would, and reports the addresses of the UDP ports   *)
(* that disappeared between the two passes, no others.                      *)
View == INSTANCE ServiceView
          WITH known  <- [s \in ServiceNames |-> serviceToServiceMap(objects[s])],
               served <- serviceMap,
               stale  <- UDPStaleClusterIP
ImplementsServiceView == View!Spec
=============================================================================
