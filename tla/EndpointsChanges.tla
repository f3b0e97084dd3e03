-------------------------- MODULE EndpointsChanges --------------------------
(***************************************************************************)
(* EndpointChangeTracker and EndpointsMap (controller/endpoints.go) when     *)
(* endpoints are watched: events are merged into one change per service, and  *)
(* EndpointsMap.Update takes the changes under the tracker's lock, applies    *)
(* them to the map of the passes without it, and takes the trigger times      *)
(* under the lock again.  Events come between any two of these.             *)
(*                                                                         *)
(* A ServicePortName is a service and a key; an EndpointsMap of the code is   *)
(* a function over keys here, {} where the code's map has no entry (an entry  *)
(* is never empty), and one such function per service; nil is None.  The     *)
(* endpoints of a key are in the order of the object, which Kubernetes keeps  *)
(* sorted, so two lists are equal when they have the same members.           *)
(***************************************************************************)
EXTENDS Naturals, FiniteSets

CONSTANTS
  Services,     \* namespace/name
  Keys,         \* port name and protocol: what a ServicePortName adds
  UDPKeys,      \* those whose protocol is UDP
  Numbers,      \* port numbers
  IPs,
  Places,       \* "remote", "local": where an endpoint runs
  Times,        \* values of the annotation with the time of the trigger
  MaxSubsets,   \* bound: subsets of an object
  None          \* no object, no port, no address, no annotation, no change

Endpoints == [ip : IPs, number : Numbers, place : Places]

(* The ready addresses of a subset at its ports; a subset without a port      *)
(* would add nothing, one without a ready address adds nothing.             *)
Subsets == {ss \in [ports : [Keys -> Numbers \cup {None}],
                    addresses : [IPs -> Places \cup {None}]] :
              \E k \in Keys : ss.ports[k] # None}
Objects == {o \in SUBSET Subsets : Cardinality(o) <= MaxSubsets} \cup {None}

EndpointsMaps == [Keys -> SUBSET Endpoints]
NoEndpoints   == [k \in Keys |-> {}]
Changes       == [previous : EndpointsMaps \cup {None}, current : EndpointsMaps \cup {None}]

ASSUME UDPAssumption  == UDPKeys \subseteq Keys
ASSUME NoneAssumption == /\ None \notin Numbers /\ None \notin Places
                         /\ None \notin Times /\ None \notin EndpointsMaps
                         /\ None \notin Changes
                         /\ None \notin [Services -> EndpointsMaps]

VARIABLES
  objects,                 \* informer: the object of the last event of each service
  items,                   \* the change pending for each service
  lastChangeTriggerTimes,  \* the times recorded for each service
  pc,                      \* where EndpointsMap.Update is: "idle", "apply", "times"
  changes,                 \* the changes it has checked out, until it returns
  endpointsMap,            \* proxier.endpointsMap
  staleEndpoints,          \* results of the last Update
  staleServiceNames

stale == <<staleEndpoints, staleServiceNames>>
vars  == <<objects, items, lastChangeTriggerTimes, pc, changes, endpointsMap, stale>>

NoChanges == [s \in Services |-> None]

Init == /\ objects = [s \in Services |-> None]
        /\ items = NoChanges
        /\ lastChangeTriggerTimes = [s \in Services |-> {}]
        /\ pc = "idle"
        /\ changes = NoChanges
        /\ endpointsMap = [s \in Services |-> NoEndpoints]
        /\ staleEndpoints = {} /\ staleServiceNames = {}

-----------------------------------------------------------------------------
(* Every address of a subset at every port of the subset, all subsets        *)
(* together; no map at all, which is not an empty map, without an object.    *)
endpointsToEndpointsMap(o) ==
  IF o = None THEN None
  ELSE [k \in Keys |->
          {e \in Endpoints : \E ss \in o : /\ ss.ports[k] = e.number
                                           /\ ss.addresses[e.ip] = e.place}]

(* Mutants: every event starts a new change; a change that leads back is      *)
(* dropped and its times are kept.                                         *)
previousOfEvent(s) == endpointsToEndpointsMap(objects[s])
timesKept(recorded, canceled) == recorded

(* previous: where the service was at the first event since the checkout.    *)
previousOf(s) == IF items[s] = None THEN endpointsToEndpointsMap(objects[s])
                 ELSE items[s].previous

(* The times of a service after an event; those of changes that canceled      *)
(* each other out are dropped.                                             *)
timesOf(recorded, canceled) == IF canceled THEN {} ELSE recorded

(***************************************************************************)
(* Update(previous, current), called with the object of the last event and   *)
(* that of this one, and the time in its annotations.                      *)
(***************************************************************************)
Update(s, o, t) ==
  LET previous == previousOf(s)
      current  == endpointsToEndpointsMap(o)
      recorded == IF t # None /\ o # None
                  THEN lastChangeTriggerTimes[s] \cup {t} ELSE lastChangeTriggerTimes[s]
      canceled == previous = current
  IN  /\ items' = [items EXCEPT ![s] = IF canceled THEN None
                                       ELSE [previous |-> previous, current |-> current]]
      /\ lastChangeTriggerTimes' =
           [lastChangeTriggerTimes EXCEPT ![s] = timesOf(recorded, canceled)]
      /\ objects' = [objects EXCEPT ![s] = o]
      /\ UNCHANGED <<pc, changes, endpointsMap, stale>>

-----------------------------------------------------------------------------
(* EndpointsMap.Update starts with empty results; checkoutChanges.          *)
checkoutChanges ==
  /\ pc = "idle"
  /\ pc' = "apply"
  /\ changes' = items
  /\ items' = NoChanges
  /\ staleEndpoints' = {} /\ staleServiceNames' = {}
  /\ UNCHANGED <<objects, lastChangeTriggerTimes, endpointsMap>>

(* The entries of a map; nil has none. *)
entries(other) == IF other = None THEN NoEndpoints ELSE other

(* A mutant: nothing is taken out before the current endpoints are put in.    *)
unmergeNothing(em, other) == em

merge(em, other)   == [k \in Keys |-> IF other[k] # {} THEN other[k] ELSE em[k]]
unmerge(em, other) == [k \in Keys |-> IF other[k] # {} THEN {} ELSE em[k]]

(* detectStaleConnections, for the change of service s. *)
staleIn(s, old, new)   == {u \in {s} \X UDPKeys \X Endpoints :
                             u[3] \in old[u[2]] \ new[u[2]]}
revivedIn(s, old, new) == {u \in {s} \X UDPKeys : new[u[2]] # {} /\ old[u[2]] = {}}

(* apply, after checkoutChanges: one change after the other. *)
apply ==
  LET changed == {s \in Services : changes[s] # None}
      old(s)  == entries(changes[s].previous)
      new(s)  == entries(changes[s].current)
  IN  /\ pc = "apply"
      /\ pc' = "times"
      /\ endpointsMap' = [s \in Services |->
           IF s \in changed THEN merge(unmerge(endpointsMap[s], old(s)), new(s))
           ELSE endpointsMap[s]]
      /\ staleEndpoints' = UNION {staleIn(s, old(s), new(s)) : s \in changed}
      /\ staleServiceNames' = UNION {revivedIn(s, old(s), new(s)) : s \in changed}
      /\ UNCHANGED <<objects, items, lastChangeTriggerTimes, changes>>

(* A mutant: the map of the times is not made anew.                         *)
checkoutTriggerTimesForGood ==
  /\ pc = "times"
  /\ pc' = "idle"
  /\ lastChangeTriggerTimes' = None
  /\ changes' = NoChanges
  /\ UNCHANGED <<objects, items, endpointsMap, stale>>

checkoutTriggerTimes ==
  /\ pc = "times"
  /\ pc' = "idle"
  /\ lastChangeTriggerTimes' = [s \in Services |-> {}]
  /\ changes' = NoChanges
  /\ UNCHANGED <<objects, items, endpointsMap, stale>>

Next == \/ \E s \in Services, o \in Objects, t \in Times \cup {None} : Update(s, o, t)
        \/ checkoutChanges
        \/ apply
        \/ checkoutTriggerTimes

Spec == Init /\ [][Next]_vars

-----------------------------------------------------------------------------
(* Every variable has its type. *)
TypeOK ==
  /\ objects \in [Services -> Objects]
  /\ items \in [Services -> Changes \cup {None}]
  /\ lastChangeTriggerTimes \in [Services -> SUBSET Times]
  /\ pc \in {"idle", "apply", "times"}
  /\ changes \in [Services -> Changes \cup {None}]
  /\ endpointsMap \in [Services -> EndpointsMaps]
  /\ staleEndpoints \subseteq Services \X UDPKeys \X Endpoints
  /\ staleServiceNames \subseteq Services \X UDPKeys

(* The endpoints of service s once the checked out changes are applied.      *)
Served(s) == IF pc = "apply" /\ changes[s] # None THEN entries(changes[s].current)
             ELSE endpointsMap[s]

(* However the events follow each other and wherever the pass is between its  *)
(* two visits to the tracker, what is pending leads from what the map holds,  *)
(* or is about to hold, to the last object: nothing pending means nothing to  *)
(* do, and a checked out change starts from what the map holds.              *)
PendingLeadsToLatest ==
  \A s \in Services :
    /\ pc = "apply" /\ changes[s] # None
         => entries(changes[s].previous) = endpointsMap[s]
    /\ IF items[s] = None
       THEN Served(s) = entries(endpointsToEndpointsMap(objects[s]))
       ELSE /\ Served(s) = entries(items[s].previous)
            /\ items[s].previous # items[s].current
            /\ items[s].current = endpointsToEndpointsMap(objects[s])

(* Although changes and times are taken under two acquisitions of the lock,   *)
(* with events in between, a time is recorded only for a service whose change *)
(* is pending or is the one the pass at work has taken: checkoutTriggerTimes   *)
(* hands out no time of a service that neither this pass nor the next has a    *)
(* change of, and no time stays behind for a pass that finds no change.       *)
(* It does not keep the promise of the comment in Update: an event between     *)
(* the two visits has its time handed out at once, and a later one may still   *)
(* cancel its change; and one that cancels it between the visits drops the     *)
(* times of the change already checked out as well.                         *)
TimesHaveChanges ==
  \A s \in Services :
    lastChangeTriggerTimes[s] # {} => items[s] # None \/ changes[s] # None

(* Applying the merged changes gives what copying the endpoints of every      *)
(* service at the moment of the checkout would, whatever events come before   *)
(* they are applied, and reports as stale the UDP endpoints that went away     *)
(* and the UDP services that have endpoints again since the last pass.       *)
View == INSTANCE EndpointsCopy
          WITH known    <- [s \in Services |-> entries(endpointsToEndpointsMap(objects[s]))],
               snapshot <- IF pc = "apply" THEN [s \in Services |-> Served(s)] ELSE None,
               served   <- endpointsMap,
               staleServices <- staleServiceNames
ImplementsEndpointsCopy == View!Spec
=============================================================================
