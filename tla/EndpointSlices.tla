--------------------------- MODULE EndpointSlices ---------------------------
(***************************************************************************)
(* EndpointSliceCache (controller/endpointsslice.go) and EndpointsMap        *)
(* (controller/endpoints.go): events about slices are kept as pending infos, *)
(* and a pass moves them to the applied ones and updates the map with the    *)
(* endpoints that all applied slices of a service give together.            *)
(*                                                                         *)
(* A slice belongs to one service for good (its label does not change), and  *)
(* has at most one port of a name and protocol.  An event and the checkout    *)
(* hold the locks of the tracker and the cache; the changes are applied to    *)
(* the map outside of them.  Checkout and application are one step all the    *)
(* same: what is applied was computed under the locks, no event changes it    *)
(* or the map, and application changes nothing an event looks at.  The stale  *)
(* connections the code also derives from a change are used by nobody.       *)
(***************************************************************************)
EXTENDS Naturals, FiniteSets

CONSTANTS
  Services,
  SliceNames,   \* names of the slices of a service
  Keys,         \* port name and protocol
  Numbers,      \* port numbers
  IPs,
  Places,       \* "remote", "local": where an endpoint runs
  None          \* no slice, no port, no ready endpoint, no info

Slices == [ports : [Keys -> Numbers \cup {None}], endpoints : [IPs -> Places \cup {None}]]
Infos  == [ports : [Keys -> Numbers \cup {None}], endpoints : [IPs -> Places \cup {None}],
           remove : BOOLEAN]
Offers == [number : Numbers, place : Places]

ASSUME SliceNamesAssumption == IsFiniteSet(SliceNames)
ASSUME NoneAssumption == /\ None \notin Numbers /\ None \notin Places
                         /\ None \notin Slices /\ None \notin Infos /\ None \notin Offers

VARIABLES
  slices,        \* informer: the last object of each slice
  applied,       \* endpointSliceTracker.applied of each service
  pending,       \* endpointSliceTracker.pending of each service
  endpointsMap   \* proxier.endpointsMap

vars == <<slices, applied, pending, endpointsMap>>

-----------------------------------------------------------------------------
(* Ports and ready endpoints of a slice; those of a deleted one are dropped.  *)
newEndpointSliceInfo(slice, remove) ==
  [ports     |-> slice.ports,
   endpoints |-> IF remove THEN [i \in IPs |-> None] ELSE slice.endpoints,
   remove    |-> remove]

NoInfos     == [n \in SliceNames |-> None]
NoEndpoints == [i \in IPs |-> None]

Init == /\ slices  = [s \in Services |-> NoInfos]
        /\ applied = [s \in Services |-> NoInfos]
        /\ pending = [s \in Services |-> NoInfos]
        /\ endpointsMap = [s \in Services |-> [k \in Keys |-> NoEndpoints]]

(* A mutant: an event that leads back to what is applied is no change.       *)
esInfoChangedSinceApplied(s, n, info) ==
  IF applied[s][n] # None THEN info # applied[s][n]
  ELSE IF pending[s][n] # None THEN info # pending[s][n]
  ELSE ~info.remove

(* What is pending is compared before what is applied.                      *)
esInfoChanged(s, n, info) ==
  IF pending[s][n] # None THEN info # pending[s][n]
  ELSE IF applied[s][n] # None THEN info # applied[s][n]
  ELSE ~info.remove

updatePending(s, n, info) ==
  pending' = IF esInfoChanged(s, n, info)
             THEN [pending EXCEPT ![s][n] = info] ELSE pending

(* OnEndpointSliceAdd, OnEndpointSliceUpdate. *)
SetSlice(s, n, slice) ==
  /\ slices' = [slices EXCEPT ![s][n] = slice]
  /\ updatePending(s, n, newEndpointSliceInfo(slice, FALSE))
  /\ UNCHANGED <<applied, endpointsMap>>

(* OnEndpointSliceDelete, with the last state of the slice. *)
DeleteSlice(s, n) ==
  /\ slices[s][n] # None
  /\ slices' = [slices EXCEPT ![s][n] = None]
  /\ updatePending(s, n, newEndpointSliceInfo(slices[s][n], TRUE))
  /\ UNCHANGED <<applied, endpointsMap>>

-----------------------------------------------------------------------------
(* The slices among infos that offer address i at port k.                   *)
Offering(infos, k, i) ==
  {n \in SliceNames : /\ infos[n] # None
                      /\ infos[n].ports[k] # None
                      /\ infos[n].endpoints[i] # None}

Offer(infos, n, k, i) == [number |-> infos[n].ports[k], place |-> infos[n].endpoints[i]]

(* The order in which the code ranges over the slices of a service.         *)
Orders == {f \in [SliceNames -> 1..Cardinality(SliceNames)] :
             \A m, n \in SliceNames : f[m] = f[n] => m = n}

(***************************************************************************)
(* getEndpointsMap: of the slices that offer an address the first one in the *)
(* range is taken, unless some of them are local: then the last of those.    *)
(***************************************************************************)
addEndpointsByIP(infos, order, k, i) ==
  LET offering == Offering(infos, k, i)
      local    == {n \in offering : infos[n].endpoints[i] = "local"}
      taken    == IF local = {}
                  THEN CHOOSE n \in offering : \A m \in offering : order[n] <= order[m]
                  ELSE CHOOSE n \in local : \A m \in local : order[n] >= order[m]
  IN  IF offering = {} THEN None ELSE Offer(infos, taken, k, i)

getEndpointsMap(infos, order) ==
  [k \in Keys |-> [i \in IPs |-> addEndpointsByIP(infos, order, k, i)]]

(* A mutant: a removed slice is applied like any other.                     *)
appliedAsIs(s) == [n \in SliceNames |->
                     IF pending[s][n] # None THEN pending[s][n] ELSE applied[s][n]]

(* applied once what is pending has been moved to it. *)
checkedOut(s) == [n \in SliceNames |->
                    IF pending[s][n] = None THEN applied[s][n]
                    ELSE IF pending[s][n].remove THEN None ELSE pending[s][n]]

(* A mutant: the endpoints of ports that are gone stay.                     *)
mergeOnly(map, previous, current) ==
  [k \in Keys |-> IF current[k] # NoEndpoints THEN current[k] ELSE map[k]]

(* unmerge(previous), then merge(current): a map has an entry for a port      *)
(* only if it has endpoints.                                               *)
apply(map, previous, current) ==
  [k \in Keys |-> IF current[k] # NoEndpoints THEN current[k]
                  ELSE IF previous[k] # NoEndpoints THEN NoEndpoints ELSE map[k]]

(* endpointsMap.Update with checkoutChanges. *)
UpdateEndpointsMap ==
  LET changed == {s \in Services : pending[s] # NoInfos}
  IN  /\ \E before, after \in [Services -> Orders] :
           endpointsMap' = [s \in Services |->
             IF s \in changed
             THEN apply(endpointsMap[s], getEndpointsMap(applied[s], before[s]),
                        getEndpointsMap(checkedOut(s), after[s]))
             ELSE endpointsMap[s]]
      /\ applied' = [s \in Services |-> checkedOut(s)]
      /\ pending' = [s \in Services |-> NoInfos]
      /\ UNCHANGED slices

Next == \/ \E s \in Services, n \in SliceNames, slice \in Slices : SetSlice(s, n, slice)
        \/ \E s \in Services, n \in SliceNames : DeleteSlice(s, n)
        \/ UpdateEndpointsMap

Spec == Init /\ [][Next]_vars

-----------------------------------------------------------------------------
(* Every variable has its type; in particular no removal is ever applied.    *)
TypeOK ==
  /\ slices \in [Services -> [SliceNames -> Slices \cup {None}]]
  /\ applied \in [Services -> [SliceNames -> {f \in Infos : ~f.remove} \cup {None}]]
  /\ pending \in [Services -> [SliceNames -> Infos \cup {None}]]
  /\ endpointsMap \in [Services -> [Keys -> [IPs -> Offers \cup {None}]]]

(* The last object of slice n of s as the next pass is going to see it.      *)
Latest(s, n) == IF slices[s][n] = None THEN None
                ELSE newEndpointSliceInfo(slices[s][n], FALSE)

(* However the events about a slice follow each other between two passes,     *)
(* created, changed, changed back, deleted and created again, what is pending *)
(* and applied amounts to the last of them: no event is dropped as no change  *)
(* while an earlier one is still pending.                                  *)
PendingIsLatest ==
  \A s \in Services, n \in SliceNames : checkedOut(s)[n] = Latest(s, n)

(* A pass works from exactly the addresses offered when it began: none is     *)
(* lost because it moved to another slice, none stays because it is also in    *)
(* a slice that has gone, whatever the order of the events and of the range   *)
(* over the slices; and a service it does not look at, because nothing is     *)
(* pending for it, has not changed.                                        *)
View == INSTANCE EndpointsView
          WITH offered <- [s \in Services |-> [k \in Keys |-> [i \in IPs |->
                             {Offer(slices[s], n, k, i) :
                                n \in Offering(slices[s], k, i)}]]],
               served  <- endpointsMap,
               behind  <- {s \in Services : pending[s] # NoInfos}
ImplementsEndpointsView == View!Spec

(* For whoever asks for passes it is a tracker that compares with the last    *)
(* event: a service stays pending although its slices are back at what is     *)
(* applied.                                                                *)
Tracker == INSTANCE TrackerView
             WITH Names <- Services, Maps <- [SliceNames -> Infos \cup {None}],
                  Nothing <- NoInfos,
                  known   <- [s \in Services |-> [n \in SliceNames |-> Latest(s, n)]],
                  taken   <- applied,
                  pending <- {s \in Services : pending[s] # NoInfos}
ImplementsTrackerView == Tracker!Spec
=============================================================================
