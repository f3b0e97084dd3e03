--------------------------- MODULE EndpointsCopy ---------------------------
(***************************************************************************)
(* What a pass may rely on when endpoints are watched: it takes a snapshot    *)
(* of the endpoints of every service, events may follow, and then it serves   *)
(* exactly the snapshot, told which UDP endpoints are gone and which UDP      *)
(* services have endpoints again, compared with what it served before.       *)
(* The module EndpointsChanges gets there one merged change at a time.       *)
(***************************************************************************)
CONSTANTS
  Services,
  Keys,       \* port name and protocol
  UDPKeys,    \* those whose protocol is UDP
  Endpoints,
  None        \* no snapshot

VARIABLES
  known,           \* endpoints according to the last event of each service
  snapshot,        \* endpoints the pass under way is going to serve
  served,          \* endpoints according to the last pass
  staleEndpoints,  \* UDP endpoints the last pass found gone
  staleServices    \* UDP service ports that had no endpoint and have one

viewVars == <<known, snapshot, served, staleEndpoints, staleServices>>

Maps == [Services -> [Keys -> SUBSET Endpoints]]

Gone(old, new) == {u \in Services \X UDPKeys \X Endpoints :
                     u[3] \in old[u[1]][u[2]] \ new[u[1]][u[2]]}
Back(old, new) == {u \in Services \X UDPKeys :
                     old[u[1]][u[2]] = {} /\ new[u[1]][u[2]] # {}}

Init == /\ known  = [s \in Services |-> [k \in Keys |-> {}]]
        /\ served = [s \in Services |-> [k \in Keys |-> {}]]
        /\ snapshot = None
        /\ staleEndpoints = {} /\ staleServices = {}

Observe(s) == /\ known' \in Maps
              /\ \A t \in Services \ {s} : known'[t] = known[t]
              /\ UNCHANGED <<snapshot, served, staleEndpoints, staleServices>>

TakeSnapshot == /\ snapshot = None
                /\ snapshot' = known
                /\ staleEndpoints' = {} /\ staleServices' = {}
                /\ UNCHANGED <<known, served>>

Refresh == /\ snapshot # None
           /\ served' = snapshot
           /\ snapshot' = None
           /\ staleEndpoints' = Gone(served, snapshot)
           /\ staleServices' = Back(served, snapshot)
           /\ UNCHANGED known

Next == TakeSnapshot \/ Refresh \/ \E s \in Services : Observe(s)

Spec == Init /\ [][Next]_viewVars
=============================================================================
