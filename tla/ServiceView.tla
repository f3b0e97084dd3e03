---------------------------- MODULE ServiceView ----------------------------
(***************************************************************************)
(* What a pass may rely on: the services it is given are those of the last   *)
(* event of every service, and the stale addresses are those of the UDP      *)
(* ports that were there at the pass before and are there no more.  The     *)
(* module ServiceChanges gets there one change at a time.                   *)
(***************************************************************************)
CONSTANTS
  ServiceNames,  \* namespace/name
  Keys,          \* port name and protocol: what a ServicePortName adds
  UDPKeys,       \* those whose protocol is UDP
  Infos,         \* what is known of a service port: records with a clusterIP
  None           \* no such service port

VARIABLES
  known,   \* service ports according to the last event of each service
  served,  \* service ports according to the last pass
  stale    \* UDPStaleClusterIP of the last pass

viewVars == <<known, served, stale>>

Maps == [Keys -> Infos \cup {None}]

(* Addresses of the UDP ports of old that new has no more. *)
Gone(old, new) ==
  {old[k].clusterIP : k \in {j \in UDPKeys : old[j] # None /\ new[j] = None}}

Init == /\ known  = [s \in ServiceNames |-> [k \in Keys |-> None]]
        /\ served = [s \in ServiceNames |-> [k \in Keys |-> None]]
        /\ stale  = {}

Observe(s) == /\ known' \in [ServiceNames -> Maps]
              /\ \A t \in ServiceNames \ {s} : known'[t] = known[t]
              /\ UNCHANGED <<served, stale>>

Refresh == /\ served' = known
           /\ stale' = UNION {Gone(served[s], known[s]) : s \in ServiceNames}
           /\ UNCHANGED known

Next == Refresh \/ \E s \in ServiceNames : Observe(s)

Spec == Init /\ [][Next]_viewVars
=============================================================================
