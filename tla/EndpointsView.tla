--------------------------- MODULE EndpointsView ---------------------------
(***************************************************************************)
(* What a pass may rely on: for every service port it is given one endpoint  *)
(* for every address that some slice of the service offers at the moment of  *)
(* the pass, and none for any other address.  Which slice it is from, when   *)
(* several offer the address, is open, but one on this node is preferred.    *)
(* A service that is not behind has had no change since it was last served.  *)
(* The module EndpointSlices gets there one slice at a time.                 *)
(***************************************************************************)
CONSTANTS
  Services,
  Keys,     \* port name and protocol
  IPs,
  Offers,   \* what a slice offers at an address: records with a place
  None      \* no endpoint

VARIABLES
  offered,  \* offers at each address according to the last event of each slice
  served,   \* endpoints according to the last pass
  behind    \* services the next pass has to look at

viewVars == <<offered, served, behind>>

(* The endpoints a pass may pick from the offers at an address.              *)
Picks(offers) ==
  LET local == {o \in offers : o.place = "local"}
  IN  IF offers = {} THEN {None} ELSE IF local = {} THEN offers ELSE local

Init == /\ offered = [s \in Services |-> [k \in Keys |-> [i \in IPs |-> {}]]]
        /\ served  = [s \in Services |-> [k \in Keys |-> [i \in IPs |-> None]]]
        /\ behind  = {}

Observe(s) == /\ offered' \in [Services -> [Keys -> [IPs -> SUBSET Offers]]]
              /\ \A t \in Services \ {s} : offered'[t] = offered[t]
              /\ behind' \in {behind, behind \cup {s}}
              /\ offered'[s] # offered[s] => s \in behind'
              /\ UNCHANGED served

Refresh == /\ served' \in [Services -> [Keys -> [IPs -> Offers \cup {None}]]]
           /\ \A s \in Services \ behind : served'[s] = served[s]
           /\ \A s \in behind, k \in Keys, i \in IPs :
                served'[s][k][i] \in Picks(offered[s][k][i])
           /\ behind' = {}
           /\ UNCHANGED offered

Next == Refresh \/ \E s \in Services : Observe(s)

Spec == Init /\ [][Next]_viewVars
=============================================================================
