---------------------------- MODULE TrackerView ----------------------------
(***************************************************************************)
(* What the tracker of the slices promises to whoever asks for passes: in    *)
(* between, something is pending for each name whose state is not the one     *)
(* the last pass took, and a pass takes the last state of every name.  A      *)
(* name stays pending though its state has come back to what was taken.      *)
(* EndpointSlices implements this module.                                  *)
(***************************************************************************)
CONSTANTS
  Names,    \* what the events are about: services
  Maps,     \* what may be known of a name
  Nothing   \* the member of Maps that stands for no object

VARIABLES
  known,    \* the state of each name according to its last event
  taken,    \* according to the last pass
  pending   \* names with a change to be taken

vars == <<known, taken, pending>>

New == [n \in Names |-> Nothing]

Init == known = New /\ taken = New /\ pending = {}

Observe(n) == /\ known' \in [Names -> Maps]
              /\ \A m \in Names \ {n} : known'[m] = known[m]
              /\ pending' = IF known'[n] # known[n] THEN pending \cup {n} ELSE pending
              /\ UNCHANGED taken

Take == taken' = known /\ pending' = {} /\ UNCHANGED known

Next == Take \/ \E n \in Names : Observe(n)

Spec == Init /\ [][Next]_vars
=============================================================================
