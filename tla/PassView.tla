------------------------------ MODULE PassView ------------------------------
(***************************************************************************)
(* What a pass of syncProxyRules promises, seen from outside: how what        *)
(* HAProxy has for each name may change between the moment a pass has taken   *)
(* its services and endpoints and the moment it ends, call by call.          *)
(*                                                                         *)
(* A pass in which no call has been disturbed touches nothing that is as it   *)
(* is wanted, brings back nothing that is gone, takes no backend away from a  *)
(* frontend, and ends only when every name has what it is to have.  After a    *)
(* disturbed call anything may be left, and so after a crash, which may come  *)
(* anywhere.                                                               *)
(*                                                                         *)
(* Proxier implements this module; KubeHaproxy takes its passes from it.      *)
(***************************************************************************)
CONSTANTS
  Names,   \* services
  Held,    \* what HAProxy may have for a service
  Gone,    \* the part of Held in which nothing is served
  Bare,    \* the part of Held without a backend
  None     \* nothing is wanted; not in Held as a thing that is wanted

VARIABLES
  held,    \* what HAProxy has for each name
  wanted,  \* what the pass is to give each name it can serve
  phase    \* "plain": a pass without a disturbed call so far; "disturbed": one
           \* with such calls; "done": the last pass was a plain one; "idle"

vars == <<held, wanted, phase>>

Nothing == [n \in Names |-> None]

Init == /\ held \in [Names -> Held]
        /\ wanted = Nothing
        /\ phase = "idle"

InPass == phase \in {"plain", "disturbed"}

(* A pass begins, with any services. *)
Begin == /\ ~InPass /\ phase' = "plain"
         /\ wanted' \in [Names -> Held \cup {None}]
         /\ UNCHANGED held

(* A frontend without its backend. *)
Dangling == Bare \ Gone

(* What calls that are not disturbed keep of n. *)
Kept(n) == /\ wanted[n] # None /\ held[n] = wanted[n] => held'[n] = held[n]
           /\ wanted[n] = None /\ held[n] \in Gone => held'[n] \in Gone
           /\ held'[n] \in Dangling => held[n] \in Dangling

(* A call changes what HAProxy has for n; it may be disturbed.               *)
Call(n) == /\ InPass /\ phase' \in {phase, "disturbed"}
           /\ \E h \in Held : held' = [held EXCEPT ![n] = h]
           /\ phase' = "plain" => Kept(n)
           /\ UNCHANGED wanted

(* A call that changes nothing is disturbed. *)
Disturb == /\ InPass /\ phase' = "disturbed"
           /\ UNCHANGED <<held, wanted>>

(* Every name has what it is to have.  When there is no backend at all and     *)
(* none is wanted, the frontends that are there are not found.              *)
Reached == \/ \A n \in Names : IF wanted[n] = None THEN held[n] \in Gone
                                                   ELSE held[n] = wanted[n]
           \/ \A n \in Names : wanted[n] = None /\ held[n] \in Bare

(* A pass returns, or the process ends, in a pass or between two.            *)
End == wanted' = Nothing /\ UNCHANGED held

Finish          == phase = "plain" /\ Reached /\ phase' = "done" /\ End
FinishDisturbed == phase = "disturbed" /\ phase' = "idle" /\ End
Crash           == phase' = "idle" /\ End

Next == \/ Begin
        \/ \E n \in Names : Call(n)
        \/ Disturb
        \/ Finish
        \/ FinishDisturbed
        \/ Crash

Spec == Init /\ [][Next]_vars
=============================================================================
