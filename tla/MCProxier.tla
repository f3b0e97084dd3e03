----------------------------- MODULE MCProxier -----------------------------
(* Small instances of Proxier for TLC. *)
EXTENDS Proxier, TLC

CONSTANTS a, b, e1, e2

(* Names, when none of them is bypassed, and endpoints are interchangeable.  *)
Symmetry == Permutations(Names) \cup Permutations(Endpoints)
=============================================================================
