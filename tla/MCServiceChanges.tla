-------------------------- MODULE MCServiceChanges --------------------------
(* A small instance of ServiceChanges for TLC. *)
EXTENDS ServiceChanges, TLC

CONSTANTS s1, s2

Symmetry == Permutations(ServiceNames)
=============================================================================
