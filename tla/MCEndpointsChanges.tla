------------------------- MODULE MCEndpointsChanges -------------------------
(* A small instance of EndpointsChanges for TLC. *)
EXTENDS EndpointsChanges, TLC

CONSTANTS dns, i1, i2

Symmetry == Permutations(IPs)
=============================================================================
