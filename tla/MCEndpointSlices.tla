-------------------------- MODULE MCEndpointSlices --------------------------
(* A small instance of EndpointSlices for TLC. *)
EXTENDS EndpointSlices, TLC

CONSTANTS web, n1, n2, i1, i2

Symmetry == Permutations(SliceNames) \cup Permutations(IPs)
=============================================================================
