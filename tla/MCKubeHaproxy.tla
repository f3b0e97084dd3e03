--------------------------- MODULE MCKubeHaproxy ---------------------------
(* A small instance of KubeHaproxy for TLC. *)
EXTENDS KubeHaproxy

CONSTANTS web, s, p
=============================================================================
