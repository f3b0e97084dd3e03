--------------------------- MODULE MCSyncTrigger ---------------------------
(* A small instance of SyncTrigger for TLC. *)
EXTENDS SyncTrigger

CONSTANTS a, b
=============================================================================
