--------------------------- MODULE MCHostService ---------------------------
(* Small instances of the daemon as a service of its host for TLC. *)
EXTENDS HostService
=============================================================================
