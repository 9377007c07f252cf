--------------------------- MODULE MCHostRuntime ---------------------------
(* An instance of HostRuntime for TLC.                                     *)
EXTENDS HostRuntime
=============================================================================
