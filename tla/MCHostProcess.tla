----------------------------- MODULE MCHostProcess -----------------------------
(***************************************************************************)
(* An instance of HostProcess for TLC.                                      *)
(***************************************************************************)
EXTENDS HostProcess, TLC

CONSTANTS j1, j2
===============================================================================
