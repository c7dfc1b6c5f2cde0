--------------------------------- MODULE MCTunnel ---------------------------------
(***************************************************************************)
(* An instance of Tunnel for TLC.                                           *)
(***************************************************************************)
EXTENDS Tunnel, TLC

CONSTANTS r1, r2, r3, r4
===================================================================================
