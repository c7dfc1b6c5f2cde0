---------------------------- MODULE MCTunnelClient ----------------------------
(***************************************************************************)
(* Instances of TunnelClient for TLC.                                       *)
(***************************************************************************)
EXTENDS TunnelClient, TLC

CONSTANTS r1, r2, r3, free, infoMsg

OneRequest    == {r1}
ThreeRequests == {r1, r2, r3}
=============================================================================
