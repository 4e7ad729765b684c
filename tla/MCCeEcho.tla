------------------------------ MODULE MCCeEcho ------------------------------
(* The instance of CeEcho for TLC: a flow of two segments, then one of two. *)
EXTENDS CeEcho

TwoFlows == <<2, 4>>
=============================================================================
