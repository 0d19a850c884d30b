------------------------------ MODULE MCPushEngine ------------------------------
(***************************************************************************)
(* Constants for model checking PushEngine.                                *)
(***************************************************************************)
EXTENDS PushEngine

CONSTANTS k1, k2, s1, s2, c1, v1, v2, a1

AllAccept == Sig \X Collector
OnlyFirst == {s1} \X Collector

===============================================================================
