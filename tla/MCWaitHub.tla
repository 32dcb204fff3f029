------------------------------ MODULE MCWaitHub ------------------------------
(* WaitHub.tla for TLC: two calls of one agent.                             *)
EXTENDS WaitHub, TLC

CONSTANTS a1, w1, w2

Callers == w1 :> a1 @@ w2 :> a1
==============================================================================
