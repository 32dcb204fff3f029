------------------------------- MODULE MCBoot -------------------------------
(* Boot.tla for TLC: a rolling update from one version to the next.         *)
EXTENDS Boot, TLC

CONSTANTS r1, r2, old, new

RollingUpdate == r1 :> old @@ r2 :> new
==============================================================================
