---------------------------- MODULE MCBoardSecret ----------------------------
(* BoardSecret.tla for TLC: alice rotates her keys between two secrets.     *)
EXTENDS BoardSecret, TLC

CONSTANTS alice, bob, i1, i2, o1, o2

Sealed == i1 :> [bundle |-> <<alice, 1>>, key |-> 1] @@ i2 :> [bundle |-> <<alice, 2>>, key |-> 1]

Open(i, out, force) ==
    [do |-> "open", bundle |-> Sealed[i].bundle, id |-> i, out |-> out, force |-> force]

CommandLines ==
    {[do |-> "keygen"], [do |-> "keys"], [do |-> "operator keygen"],
     [do |-> "seal", bundle |-> <<bob, 1>>],
     Open(i1, o1, FALSE), Open(i1, o2, TRUE), Open(i2, o1, FALSE)}
==============================================================================
