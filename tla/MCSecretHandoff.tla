--------------------------- MODULE MCSecretHandoff ---------------------------
(* SecretHandoff.tla for TLC: a sender, a recipient and a third actor, two  *)
(* requests at a time.                                                      *)
EXTENDS SecretHandoff, TLC

Symmetry == Permutations(Actors) \union Permutations(Sessions)
==============================================================================
