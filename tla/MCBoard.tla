------------------------------- MODULE MCBoard -------------------------------
(* Board.tla for TLC: actors and threads are model values, and every       *)
(* definition treats them alike.                                           *)
EXTENDS Board, TLC

Symmetry == Permutations(Actors) \union Permutations(Threads)
==============================================================================
