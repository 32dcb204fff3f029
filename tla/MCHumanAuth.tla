----------------------------- MODULE MCHumanAuth -----------------------------
(* HumanAuth.tla for TLC: two people, two logins, two requests at a time    *)
(* (invariants only, with symmetry), and one person whose groups change     *)
(* twice (liveness, without).                                               *)
EXTENDS HumanAuth, TLC

Symmetry == Permutations(Cookies) \union Permutations(Requests)
            \union Permutations(Subjects) \union Permutations(ActorIds)
            \union Permutations(Names)
==============================================================================
