------------------------------ MODULE MCAgents ------------------------------
(* Agents.tla for TLC: one agent with a token, one that is still to be       *)
(* created, and a name between the two; the names differ in case only.       *)
EXTENDS Agents, TLC

CONSTANTS a1, a2, a3, t1, t2

Names2 == {"Bob", "ann", "Ann"}
Displays == a1 :> "Bob" @@ a2 :> "ann" @@ a3 :> "Ann"
Lower == "Bob" :> "bob" @@ "ann" :> "ann" @@ "Ann" :> "ann"
Owners == t1 :> a1 @@ t2 :> a2

Tried ==
    {[tool |-> "set_profile", arg |-> "Ann"], [tool |-> "set_profile", arg |-> "Bob"],
     [tool |-> "set_key_bundle", arg |-> "Ann"],
     [tool |-> "get_key_bundle", arg |-> "ann"],
     [tool |-> "send_secret", arg |-> "envelope"]}

Symmetry == Permutations(Requests)

Scopes == {{"set_profile"}}
==============================================================================
