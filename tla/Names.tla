-------------------------------- MODULE Names --------------------------------
(***************************************************************************)
(* What the tools set_profile, set_key_bundle and get_key_bundle do to the *)
(* tables, one transaction or one statement of a handler per step.         *)
(* Agents.tla makes the calls.                                             *)
(*                                                                         *)
(* set_profile's checks and its write are separate steps, as on Postgres;  *)
(* on SQLite its transaction owns the only connection and the two are      *)
(* adjacent.  The other handlers use no transaction on either backend.     *)
(***************************************************************************)
EXTENDS Integers, FiniteSets

CONSTANTS
    Actors,
    AllNames,
    DisplayName,   \* of each actor: unique, and never changed
    Fold,          \* lower() of each name
    Requests,      \* requests in flight at the same time
    MaxCalls,      \* bound: calls of tools, numbered as they start
    None

ASSUME NamesAssumption ==
    /\ IsFiniteSet(Actors)
    /\ DisplayName \in [Actors -> AllNames]
    /\ \A a, b \in Actors : DisplayName[a] = DisplayName[b] => a = b
    /\ DOMAIN Fold = AllNames
    /\ MaxCalls \in Nat
    /\ None \notin AllNames \union Actors

VARIABLES
    actors,     \* the actors that exist
    nickname,   \* of each actor's profile, None without one
    bundle,     \* the actor name in each actor's published key bundle, None without one
    call,       \* what each request does next, and its locals
    unlocked    \* history: actors that renamed and published in overlapping calls, or
                \* that were renamed after a failed read for all that they had published

nameVars == <<actors, nickname, bundle, call, unlocked>>

Idle == [at |-> "idle"]
At(r, step) == call[r].at = step
Running(r) == call[r].at \notin {"idle", "authenticate", "load actor", "answer"}
Calls(r, tool) == Running(r) /\ call[r].command.tool = tool
Arg(r) == call[r].command.arg
Caller(r) == call[r].actor

Goto(r, step) == call' = [call EXCEPT ![r].at = step]
Return(r, isError) == call' = [call EXCEPT ![r].at = "answer", ![r].isError = isError]

\* Renames are not atomic with what other calls of the actor have checked.
BothRun(r, t, u) ==
    /\ Calls(r, t)
    /\ \E q \in Requests \ {r} : Calls(q, u) /\ Caller(q) = Caller(r)

------------------------------------------------------------------------------
(* Names.                                                                  *)

\* The actors the k-th lookup of resolveMentionTarget matches.
Matches(k, name) ==
    {a \in actors :
        \/ k = 1 /\ nickname[a] = name
        \/ k = 2 /\ DisplayName[a] = name
        \/ k = 3 /\ nickname[a] # None /\ Fold[nickname[a]] = Fold[name]
        \/ k = 4 /\ Fold[DisplayName[a]] = Fold[name]}

\* Faulty variant: a name folded to a nickname goes before a display name.
NicknamesFirst == <<1, 3, 2, 4>>

\* The order of the lookups.
Precedence == <<1, 2, 3, 4>>

\* Ambiguity resolves to nobody.
Sole(S) == IF Cardinality(S) = 1 THEN S ELSE {}

\* The actor a name denotes at one instant, in a set; {} for nobody.
Denoted(name) ==
    LET tier(k) == Matches(k, name)
        decides(k) == tier(k) # {} /\ \A j \in 1 .. k - 1 : tier(j) = {}
    IN  UNION {Sole(tier(k)) : k \in {j \in 1 .. 4 : decides(j)}}

\* set_profile.  UpsertActorProfile looks for another holder of the nickname...
NicknameTaken(a, name) == \E b \in Actors \ {a} : nickname[b] = name

\* Faulty variant: a published bundle locks nothing.
NeverLocked(a, name) == FALSE

\* ... and refuses to rename an actor whose bundle is published.  Bundles are
\* never deleted, so the two reads of this check count as one.  If the first,
\* of the actor's own profile, fails, the check is skipped.
NicknameLocked(a, name) ==
    nickname[a] \notin {None, name} /\ bundle[a] # None

CheckProfile(r) ==
    /\ At(r, "handler") /\ Calls(r, "set_profile")
    /\ LET a     == Caller(r)
           taken == NicknameTaken(a, Arg(r))
           held  == NicknameLocked(a, Arg(r))
       IN  \/ /\ taken \/ held
              /\ Return(r, TRUE)
              /\ UNCHANGED unlocked
           \/ /\ ~taken
              /\ Goto(r, "write profile")
              /\ unlocked' = unlocked \union {b \in {a} : held}
    /\ UNCHANGED <<actors, nickname, bundle>>

\* Faulty variant: nicknames have no unique index.
WriteUnindexed(r) ==
    /\ At(r, "write profile")
    /\ nickname' = [nickname EXCEPT ![Caller(r)] = Arg(r)]
    /\ Return(r, FALSE)
    /\ UNCHANGED <<actors, bundle, unlocked>>

\* The upsert; the unique index on nickname has the last word.
WriteProfile(r) ==
    /\ At(r, "write profile")
    /\ IF NicknameTaken(Caller(r), Arg(r))
       THEN Return(r, TRUE) /\ UNCHANGED nickname
       ELSE /\ nickname' = [nickname EXCEPT ![Caller(r)] = Arg(r)]
            /\ Return(r, FALSE)
    /\ unlocked' = unlocked \union
          {a \in {Caller(r)} : BothRun(r, "set_profile", "set_key_bundle")}
    /\ UNCHANGED <<actors, bundle>>

------------------------------------------------------------------------------
(* Key bundles.                                                            *)

\* The step after an actor was found, or nobody.
AfterLookup(r, found) ==
    IF Calls(r, "get_key_bundle") THEN "read bundle"
    ELSE IF found = {Caller(r)} THEN "store bundle" ELSE "answer"

\* setKeyBundleHandler and getKeyBundleHandler call FindActorByName: one query
\* of resolveMentionTarget, whose matches decide, else the next does.  `denoted`
\* is history: whom the name denoted at these queries.
Lookup(r) ==
    /\ At(r, "handler") /\ (Calls(r, "set_key_bundle") \/ Calls(r, "get_key_bundle"))
    /\ LET matched == Matches(Precedence[call[r].lookup], Arg(r))
           next    == matched = {} /\ call[r].lookup < 4
       IN  call' = [call EXCEPT
             ![r].denoted = @ \union Denoted(Arg(r)),
             ![r].lookup = IF next THEN @ + 1 ELSE @,
             ![r].found = Sole(matched),
             ![r].at = IF next THEN @ ELSE AfterLookup(r, Sole(matched))]
    /\ UNCHANGED <<actors, nickname, bundle, unlocked>>

\* UpsertKeyBundle stores a bundle whose actor_id and name were the caller's.
StoreBundle(r) ==
    /\ At(r, "store bundle")
    /\ bundle' = [bundle EXCEPT ![Caller(r)] = Arg(r)]
    /\ unlocked' = unlocked \union
          {a \in {Caller(r)} : BothRun(r, "set_key_bundle", "set_profile")}
    /\ Return(r, FALSE)
    /\ UNCHANGED <<actors, nickname>>

\* GetKeyBundle of the actor that was found, if any.
ReadBundle(r) ==
    /\ At(r, "read bundle")
    /\ Return(r, \A a \in call[r].found : bundle[a] = None)
    /\ UNCHANGED <<actors, nickname, bundle, unlocked>>

Handle(r) ==
    \/ CheckProfile(r) \/ WriteProfile(r)
    \/ Lookup(r) \/ StoreBundle(r) \/ ReadBundle(r)

==============================================================================
