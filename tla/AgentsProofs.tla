---------------------------- MODULE AgentsProofs ----------------------------
(***************************************************************************)
(* Theorems about Agents.tla and the handlers of Names.tla, for any number *)
(* of actors, tokens, names and requests in flight.                        *)
(***************************************************************************)
EXTENDS Agents, FiniteSetTheorems, TLAPS

------------------------------------------------------------------------------
(* The inductive invariant.                                                *)

Steps == {"authenticate", "load actor", "handler", "write profile", "store bundle",
          "read bundle", "answer"}

Busy == [at : Steps, number : Nat, token : Tokens, actor : Actors, command : Commands,
         lookup : 1 .. 4, found : SUBSET Actors, isError : BOOLEAN, live : BOOLEAN,
         denoted : SUBSET Actors]

\* The shape of a call, the tool each step of a handler belongs to, and that a call
\* counts as failed until it returns.
CallsOK ==
    /\ call \in [Requests -> {Idle} \union Busy]
    /\ \A r \in Requests :
          /\ At(r, "write profile") => Calls(r, "set_profile")
          /\ At(r, "store bundle") => Calls(r, "set_key_bundle")
          /\ At(r, "read bundle") => Calls(r, "get_key_bundle")
          /\ ~At(r, "idle") /\ ~At(r, "answer") => call[r].isError = TRUE
          /\ At(r, "authenticate") \/ At(r, "load actor") => call[r].lookup = 1

\* Nicknames are unique among all actors, the ones still to be created included.
OneHolder ==
    \A a, b \in Actors : nickname[a] # None /\ nickname[a] = nickname[b] => a = b

\* A token goes from unissued to live to revoked, whoever is authenticating.
TokensInHand ==
    /\ OutageIsNotRevocation
    /\ \A r \in Requests : ~At(r, "idle") =>
          /\ token[call[r].token] # "unissued"
          /\ call[r].live \/ token[call[r].token] = "revoked"
          /\ ~At(r, "authenticate") => call[r].live

\* A session's tools, and the actor's, have been in force since it was opened; a
\* handler runs in a session.
SessionsInHand ==
    /\ CallsAreAuthorised
    /\ inForce \in [Actors -> SUBSET AllTools]
    /\ \A a \in Actors : session[a] # None =>
          session[a] \subseteq inForce[a] /\ allowlist[a] \subseteq inForce[a]
    /\ \A r \in Requests : Running(r) => session[Caller(r)] # None

\* A name is one of the actor's.
OwnName(a, name) ==
    \/ Fold[DisplayName[a]] = Fold[name]
    \/ nickname[a] # None /\ Fold[nickname[a]] = Fold[name]

\* A bundle about to be stored carries a name of the caller's, and a rename that
\* was checked leaves the published bundle one.
BundlesInHand ==
    /\ \A a \in Actors \ unlocked : bundle[a] # None => OwnName(a, bundle[a])
    /\ \A r \in Requests : Running(r) /\ Caller(r) \notin unlocked =>
          /\ At(r, "store bundle") => OwnName(Caller(r), Arg(r))
          /\ At(r, "write profile") /\ bundle[Caller(r)] # None =>
                \/ Fold[DisplayName[Caller(r)]] = Fold[bundle[Caller(r)]]
                \/ nickname[Caller(r)] = Arg(r)

\* r looks name up, with k - 1 queries done and denoted remembered.
Looking(r, name, k, denoted) ==
    /\ At(r, "handler") /\ (Calls(r, "set_key_bundle") \/ Calls(r, "get_key_bundle"))
    /\ Arg(r) = name /\ call[r].lookup = k /\ call[r].denoted = denoted

\* What k - 1 queries have not found was denoted at one of them, if it is there at
\* all: display names stay, and an exact match is a folded match.
Accounted(name, k, denoted) ==
    \/ Actors \subseteq denoted
    \/ /\ k >= 2 => Sole(Matches(2, name)) \subseteq denoted
       /\ k >= 3 => Matches(2, name) = {}
       /\ k = 4 => Sole(Matches(4, name)) \subseteq denoted

LookupsInHand ==
    /\ FoundActorsHeldTheName
    /\ \A r \in Requests, name \in AllNames, k \in 1 .. 4, denoted \in SUBSET Actors :
          Looking(r, name, k, denoted) => Accounted(name, k, denoted)

\* A call that has started has a number, and no two that run have the same.
NumbersInHand ==
    /\ \A r \in Requests : Running(r) \/ At(r, "answer") => call[r].number \in 1 .. started
    /\ \A r, q \in Requests :
          Running(r) /\ Running(q) /\ call[r].number = call[q].number => r = q

AgentsStrongInv ==
    /\ TypeOK /\ CallsOK /\ OneHolder /\ TokensInHand /\ SessionsInHand
    /\ BundlesInHand /\ LookupsInHand /\ NumbersInHand

------------------------------------------------------------------------------
(* Names and lookups.                                                      *)

\* The parts of a command.
LEMMA CommandShapes ==
    ASSUME NEW c \in Commands
    PROVE  c.tool \in AllTools /\ (c.tool # "send_secret" => c.arg \in AllNames)
<1>1. CASE c \in [tool : AllTools \ {"send_secret"}, arg : AllNames]
  BY <1>1
<1>2. CASE c \in [tool : {"send_secret"}, arg : {"envelope"}]
  BY <1>2 DEF AllTools
<1> QED
  BY <1>1, <1>2, AgentsAssumption

\* Ambiguity resolves to nobody, one match to that match.
LEMMA SoleIsTheMatch ==
    ASSUME NEW S \in SUBSET Actors
    PROVE  Sole(S) \subseteq S /\ \A a \in Sole(S) : S = {a} /\ Sole(S) = {a}
<1>1. IsFiniteSet(S)
  BY NamesAssumption, FS_Subset
<1>2. CASE Cardinality(S) = 1
  <2>1. PICK x : S = {x}
    BY <1>1, <1>2, FS_Singleton
  <2> QED
    BY <1>2, <2>1 DEF Sole
<1>3. CASE Cardinality(S) # 1
  BY <1>3 DEF Sole
<1> QED
  BY <1>2, <1>3

\* The lookups match actors, an exact match being a folded match.
LEMMA MatchesFacts ==
    ASSUME TypeOK, NEW name \in AllNames
    PROVE  /\ \A k \in 1 .. 4 : Matches(k, name) \in SUBSET Actors
           /\ Matches(1, name) \subseteq Matches(3, name)
           /\ Matches(2, name) \subseteq Matches(4, name)
<1>1. \A k \in 1 .. 4 : Matches(k, name) \in SUBSET Actors
  BY DEF Matches, TypeOK
<1>2. Matches(1, name) \subseteq Matches(3, name)
  BY NamesAssumption DEF Matches
<1>3. Matches(2, name) \subseteq Matches(4, name)
  BY DEF Matches
<1> QED
  BY <1>1, <1>2, <1>3

\* The queries go in order.
LEMMA QueryOrder ==
    ASSUME NEW k \in 1 .. 4
    PROVE  /\ Precedence[k] = k
           /\ k < 4 => k + 1 \in 1 .. 4
           /\ k + 1 >= 3 => k >= 2
           /\ k + 1 = 4 => k >= 3
<1>1. k \in {1, 2, 3, 4}
  OBVIOUS
<1> QED
  BY <1>1 DEF Precedence

\* Who is matched has the name.
LEMMA MatchOwnsName ==
    ASSUME NEW k \in 1 .. 4, NEW name \in AllNames, NEW a \in Matches(k, name)
    PROVE  OwnName(a, name)
<1>1. CASE k = 1
  BY <1>1, NamesAssumption DEF Matches, OwnName
<1>2. CASE k = 2
  BY <1>2 DEF Matches, OwnName
<1>3. CASE k = 3
  BY <1>3 DEF Matches, OwnName
<1>4. CASE k = 4
  BY <1>4 DEF Matches, OwnName
<1> QED
  BY <1>1, <1>2, <1>3, <1>4

\* The first lookup that matches anybody decides whom a name denotes.
LEMMA FirstMatchDecides ==
    ASSUME NEW name, NEW k \in 1 .. 4, \A j \in 1 .. k - 1 : Matches(j, name) = {}
    PROVE  Sole(Matches(k, name)) \subseteq Denoted(name)
<1>1. CASE Matches(k, name) = {}
  <2>1. Sole(Matches(k, name)) = {}
    BY <1>1 DEF Sole
  <2> QED
    BY <2>1
<1>2. CASE Matches(k, name) # {}
  BY <1>2 DEF Denoted
<1> QED
  BY <1>1, <1>2

\* One query of FindActorByName: whom it finds the name denotes now, or denoted
\* at an earlier query; and what it has not found stays accounted for.
LEMMA QueryFindsTheDenoted ==
    ASSUME TypeOK, NEW name \in AllNames, NEW k \in 1 .. 4, NEW denoted,
           k >= 2 => Sole(Matches(2, name)) \subseteq denoted,
           k >= 3 => Matches(2, name) = {},
           k = 4 => Sole(Matches(4, name)) \subseteq denoted
    PROVE  /\ Sole(Matches(k, name)) \subseteq denoted \union Denoted(name)
           /\ Matches(k, name) = {} =>
                 /\ Sole(Matches(2, name)) \subseteq denoted \union Denoted(name)
                 /\ k >= 2 => Matches(2, name) = {}
                 /\ k >= 3 => Sole(Matches(4, name)) \subseteq denoted \union Denoted(name)
<1>1. CASE k = 1
  <2>1. Sole(Matches(1, name)) \subseteq Denoted(name)
    BY FirstMatchDecides
  <2>2. Matches(1, name) = {} => Sole(Matches(2, name)) \subseteq Denoted(name)
    BY FirstMatchDecides
  <2> QED
    BY <1>1, <2>1, <2>2
<1>2. CASE k = 2
  BY <1>2
<1>3. CASE k = 3
  <2>1. Matches(2, name) = {}
    BY <1>3
  <2>2. CASE Matches(1, name) = {}
    <3>1. Sole(Matches(3, name)) \subseteq Denoted(name)
      BY <2>1, <2>2, FirstMatchDecides
    <3>2. Matches(3, name) = {} => Sole(Matches(4, name)) \subseteq Denoted(name)
      BY <2>1, <2>2, FirstMatchDecides
    <3> QED
      BY <1>3, <2>1, <3>1, <3>2
  <2>3. CASE Matches(1, name) # {}
    <3>1. /\ Matches(3, name) # {}
          /\ Matches(3, name) \in SUBSET Actors /\ Matches(1, name) \in SUBSET Actors
          /\ Matches(1, name) \subseteq Matches(3, name)
      BY <2>3, MatchesFacts
    <3>2. \A a \in Sole(Matches(3, name)) : Matches(1, name) = {a} /\ Matches(3, name) = {a}
      BY <2>3, <3>1, SoleIsTheMatch
    <3>3. \A a \in Sole(Matches(3, name)) : Sole(Matches(1, name)) = Sole(Matches(3, name))
      BY <3>2
    <3>4. Sole(Matches(1, name)) \subseteq Denoted(name)
      BY FirstMatchDecides
    <3>5. Sole(Matches(3, name)) \subseteq Denoted(name)
      BY <3>3, <3>4
    <3> QED
      BY <1>3, <3>1, <3>5
  <2> QED
    BY <2>2, <2>3
<1>4. CASE k = 4
  BY <1>4
<1> QED
  BY <1>1, <1>2, <1>3, <1>4

------------------------------------------------------------------------------
(* What a step does to the calls.                                          *)

\* A call under way has its locals.
LEMMA BusyLocals ==
    ASSUME CallsOK, NEW r \in Requests, ~At(r, "idle")
    PROVE  /\ call[r] \in Busy /\ call[r].at \in Steps /\ call[r].number \in Nat
           /\ call[r].token \in Tokens /\ call[r].actor \in Actors
           /\ call[r].command \in Commands /\ call[r].lookup \in 1 .. 4
           /\ call[r].found \in SUBSET Actors /\ call[r].denoted \in SUBSET Actors
           /\ call[r].live \in BOOLEAN /\ call[r].isError \in BOOLEAN
<1>1. call \in [Requests -> {Idle} \union Busy]
  BY DEF CallsOK
<1>2. call[r] \in Busy
  BY <1>1 DEF Idle, At
<1> QED
  BY <1>2 DEF Busy

\* The other calls stay where they are.
OthersWait(r) == \A q \in Requests : q # r => call'[q] = call[q]

\* A call keeps what came with the request.
SameRequest(r) ==
    /\ call'[r].token = call[r].token /\ call'[r].actor = call[r].actor
    /\ call'[r].command = call[r].command /\ call'[r].live = call[r].live

\* ... and its number.
SameCall(r) == SameRequest(r) /\ call'[r].number = call[r].number

\* A call keeps what its lookups found.
SameFound(r) ==
    /\ call'[r].lookup = call[r].lookup /\ call'[r].found = call[r].found
    /\ call'[r].denoted = call[r].denoted

Shaped == call' \in [Requests -> {Idle} \union Busy]

\* A call goes on to its next step.
LEMMA GotoEffect ==
    ASSUME CallsOK, NEW r \in Requests, ~At(r, "idle"), NEW step \in Steps, Goto(r, step)
    PROVE  /\ Shaped /\ OthersWait(r) /\ call'[r].at = step /\ SameCall(r) /\ SameFound(r)
           /\ call'[r].isError = call[r].isError
<1>1. call[r] \in Busy
  BY BusyLocals
<1>2. [call[r] EXCEPT !.at = step] \in Busy
  BY <1>1 DEF Busy
<1> QED
  BY <1>1, <1>2 DEF Goto, CallsOK, Shaped, OthersWait, SameCall, SameRequest, SameFound, Busy

\* A handler returns: the registrar has an answer.
LEMMA ReturnEffect ==
    ASSUME CallsOK, NEW r \in Requests, ~At(r, "idle"), NEW isError \in BOOLEAN, Return(r, isError)
    PROVE  /\ Shaped /\ OthersWait(r) /\ call'[r].at = "answer" /\ SameCall(r) /\ SameFound(r)
           /\ call'[r].isError = isError
<1>1. call[r] \in Busy
  BY BusyLocals
<1>2. call' = [call EXCEPT ![r] = [call[r] EXCEPT !.at = "answer", !.isError = isError]]
  BY DEF Return
<1>3. [call[r] EXCEPT !.at = "answer", !.isError = isError] \in Busy
  BY <1>1 DEF Busy, Steps
<1> QED
  BY <1>1, <1>2, <1>3 DEF CallsOK, Shaped, OthersWait, SameCall, SameRequest, SameFound, Busy

\* A call ends.
LEMMA HangupEffect ==
    ASSUME CallsOK, NEW r \in Requests, Hangup(r)
    PROVE  Shaped /\ OthersWait(r) /\ call'[r].at = "idle"
  BY DEF Hangup, CallsOK, Shaped, OthersWait, Idle

\* Calls that go on with their numbers, or end, keep them apart.
LEMMA NumbersStay ==
    ASSUME NumbersInHand, UNCHANGED started,
           \A q \in Requests : Running(q)' \/ At(q, "answer")' =>
              /\ call'[q].number = call[q].number
              /\ Running(q) \/ At(q, "answer")
              /\ Running(q)' => Running(q)
    PROVE  NumbersInHand'
<1>1. \A q \in Requests : Running(q)' \/ At(q, "answer")' => call'[q].number \in 1 .. started'
  BY DEF NumbersInHand
<1>2. \A p, q \in Requests :
          Running(p)' /\ Running(q)' /\ call'[p].number = call'[q].number => p = q
  BY DEF NumbersInHand
<1> QED
  BY <1>1, <1>2 DEF NumbersInHand

\* What the handlers leave alone.
Rest == <<accessVars, auditVars, started, admin, inForce, toldRevoked>>

\* A handler's step keeps what is known of tokens, sessions and audit rows.
LEMMA HandlerKeepsTheRest ==
    ASSUME AgentsStrongInv, NEW r \in Requests, Running(r), UNCHANGED Rest,
           OthersWait(r), SameCall(r), call'[r].at \in Steps \ {"authenticate"}
    PROVE  TokensInHand' /\ SessionsInHand' /\ NumbersInHand'
<1> USE DEF AgentsStrongInv, Rest, accessVars, auditVars, OthersWait, SameCall, SameRequest
<1>1. ~At(r, "idle") /\ ~At(r, "authenticate") /\ call'[r].at # "idle"
  BY DEF Running, At, Steps
<1>2. TokensInHand'
  BY <1>1 DEF TokensInHand, OutageIsNotRevocation, At
<1>3. SessionsInHand'
  BY DEF SessionsInHand, CallsAreAuthorised, Running, Caller
<1>4. NumbersInHand'
  <2>1. \A q \in Requests : Running(q)' \/ At(q, "answer")' =>
            /\ call'[q].number = call[q].number
            /\ Running(q) \/ At(q, "answer")
            /\ Running(q)' => Running(q)
    BY DEF Running, At
  <2> QED
    BY <2>1, NumbersStay
<1> QED
  BY <1>2, <1>3, <1>4

\* Before the first query there is nothing to account for.
LEMMA NothingLookedUp ==
    ASSUME NEW name, NEW denoted
    PROVE  Accounted(name, 1, denoted)
  BY DEF Accounted

\* A step that leaves the names alone keeps what is known of names, bundles and
\* lookups, if the calls it moves enter or leave their handler.
LEMMA OutsideKeepsNames ==
    ASSUME AgentsStrongInv, UNCHANGED <<actors, nickname, bundle, unlocked>>,
           \A q \in Requests :
              \/ call'[q] = call[q]
              \/ call'[q].at \in {"idle", "authenticate", "load actor", "answer"}
              \/ call'[q].at = "handler" /\ call'[q].lookup = 1
    PROVE  OneHolder' /\ BundlesInHand' /\ LookupsInHand'
<1> USE DEF AgentsStrongInv
<1>1. OneHolder'
  BY DEF OneHolder
<1>2. BundlesInHand'
  BY DEF BundlesInHand, OwnName, Running, Caller, Arg, At
<1>3. LookupsInHand'
  <2>1. FoundActorsHeldTheName'
    BY DEF LookupsInHand, FoundActorsHeldTheName, At
  <2>2. ASSUME NEW r \in Requests, NEW name \in AllNames, NEW k \in 1 .. 4,
               NEW denoted \in SUBSET Actors, Looking(r, name, k, denoted)'
        PROVE  Accounted(name, k, denoted)'
    <3>1. Looking(r, name, k, denoted) \/ k = 1
      BY <2>2 DEF Looking, Calls, Running, Arg, At
    <3>2. Looking(r, name, k, denoted) => Accounted(name, k, denoted)
      BY DEF LookupsInHand
    <3>3. k = 1 => Accounted(name, k, denoted)
      BY NothingLookedUp
    <3> QED
      BY <3>1, <3>2, <3>3 DEF Accounted, Matches
  <2> QED
    BY <2>1, <2>2 DEF LookupsInHand
<1> QED
  BY <1>1, <1>2, <1>3

------------------------------------------------------------------------------
(* Each step of the operator and of authentication keeps the invariant.    *)

\* A new agent: its names were free, and lookups under way are excused.
LEMMA CreateAgentKeeps ==
    ASSUME AgentsStrongInv, NEW a \in Actors, CreateAgent(a)
    PROVE  AgentsStrongInv'
<1> USE DEF AgentsStrongInv, accessVars, auditVars
<1>1. /\ actors' = actors \union {a}
      /\ UNCHANGED <<nickname, bundle, unlocked, accessVars, auditVars, started, admin,
                     inForce, toldRevoked>>
  BY DEF CreateAgent
<1>2. /\ Shaped
      /\ \A r \in Requests :
            call'[r].at = call[r].at /\ SameCall(r) /\ call'[r].isError = call[r].isError
      /\ \A r \in Requests : IF At(r, "handler")
            THEN call'[r].denoted = Actors /\ call'[r].lookup = call[r].lookup
            ELSE call'[r] = call[r]
  <2>1. call' = [r \in Requests |->
            IF At(r, "handler") THEN [call[r] EXCEPT !.denoted = Actors] ELSE call[r]]
    BY DEF CreateAgent
  <2>2. call \in [Requests -> {Idle} \union Busy]
    BY DEF CallsOK
  <2>3. \A r \in Requests : At(r, "handler") =>
            /\ [call[r] EXCEPT !.denoted = Actors] \in Busy
            /\ [call[r] EXCEPT !.denoted = Actors].denoted = Actors
    <3>1. \A r \in Requests : At(r, "handler") => call[r] \in Busy
      BY BusyLocals DEF At
    <3> QED
      BY <3>1 DEF Busy
  <2> QED
    BY <2>1, <2>2, <2>3 DEF Shaped, SameCall, SameRequest, At
<1>3. TypeOK'
  <2>1. \A r \in Requests : Running(r)' => Caller(r)' \in actors' /\ call'[r].lookup \in 1 .. 4
    BY <1>1, <1>2 DEF TypeOK, Running, Caller, SameCall, SameRequest
  <2> QED
    BY <1>1, <2>1 DEF TypeOK
<1>4. CallsOK'
  <2>1. \A r \in Requests :
            /\ call'[r].at = call[r].at /\ call'[r].isError = call[r].isError
            /\ call'[r].command = call[r].command
            /\ At(r, "authenticate") \/ At(r, "load actor") => call'[r].lookup = call[r].lookup
    BY <1>2 DEF SameCall, SameRequest, At
  <2>2. ASSUME NEW r \in Requests
        PROVE  /\ At(r, "write profile")' => Calls(r, "set_profile")'
               /\ At(r, "store bundle")' => Calls(r, "set_key_bundle")'
               /\ At(r, "read bundle")' => Calls(r, "get_key_bundle")'
               /\ At(r, "authenticate")' \/ At(r, "load actor")' => call'[r].lookup = 1
    BY <2>1 DEF CallsOK, Calls, Running, At
  <2>3. \A r \in Requests : ~At(r, "idle")' /\ ~At(r, "answer")' => call'[r].isError = TRUE
    BY <2>1 DEF CallsOK, At
  <2> QED
    BY <1>2, <2>2, <2>3 DEF CallsOK, Shaped
<1>5. OneHolder' /\ TokensInHand'
  BY <1>1, <1>2 DEF OneHolder, TokensInHand, OutageIsNotRevocation, SameCall, SameRequest, At
<1>6. SessionsInHand'
  BY <1>1, <1>2 DEF SessionsInHand, CallsAreAuthorised, Running, Caller, SameCall, SameRequest
<1>7. BundlesInHand'
  BY <1>1, <1>2 DEF BundlesInHand, OwnName, Running, Caller, Arg, SameCall, SameRequest, At
<1>8. LookupsInHand'
  <2>1. FoundActorsHeldTheName'
    BY <1>2 DEF LookupsInHand, FoundActorsHeldTheName, At
  <2>2. ASSUME NEW r \in Requests, NEW name \in AllNames, NEW k \in 1 .. 4,
               NEW denoted \in SUBSET Actors, Looking(r, name, k, denoted)'
        PROVE  Accounted(name, k, denoted)'
    <3>1. Actors \subseteq denoted
      BY <1>2, <2>2 DEF Looking, At, SameCall, SameRequest
    <3> QED
      BY <3>1 DEF Accounted
  <2> QED
    BY <2>1, <2>2 DEF LookupsInHand
<1>9. NumbersInHand'
  <2>1. \A q \in Requests :
            /\ call'[q].number = call[q].number
            /\ Running(q)' <=> Running(q)
            /\ At(q, "answer")' <=> At(q, "answer")
    BY <1>2 DEF Running, SameCall, At
  <2> QED
    BY <1>1, <2>1, NumbersStay
<1> QED
  BY <1>3, <1>4, <1>5, <1>6, <1>7, <1>8, <1>9

\* Steps that move no call and touch no name: the operator's and the audit log's.
LEMMA CallsStay ==
    ASSUME AgentsStrongInv, UNCHANGED nameVars
    PROVE  CallsOK' /\ OneHolder' /\ BundlesInHand' /\ LookupsInHand'
<1> USE DEF AgentsStrongInv, nameVars
<1>1. CallsOK'
  BY DEF CallsOK, Calls, Running, At
<1> QED
  BY <1>1, OutsideKeepsNames

\* A token is issued.
LEMMA IssueTokenKeeps ==
    ASSUME AgentsStrongInv, NEW t \in Tokens, IssueToken(t)
    PROVE  AgentsStrongInv'
<1> USE DEF AgentsStrongInv, nameVars, auditVars
<1>1. /\ token[t] = "unissued" /\ token' = [token EXCEPT ![t] = "live"]
      /\ UNCHANGED <<nameVars, allowlist, session, auditVars, started, admin, inForce, toldRevoked>>
  BY DEF IssueToken
<1>2. token \in [Tokens -> {"unissued", "live", "revoked"}]
  BY DEF TypeOK
<1>3. token' \in [Tokens -> {"unissued", "live", "revoked"}]
  BY <1>1, <1>2
<1>4. TypeOK'
  BY <1>1, <1>3 DEF TypeOK, Running, Caller
<1>5. TokensInHand'
  <2>1. \A u \in Tokens : token[u] # "unissued" => token'[u] = token[u]
    BY <1>1, <1>2
  <2>2. toldRevoked \subseteq Tokens
    BY DEF TypeOK
  <2>3. \A r \in Requests : ~At(r, "idle") => call[r].token \in Tokens
    BY BusyLocals
  <2> QED
    BY <1>1, <2>1, <2>2, <2>3 DEF TokensInHand, OutageIsNotRevocation, At
<1>6. SessionsInHand' /\ NumbersInHand'
  BY <1>1 DEF SessionsInHand, CallsAreAuthorised, Running, Caller,
              NumbersInHand, Running, At
<1> QED
  BY <1>1, <1>4, <1>5, <1>6, CallsStay

\* Tokens are revoked, calls under way with them included.
LEMMA RevokeKeeps ==
    ASSUME AgentsStrongInv, NEW tokens \in SUBSET Tokens, Revoke(tokens)
    PROVE  AgentsStrongInv'
<1> USE DEF AgentsStrongInv, nameVars, auditVars
<1>1. /\ token' = [t \in Tokens |->
            IF t \in tokens /\ token[t] = "live" THEN "revoked" ELSE token[t]]
      /\ UNCHANGED <<nameVars, allowlist, session, auditVars, started, inForce, toldRevoked>>
  BY DEF Revoke
<1>2. admin' \in 0 .. MaxAdmin
  BY AgentsAssumption DEF Revoke, Admin, TypeOK
<1>3. TypeOK'
  <2>1. token' \in [Tokens -> {"unissued", "live", "revoked"}]
    BY <1>1 DEF TypeOK
  <2> QED
    BY <1>1, <1>2, <2>1 DEF TypeOK, Running, Caller
<1>4. TokensInHand'
  <2>1. \A u \in Tokens :
            /\ token[u] # "unissued" => token'[u] # "unissued"
            /\ token[u] = "revoked" => token'[u] = "revoked"
    BY <1>1
  <2>2. toldRevoked \subseteq Tokens
    BY DEF TypeOK
  <2>3. \A r \in Requests : ~At(r, "idle") => call[r].token \in Tokens
    BY BusyLocals
  <2> QED
    BY <1>1, <2>1, <2>2, <2>3 DEF TokensInHand, OutageIsNotRevocation, At
<1>5. SessionsInHand' /\ NumbersInHand'
  BY <1>1 DEF SessionsInHand, CallsAreAuthorised, Running, Caller,
              NumbersInHand, Running, At
<1> QED
  BY <1>1, <1>3, <1>4, <1>5, CallsStay

\* An allowlist is set: open sessions keep theirs.
LEMMA SetAllowlistKeeps ==
    ASSUME AgentsStrongInv, NEW a \in Actors, NEW tools \in Allowlists, SetAllowlist(a, tools)
    PROVE  AgentsStrongInv'
<1> USE DEF AgentsStrongInv, nameVars, auditVars
<1>1. /\ allowlist' = [allowlist EXCEPT ![a] = tools]
      /\ inForce' = [inForce EXCEPT ![a] = inForce[a] \union tools]
      /\ UNCHANGED <<nameVars, token, session, auditVars, started, toldRevoked>>
  BY DEF SetAllowlist
<1>2. admin' \in 0 .. MaxAdmin
  BY AgentsAssumption DEF SetAllowlist, Admin, TypeOK
<1>3. tools \in SUBSET AllTools
  BY AgentsAssumption
<1>4. TypeOK'
  <2>1. allowlist' \in [Actors -> SUBSET AllTools]
    BY <1>1, <1>3 DEF TypeOK
  <2> QED
    BY <1>1, <1>2, <2>1 DEF TypeOK, Running, Caller
<1>5. TokensInHand' /\ NumbersInHand'
  BY <1>1 DEF TokensInHand, OutageIsNotRevocation, NumbersInHand, Running, At
<1>6. SessionsInHand'
  <2>1. inForce \in [Actors -> SUBSET AllTools] /\ allowlist \in [Actors -> SUBSET AllTools]
    BY DEF SessionsInHand, TypeOK
  <2>2. inForce' \in [Actors -> SUBSET AllTools]
    BY <1>1, <1>3, <2>1
  <2>3. \A b \in Actors :
            /\ inForce[b] \subseteq inForce'[b]
            /\ allowlist'[b] \subseteq allowlist[b] \/ allowlist'[b] \subseteq inForce'[b]
    BY <1>1, <2>1
  <2>4. \A r \in Requests : Running(r) => Caller(r) \in Actors
    BY DEF TypeOK
  <2> QED
    BY <1>1, <2>2, <2>3, <2>4 DEF SessionsInHand, CallsAreAuthorised, Running, Caller
<1> QED
  BY <1>1, <1>4, <1>5, <1>6, CallsStay

\* A request arrives; its call has not started.
LEMMA ArriveKeeps ==
    ASSUME AgentsStrongInv, NEW r \in Requests, NEW t \in Tokens, NEW c \in Commands,
           Arrive(r, t, c)
    PROVE  AgentsStrongInv'
<1> USE DEF AgentsStrongInv, accessVars, auditVars
<1>1. /\ At(r, "idle") /\ token[t] # "unissued"
      /\ UNCHANGED <<actors, nickname, bundle, unlocked, accessVars, auditVars, started, admin,
                     inForce, toldRevoked>>
  BY DEF Arrive
<1>3. /\ Shaped /\ OthersWait(r) /\ call'[r].at = "authenticate" /\ call'[r].lookup = 1
      /\ call'[r].token = t /\ call'[r].isError = TRUE /\ (call'[r].live <=> token[t] = "live")
  <2>1. TokenOwner[t] \in Actors
    BY AgentsAssumption
  <2>2. [at |-> "authenticate", number |-> 0, token |-> t, actor |-> TokenOwner[t],
         command |-> c, lookup |-> 1, found |-> {}, isError |-> TRUE,
         live |-> token[t] = "live", denoted |-> {}] \in Busy
    BY <2>1 DEF Busy, Steps
  <2>3. call \in [Requests -> {Idle} \union Busy]
    BY DEF CallsOK
  <2>4. call' = [call EXCEPT ![r] =
            [at |-> "authenticate", number |-> 0, token |-> t, actor |-> TokenOwner[t],
             command |-> c, lookup |-> 1, found |-> {}, isError |-> TRUE,
             live |-> token[t] = "live", denoted |-> {}]]
    BY DEF Arrive
  <2> QED
    BY <2>2, <2>3, <2>4 DEF Shaped, OthersWait
<1>4. TypeOK'
  BY <1>1, <1>3 DEF TypeOK, Running, Caller, OthersWait
<1>5. CallsOK'
  BY <1>3 DEF CallsOK, Shaped, OthersWait, Calls, Running, At
<1>6. OneHolder' /\ BundlesInHand' /\ LookupsInHand'
  BY <1>1, <1>3, OutsideKeepsNames DEF OthersWait
<1>7. TokensInHand'
  <2>1. token[t] = "live" \/ token[t] = "revoked"
    BY <1>1 DEF TypeOK
  <2> QED
    BY <1>1, <1>3, <2>1 DEF TokensInHand, OutageIsNotRevocation, OthersWait, At
<1>8. SessionsInHand'
  BY <1>1, <1>3 DEF SessionsInHand, CallsAreAuthorised, Running, Caller, OthersWait
<1>9. NumbersInHand'
  <2>1. \A q \in Requests : Running(q)' \/ At(q, "answer")' => q # r
    BY <1>3 DEF Running, At
  <2> QED
    BY <1>1, <1>3, <2>1, NumbersStay DEF OthersWait, Running, At
<1> QED
  BY <1>4, <1>5, <1>6, <1>7, <1>8, <1>9

\* A request ends outside a handler, its token looked at or not.
LEMMA TurnedAwayKeeps ==
    ASSUME AgentsStrongInv, NEW r \in Requests, Hangup(r),
           UNCHANGED <<actors, nickname, bundle, unlocked, auditVars, started, admin,
                       token, allowlist>>,
           UNCHANGED <<session, inForce>>,
           \A t \in toldRevoked' : t \in Tokens /\ token[t] = "revoked"
    PROVE  AgentsStrongInv'
<1> USE DEF AgentsStrongInv, auditVars
<1>1. Shaped /\ OthersWait(r) /\ call'[r].at = "idle"
  BY HangupEffect
<1>2. TypeOK'
  BY <1>1 DEF TypeOK, Running, Caller, OthersWait
<1>3. CallsOK'
  BY <1>1 DEF CallsOK, Shaped, OthersWait, Calls, Running, At
<1>4. OneHolder' /\ BundlesInHand' /\ LookupsInHand'
  BY <1>1, OutsideKeepsNames DEF OthersWait
<1>5. TokensInHand'
  BY <1>1 DEF TokensInHand, OutageIsNotRevocation, OthersWait, At
<1>6. SessionsInHand'
  BY <1>1 DEF SessionsInHand, CallsAreAuthorised, Running, Caller, OthersWait
<1>7. NumbersInHand'
  BY <1>1 DEF NumbersInHand, OthersWait, Running, At
<1> QED
  BY <1>2, <1>3, <1>4, <1>5, <1>6, <1>7

\* A token is read: live, it was live when its request arrived; else it is revoked.
LEMMA AuthenticateKeeps ==
    ASSUME AgentsStrongInv, NEW r \in Requests, Authenticate(r)
    PROVE  AgentsStrongInv'
<1> USE DEF AgentsStrongInv, accessVars, auditVars
<1>1. /\ At(r, "authenticate") /\ ~At(r, "idle")
      /\ UNCHANGED <<actors, nickname, bundle, unlocked, auditVars, started, admin,
                     accessVars, inForce>>
  BY DEF Authenticate, Unchanged, At
<1>2. CASE token[call[r].token] # "live"
  <2>1. Hangup(r) /\ toldRevoked' = toldRevoked \union {call[r].token}
    BY <1>2 DEF Authenticate
  <2>2. \A t \in toldRevoked' : t \in Tokens /\ token[t] = "revoked"
    <3>1. call[r].token \in Tokens /\ token[call[r].token] = "revoked"
      BY <1>1, <1>2, BusyLocals DEF TokensInHand, TypeOK
    <3> QED
      BY <2>1, <3>1 DEF TokensInHand, OutageIsNotRevocation, TypeOK
  <2> QED
    BY <1>1, <2>1, <2>2, TurnedAwayKeeps
<1>3. CASE token[call[r].token] = "live"
  <2>1. /\ Shaped /\ OthersWait(r) /\ call'[r].at = "load actor" /\ SameCall(r) /\ SameFound(r)
        /\ UNCHANGED toldRevoked /\ call'[r].isError = call[r].isError
    BY <1>1, <1>3, GotoEffect DEF Authenticate, Steps
  <2>2. TypeOK'
    BY <1>1, <2>1 DEF TypeOK, Running, Caller, OthersWait
  <2>3. CallsOK'
    BY <1>1, <2>1 DEF CallsOK, Shaped, OthersWait, SameFound, Calls, Running, At
  <2>4. OneHolder' /\ BundlesInHand' /\ LookupsInHand'
    BY <1>1, <2>1, OutsideKeepsNames DEF OthersWait
  <2>5. TokensInHand'
    BY <1>1, <1>3, <2>1
    DEF TokensInHand, OutageIsNotRevocation, OthersWait, SameCall, SameRequest, At
  <2>6. SessionsInHand'
    BY <1>1, <2>1 DEF SessionsInHand, CallsAreAuthorised, Running, Caller, OthersWait
  <2>7. NumbersInHand'
    BY <1>1, <2>1 DEF NumbersInHand, OthersWait, Running, At
  <2> QED
    BY <2>2, <2>3, <2>4, <2>5, <2>6, <2>7
<1> QED
  BY <1>2, <1>3

\* The database is out: nobody is told anything about the token.
LEMMA UnavailableKeeps ==
    ASSUME AgentsStrongInv, NEW r \in Requests, Unavailable(r)
    PROVE  AgentsStrongInv'
<1> USE DEF AgentsStrongInv, auditVars
<1>1. /\ Hangup(r)
      /\ UNCHANGED <<actors, nickname, bundle, unlocked, auditVars, started, admin,
                     token, allowlist>>
      /\ UNCHANGED <<session, inForce>> /\ toldRevoked' = toldRevoked
  BY DEF Unavailable, Unchanged, accessVars
<1>2. \A t \in toldRevoked' : t \in Tokens /\ token[t] = "revoked"
  BY <1>1 DEF TokensInHand, OutageIsNotRevocation, TypeOK
<1> QED
  BY <1>1, <1>2, TurnedAwayKeeps

\* A call starts, and is numbered.
LEMMA StartEffect ==
    ASSUME CallsOK, started \in 0 .. MaxCalls, NEW r \in Requests, ~At(r, "idle"), Start(r)
    PROVE  /\ Shaped /\ OthersWait(r) /\ call'[r].at = "handler" /\ SameRequest(r) /\ SameFound(r)
           /\ call'[r].number = started' /\ started' \in 1 .. MaxCalls /\ started' = started + 1
           /\ call'[r].isError = call[r].isError
<1>1. call[r] \in Busy
  BY BusyLocals
<1>2. started' = started + 1 /\ started' \in 1 .. MaxCalls
  BY NamesAssumption DEF Start
<1>3. PICK n \in Nat : n = started'
  BY <1>2, NamesAssumption
<1>4. call' = [call EXCEPT ![r] = [call[r] EXCEPT !.at = "handler", !.number = n]]
  BY <1>3 DEF Start
<1>5. [call[r] EXCEPT !.at = "handler", !.number = n] \in Busy
  BY <1>1 DEF Busy, Steps
<1> QED
  BY <1>1, <1>2, <1>3, <1>4, <1>5 DEF CallsOK, Shaped, OthersWait, SameRequest, SameFound, Busy

\* The tool is called, if the actor's allowlist or the session's has it.
LEMMA LoadActorKeeps ==
    ASSUME AgentsStrongInv, NEW r \in Requests, LoadActor(r)
    PROVE  AgentsStrongInv'
<1> USE DEF AgentsStrongInv, auditVars
<1> DEFINE a == Caller(r)
           first == IF session[a] = None THEN allowlist[a] ELSE session[a]
<1>1. /\ At(r, "load actor") /\ ~At(r, "idle") /\ ~Running(r) /\ a \in actors
      /\ session' = [session EXCEPT ![a] = first]
      /\ inForce' = [inForce EXCEPT ![a] = IF session[a] = None THEN allowlist[a] ELSE inForce[a]]
      /\ UNCHANGED <<actors, nickname, bundle, unlocked, auditVars, admin,
                     token, allowlist, toldRevoked>>
  BY DEF LoadActor, CallTool, Unchanged, At, Running
<1>2. /\ Shaped /\ OthersWait(r)
      /\ \/ call'[r].at = "idle" /\ started' = started
         \/ /\ call'[r].at = "handler" /\ SameRequest(r) /\ SameFound(r)
            /\ call[r].command.tool \in allowlist[a] \union first
            /\ call'[r].number = started' /\ started' \in 1 .. MaxCalls /\ started' = started + 1
            /\ call'[r].isError = call[r].isError
  <2>1. PICK tools \in {allowlist[a], first} :
           IF AllowedTool(tools, call[r].command.tool)
           THEN Start(r) ELSE Hangup(r) /\ UNCHANGED started
    BY DEF LoadActor, CallTool
  <2>2. CASE Start(r) /\ call[r].command.tool \in tools
    BY <1>1, <2>2, StartEffect DEF TypeOK
  <2>3. CASE Hangup(r) /\ UNCHANGED started
    BY <2>3, HangupEffect
  <2> QED
    BY <2>1, <2>2, <2>3 DEF AllowedTool
<1>3. a \in Actors /\ first \in SUBSET AllTools /\ first # None
  <2>1. a \in Actors
    BY <1>1 DEF TypeOK
  <2> HIDE DEF a
  <2>2. allowlist[a] \in SUBSET AllTools /\ session[a] \in (SUBSET AllTools) \union {None}
    BY <2>1 DEF TypeOK
  <2>3. allowlist[a] # None
    BY <2>2, AgentsAssumption
  <2>4. CASE session[a] = None
    BY <2>1, <2>2, <2>3, <2>4
  <2>5. CASE session[a] # None
    BY <2>1, <2>2, <2>5
  <2> QED
    BY <2>4, <2>5
<1> HIDE DEF a, first
<1>4. /\ session' \in [Actors -> (SUBSET AllTools) \union {None}]
      /\ session'[a] = first /\ \A b \in Actors : b # a => session'[b] = session[b]
  BY <1>1, <1>3 DEF TypeOK
<1>5. /\ inForce' \in [Actors -> SUBSET AllTools]
      /\ inForce'[a] = IF session[a] = None THEN allowlist[a] ELSE inForce[a]
      /\ \A b \in Actors : b # a => inForce'[b] = inForce[b]
  BY <1>1, <1>3 DEF TypeOK, SessionsInHand
<1>6. call[r].lookup = 1 /\ call[r].actor = a
  BY <1>1 DEF CallsOK, a, Caller
<1>7. TypeOK'
  <2>1. \A q \in Requests : Running(q)' => Caller(q)' \in actors /\ call'[q].lookup \in 1 .. 4
    <3>1. ASSUME NEW q \in Requests, q # r, Running(q)
          PROVE  Caller(q) \in actors /\ call[q].lookup \in 1 .. 4
      BY <3>1 DEF TypeOK
    <3>2. Running(r)' => Caller(r)' = a /\ call'[r].lookup = 1
      BY <1>2, <1>6 DEF Running, Caller, SameCall, SameRequest, SameFound
    <3>3. ASSUME NEW q \in Requests, q # r, Running(q)'
          PROVE  Caller(q)' \in actors /\ call'[q].lookup \in 1 .. 4
      BY <1>2, <3>1, <3>3 DEF Running, Caller, OthersWait
    <3>4. Running(r)' => Caller(r)' \in actors /\ call'[r].lookup \in 1 .. 4
      <4>1. a \in actors
        BY <1>1
      <4>2. 1 \in 1 .. 4
        OBVIOUS
      <4> QED
        BY <3>2, <4>1, <4>2, Zenon
    <3>5. ASSUME NEW q \in Requests, Running(q)'
          PROVE  Caller(q)' \in actors /\ call'[q].lookup \in 1 .. 4
      <4>1. CASE q = r
        BY <3>4, <3>5, <4>1 DEF Running, Caller
      <4>2. CASE q # r
        BY <3>3, <3>5, <4>2 DEF Running, Caller
      <4> QED
        BY <4>1, <4>2
    <3> QED
      BY <3>5
  <2>2. started' \in 0 .. MaxCalls /\ started <= started'
    BY <1>2 DEF TypeOK
  <2>3. unwritten' \union audit' \union lost' \subseteq
            [actor : Actors, tool : Naming, name : AllNames, calledAt : 1 .. started']
            \union {OtherRow}
    <3>1. 1 .. started \subseteq 1 .. started'
      BY <2>2, NamesAssumption DEF TypeOK
    <3>2. unwritten \union audit \union lost \subseteq
              [actor : Actors, tool : Naming, name : AllNames, calledAt : 1 .. started]
              \union {OtherRow}
      BY DEF TypeOK
    <3> QED
      BY <1>1, <3>1, <3>2
  <2> QED
    BY <1>1, <1>4, <2>1, <2>2, <2>3 DEF TypeOK
<1>8. CallsOK'
  BY <1>1, <1>2 DEF CallsOK, Shaped, OthersWait, Calls, Running, At
<1>9. OneHolder' /\ BundlesInHand' /\ LookupsInHand'
  BY <1>1, <1>2, <1>6, OutsideKeepsNames DEF OthersWait, SameFound
<1>10. TokensInHand'
  BY <1>1, <1>2 DEF TokensInHand, OutageIsNotRevocation, OthersWait, SameCall, SameRequest, At
<1>11. SessionsInHand'
  <2>1. first \subseteq inForce'[a] /\ allowlist[a] \subseteq inForce'[a]
    BY <1>3, <1>5 DEF SessionsInHand, first
  <2>2. \A b \in Actors : session'[b] # None =>
            session'[b] \subseteq inForce'[b] /\ allowlist'[b] \subseteq inForce'[b]
    BY <1>1, <1>4, <1>5, <2>1 DEF SessionsInHand
  <2>3. ASSUME NEW q \in Requests, q # r, Running(q)
        PROVE  /\ call[q].live /\ call[q].command.tool \in inForce'[Caller(q)]
               /\ session'[Caller(q)] # None
    <3>1. Caller(q) \in Actors
      BY <2>3 DEF TypeOK
    <3> QED
      BY <1>3, <1>4, <1>5, <2>3, <3>1 DEF SessionsInHand, CallsAreAuthorised
  <2>4. Running(r)' => /\ call'[r].live /\ call'[r].command.tool \in inForce'[a]
                       /\ call'[r].actor = a /\ session'[a] # None
    BY <1>1, <1>2, <1>3, <1>4, <1>6, <2>1 DEF TokensInHand, Running, SameCall, SameRequest, At
  <2>5. \A q \in Requests : Running(q)' =>
            /\ call'[q].live /\ call'[q].command.tool \in inForce'[call'[q].actor]
            /\ session'[call'[q].actor] # None
    BY <1>2, <2>3, <2>4 DEF OthersWait, Running, Caller
  <2> QED
    BY <1>5, <2>2, <2>5 DEF SessionsInHand, CallsAreAuthorised, Caller
<1>12. NumbersInHand'
  <2>1. started \in Nat /\ started' \in Nat /\ started <= started'
    BY <1>2, NamesAssumption DEF TypeOK
  <2>2. Running(r)' \/ At(r, "answer")' =>
            call'[r].number = started' /\ started' = started + 1
    BY <1>2 DEF Running, At
  <2>3. \A q \in Requests : q # r /\ (Running(q)' \/ At(q, "answer")') =>
            /\ call'[q].number = call[q].number /\ call'[q].number \in 1 .. started
            /\ Running(q)' => Running(q)
    BY <1>2 DEF NumbersInHand, OthersWait, Running, At
  <2>4. \A q \in Requests : Running(q)' \/ At(q, "answer")' => call'[q].number \in 1 .. started'
    BY <2>1, <2>2, <2>3
  <2>5. ASSUME NEW p \in Requests, NEW q \in Requests, Running(p)', Running(q)',
               call'[p].number = call'[q].number
        PROVE  p = q
    <3>1. CASE p # r /\ q # r
      BY <2>3, <2>5, <3>1 DEF NumbersInHand
    <3>2. CASE p = r /\ q # r
      BY <2>1, <2>2, <2>3, <2>5, <3>2
    <3>3. CASE p # r /\ q = r
      BY <2>1, <2>2, <2>3, <2>5, <3>3
    <3> QED
      BY <3>1, <3>2, <3>3
  <2> QED
    BY <2>4, <2>5 DEF NumbersInHand
<1> QED
  BY <1>7, <1>8, <1>9, <1>10, <1>11, <1>12

------------------------------------------------------------------------------
(* Each step of a handler keeps the invariant.                             *)

\* A handler's step keeps the shape of the tables, if it writes names.
LEMMA HandlerKeepsTypes ==
    ASSUME AgentsStrongInv, NEW r \in Requests, Running(r), UNCHANGED Rest, UNCHANGED actors,
           OthersWait(r), SameCall(r), call'[r].lookup \in 1 .. 4,
           nickname' \in [Actors -> AllNames \union {None}],
           bundle' \in [Actors -> AllNames \union {None}],
           unlocked' \subseteq actors
    PROVE  TypeOK'
<1> USE DEF AgentsStrongInv, Rest, accessVars, auditVars
<1>1. \A q \in Requests : Running(q)' => Caller(q)' \in actors' /\ call'[q].lookup \in 1 .. 4
  BY DEF TypeOK, Running, Caller, OthersWait, SameCall, SameRequest
<1> QED
  BY <1>1 DEF TypeOK

\* Who is matched by display name depends on which actors there are.
LEMMA DisplayMatches ==
    ASSUME UNCHANGED actors, NEW name
    PROVE  Matches(2, name)' = Matches(2, name) /\ Matches(4, name)' = Matches(4, name)
<1>1. /\ Matches(2, name) = {b \in actors : DisplayName[b] = name}
      /\ Matches(4, name) = {b \in actors : Fold[DisplayName[b]] = Fold[name]}
  BY DEF Matches
<1>2. /\ Matches(2, name)' = {b \in actors' : DisplayName[b] = name}
      /\ Matches(4, name)' = {b \in actors' : Fold[DisplayName[b]] = Fold[name]}
  BY DEF Matches
<1> QED
  BY <1>1, <1>2

\* Lookups stay accounted for when names change: display names do not.
LEMMA LookupsStay ==
    ASSUME LookupsInHand, UNCHANGED actors,
           \A q \in Requests :
              \/ call'[q] = call[q]
              \/ call'[q].at \notin {"handler", "store bundle", "read bundle"}
    PROVE  LookupsInHand'
<1>1. FoundActorsHeldTheName'
  BY DEF LookupsInHand, FoundActorsHeldTheName, At
<1>2. ASSUME NEW r \in Requests, NEW name \in AllNames, NEW k \in 1 .. 4,
             NEW denoted \in SUBSET Actors, Looking(r, name, k, denoted)'
      PROVE  Accounted(name, k, denoted)'
  <2>1. Looking(r, name, k, denoted)
    BY <1>2 DEF Looking, Calls, Running, Arg, At
  <2>2. Accounted(name, k, denoted)
    BY <2>1 DEF LookupsInHand
  <2>3. Matches(2, name)' = Matches(2, name) /\ Matches(4, name)' = Matches(4, name)
    BY DisplayMatches
  <2> QED
    BY <2>2, <2>3 DEF Accounted
<1> QED
  BY <1>1, <1>2 DEF LookupsInHand

\* A handler returns without a write.
LEMMA ReturnKeeps ==
    ASSUME AgentsStrongInv, NEW r \in Requests, Running(r), UNCHANGED Rest,
           UNCHANGED <<actors, nickname, bundle, unlocked>>,
           NEW isError \in BOOLEAN, Return(r, isError)
    PROVE  AgentsStrongInv'
<1> USE DEF AgentsStrongInv
<1>1. ~At(r, "idle")
  BY DEF Running, At
<1>2. Shaped /\ OthersWait(r) /\ call'[r].at = "answer" /\ SameCall(r) /\ SameFound(r)
  BY <1>1, ReturnEffect
<1>3. TypeOK'
  BY <1>2, HandlerKeepsTypes DEF SameFound, TypeOK
<1>4. CallsOK'
  BY <1>2 DEF CallsOK, Shaped, OthersWait, Calls, Running, At
<1>5. OneHolder' /\ BundlesInHand' /\ LookupsInHand'
  BY <1>2, OutsideKeepsNames DEF OthersWait
<1>6. TokensInHand' /\ SessionsInHand' /\ NumbersInHand'
  BY <1>2, HandlerKeepsTheRest DEF Steps
<1> QED
  BY <1>3, <1>4, <1>5, <1>6

\* A handler that runs with a tool of a name has one.
LEMMA RunningCall ==
    ASSUME AgentsStrongInv, NEW r \in Requests, Running(r)
    PROVE  /\ ~At(r, "idle") /\ Caller(r) \in Actors /\ Caller(r) \in actors
           /\ call[r] \in Busy /\ call[r].lookup \in 1 .. 4
           /\ call[r].denoted \in SUBSET Actors
           /\ call[r].command.tool # "send_secret" => Arg(r) \in AllNames
<1>1. ~At(r, "idle")
  BY DEF Running, At
<1>2. call[r].command \in Commands
  BY <1>1, BusyLocals DEF AgentsStrongInv
<1> QED
  BY <1>1, <1>2, BusyLocals, CommandShapes DEF AgentsStrongInv, TypeOK, Arg, Caller

\* set_profile's checks: a rename that passes them leaves the bundle a name.
LEMMA CheckProfileKeeps ==
    ASSUME AgentsStrongInv, NEW r \in Requests, UNCHANGED Rest, CheckProfile(r)
    PROVE  AgentsStrongInv'
<1> USE DEF AgentsStrongInv
<1> DEFINE a == Caller(r)
<1>1. /\ At(r, "handler") /\ Calls(r, "set_profile") /\ Running(r)
      /\ UNCHANGED <<actors, nickname, bundle>>
  BY DEF CheckProfile, Calls
<1>2. CASE Return(r, TRUE) /\ UNCHANGED unlocked
  BY <1>1, <1>2, ReturnKeeps
<1>3. CASE /\ Goto(r, "write profile")
           /\ unlocked' = unlocked \union {b \in {a} : NicknameLocked(a, Arg(r))}
  <2>0. /\ unlocked \subseteq unlocked' /\ unlocked' \subseteq actors
        /\ a \notin unlocked' => a \notin unlocked /\ ~NicknameLocked(a, Arg(r))
    BY <1>1, <1>3, RunningCall DEF TypeOK
  <2>1. /\ Shaped /\ OthersWait(r) /\ call'[r].at = "write profile" /\ SameCall(r) /\ SameFound(r)
        /\ call'[r].isError = call[r].isError
    BY <1>1, <1>3, GotoEffect, RunningCall DEF Steps
  <2>2. TypeOK'
    BY <1>1, <2>0, <2>1, RunningCall, HandlerKeepsTypes DEF SameFound, TypeOK
  <2>3. CallsOK'
    BY <1>1, <2>1 DEF CallsOK, Shaped, OthersWait, SameCall, SameRequest, Calls, Running, At
  <2>4. OneHolder'
    BY <1>1 DEF OneHolder
  <2>5. LookupsInHand'
    BY <1>1, <2>1, LookupsStay DEF OthersWait
  <2>6. a \notin unlocked' /\ bundle[a] # None =>
            Fold[DisplayName[a]] = Fold[bundle[a]] \/ nickname[a] = Arg(r)
    BY <1>1, <2>0, RunningCall DEF NicknameLocked, BundlesInHand, OwnName
  <2>7. BundlesInHand'
    <3>1. ASSUME NEW q \in Requests, q # r, Running(q)', Caller(q)' \notin unlocked'
          PROVE  /\ At(q, "store bundle")' => OwnName(Caller(q), Arg(q))'
                 /\ At(q, "write profile")' /\ bundle'[Caller(q)'] # None =>
                      \/ Fold[DisplayName[Caller(q)']] = Fold[bundle'[Caller(q)']]
                      \/ nickname'[Caller(q)'] = Arg(q)'
      BY <1>1, <2>0, <2>1, <3>1 DEF BundlesInHand, OwnName, OthersWait, Running, Caller, Arg, At
    <3>2. \A b \in Actors \ unlocked' : bundle'[b] # None => OwnName(b, bundle[b])'
      BY <1>1, <2>0 DEF BundlesInHand, OwnName
    <3> QED
      BY <1>1, <2>1, <2>6, <3>1, <3>2
      DEF BundlesInHand, OwnName, SameCall, SameRequest, Caller, Arg, At
  <2>8. TokensInHand' /\ SessionsInHand' /\ NumbersInHand'
    BY <1>1, <2>1, HandlerKeepsTheRest DEF Steps
  <2> QED
    BY <2>2, <2>3, <2>4, <2>5, <2>7, <2>8
<1> QED
  BY <1>2, <1>3 DEF CheckProfile

\* The upsert: the unique index keeps nicknames apart, and a caller that publishes
\* meanwhile is noted.
LEMMA WriteProfileKeeps ==
    ASSUME AgentsStrongInv, NEW r \in Requests, UNCHANGED Rest, WriteProfile(r)
    PROVE  AgentsStrongInv'
<1> USE DEF AgentsStrongInv
<1>1. /\ At(r, "write profile") /\ Calls(r, "set_profile") /\ Running(r)
      /\ UNCHANGED <<actors, bundle>>
  BY DEF WriteProfile, CallsOK, Calls
<1>2. PICK a \in Actors : a = Caller(r) /\ a \in actors
  BY <1>1, RunningCall
<1>3. PICK name \in AllNames : name = Arg(r)
  BY <1>1, RunningCall DEF Calls
<1>4. /\ Shaped /\ OthersWait(r) /\ call'[r].at = "answer" /\ SameCall(r) /\ SameFound(r)
  <2>1. Return(r, TRUE) \/ Return(r, FALSE)
    BY DEF WriteProfile
  <2> QED
    BY <1>1, <2>1, RunningCall, ReturnEffect
<1>5. \/ nickname' = nickname
      \/ /\ nickname' = [nickname EXCEPT ![a] = name]
         /\ \A b \in Actors \ {a} : nickname[b] # name
  <2>1. CASE NicknameTaken(Caller(r), Arg(r))
    <3>1. UNCHANGED nickname
      BY <2>1 DEF WriteProfile
    <3> QED
      BY <3>1
  <2>2. CASE ~NicknameTaken(Caller(r), Arg(r))
    <3>1. nickname' = [nickname EXCEPT ![Caller(r)] = Arg(r)]
      BY <2>2 DEF WriteProfile
    <3> QED
      BY <1>2, <1>3, <2>2, <3>1 DEF NicknameTaken
  <2> QED
    BY <2>1, <2>2
<1>6. /\ unlocked \subseteq unlocked' /\ unlocked' \subseteq unlocked \union {a}
      /\ a \notin unlocked' =>
            \A q \in Requests \ {r} : Calls(q, "set_key_bundle") => Caller(q) # a
  BY <1>1, <1>2 DEF WriteProfile, BothRun
<1>7. nickname \in [Actors -> AllNames \union {None}]
  BY DEF TypeOK
<1>8. /\ nickname' \in [Actors -> AllNames \union {None}]
      /\ \A b \in Actors \ {a} : nickname'[b] = nickname[b]
      /\ nickname'[a] = nickname[a] \/ nickname'[a] = name
  BY <1>5, <1>7
<1>9. TypeOK'
  BY <1>1, <1>2, <1>4, <1>6, <1>8, RunningCall, HandlerKeepsTypes DEF SameFound, TypeOK
<1>10. CallsOK'
  BY <1>4 DEF CallsOK, Shaped, OthersWait, Calls, Running, At
<1>11. OneHolder'
  BY <1>5, <1>7, <1>8 DEF OneHolder
<1>12. LookupsInHand'
  BY <1>1, <1>4, LookupsStay DEF OthersWait
<1>13. a \notin unlocked /\ bundle[a] # None =>
          Fold[DisplayName[a]] = Fold[bundle[a]] \/ nickname[a] = name
  BY <1>1, <1>2, <1>3 DEF BundlesInHand
<1>14. BundlesInHand'
  <2>1. ASSUME NEW b \in Actors, b \notin unlocked', bundle[b] # None
        PROVE  \/ Fold[DisplayName[b]] = Fold[bundle[b]]
               \/ nickname'[b] # None /\ Fold[nickname'[b]] = Fold[bundle[b]]
    <3>1. OwnName(b, bundle[b]) /\ b \notin unlocked
      BY <1>6, <2>1 DEF BundlesInHand
    <3>2. CASE b # a
      BY <1>8, <3>1, <3>2 DEF OwnName
    <3>3. CASE b = a
      BY <1>8, <1>13, <2>1, <3>1, <3>3 DEF OwnName
    <3> QED
      BY <3>2, <3>3
  <2>2. ASSUME NEW q \in Requests, q # r, Running(q), Caller(q) \notin unlocked'
        PROVE  /\ At(q, "store bundle") =>
                     \/ Fold[DisplayName[Caller(q)]] = Fold[Arg(q)]
                     \/ nickname'[Caller(q)] # None /\ Fold[nickname'[Caller(q)]] = Fold[Arg(q)]
               /\ At(q, "write profile") /\ bundle[Caller(q)] # None =>
                     \/ Fold[DisplayName[Caller(q)]] = Fold[bundle[Caller(q)]]
                     \/ nickname'[Caller(q)] = Arg(q)
    <3>1. PICK b \in Actors : b = Caller(q)
      BY <2>2, RunningCall
    <3>2. /\ At(q, "store bundle") => OwnName(b, Arg(q))
          /\ At(q, "write profile") /\ bundle[b] # None =>
                Fold[DisplayName[b]] = Fold[bundle[b]] \/ nickname[b] = Arg(q)
      BY <1>6, <2>2, <3>1 DEF BundlesInHand
    <3>3. CASE b # a
      BY <1>8, <3>1, <3>2, <3>3 DEF OwnName
    <3>4. CASE b = a
      <4>1. ~At(q, "store bundle")
        BY <1>6, <2>2, <3>1, <3>4 DEF CallsOK
      <4>2. bundle[a] # None => Fold[DisplayName[a]] = Fold[bundle[a]] \/ nickname[a] = name
        BY <1>6, <1>13, <2>2, <3>1, <3>4
      <4> QED
        BY <1>8, <3>1, <3>2, <3>4, <4>1, <4>2
    <3> QED
      BY <3>3, <3>4
  <2> QED
    BY <1>1, <1>4, <2>1, <2>2 DEF BundlesInHand, OwnName, OthersWait, Running, Caller, Arg, At
<1>15. TokensInHand' /\ SessionsInHand' /\ NumbersInHand'
  BY <1>1, <1>4, HandlerKeepsTheRest DEF Steps
<1> QED
  BY <1>9, <1>10, <1>11, <1>12, <1>14, <1>15

\* One query: whom it finds was denoted, and has the name.
LEMMA LookupKeeps ==
    ASSUME AgentsStrongInv, NEW r \in Requests, UNCHANGED Rest, Lookup(r)
    PROVE  AgentsStrongInv'
<1> USE DEF AgentsStrongInv
<1>1. /\ At(r, "handler") /\ (Calls(r, "set_key_bundle") \/ Calls(r, "get_key_bundle"))
      /\ Running(r) /\ UNCHANGED <<actors, nickname, bundle, unlocked>>
  BY DEF Lookup, Calls
<1>2. PICK name \in AllNames : name = Arg(r)
  BY <1>1, RunningCall DEF Calls
<1>3. PICK k \in 1 .. 4 : k = call[r].lookup
  BY <1>1, RunningCall
<1>4. PICK matched \in SUBSET Actors : matched = Matches(k, name)
  BY MatchesFacts
<1>5. PICK denoted \in SUBSET Actors : denoted = call[r].denoted \union Denoted(name)
  <2>1. Denoted(name) \subseteq Actors
    <3>1. \A j \in 1 .. 4 : Sole(Matches(j, name)) \subseteq Actors
      BY MatchesFacts, SoleIsTheMatch
    <3> QED
      BY <3>1 DEF Denoted
  <2> QED
    BY <1>1, <2>1, RunningCall
<1>6. PICK step \in {"handler", "read bundle", "store bundle", "answer"} :
          /\ step = IF matched = {} /\ k < 4 THEN "handler" ELSE AfterLookup(r, Sole(matched))
          /\ step = "handler" => matched = {} /\ k < 4
          /\ step = "store bundle" => Sole(matched) = {Caller(r)} /\ Calls(r, "set_key_bundle")
          /\ step = "read bundle" => Calls(r, "get_key_bundle")
  BY <1>1 DEF AfterLookup
<1>7. PICK next \in 1 .. 4 : next = IF matched = {} /\ k < 4 THEN k + 1 ELSE k
  <2>1. k < 4 => k + 1 \in 1 .. 4
    BY QueryOrder
  <2> QED
    BY <2>1
<1>8. /\ Shaped /\ OthersWait(r) /\ SameCall(r) /\ call'[r].at = step
      /\ call'[r].lookup = next /\ call'[r].found = Sole(matched) /\ call'[r].denoted = denoted
      /\ call'[r].isError = call[r].isError
  <2>1. call' = [call EXCEPT ![r] = [call[r] EXCEPT
            !.denoted = denoted, !.lookup = next, !.found = Sole(matched), !.at = step]]
    <3>1. Matches(Precedence[call[r].lookup], Arg(r)) = matched
      BY <1>2, <1>3, <1>4, QueryOrder
    <3> QED
      BY <1>1, <1>2, <1>3, <1>5, <1>6, <1>7, <3>1 DEF Lookup, At
  <2>2. call[r] \in Busy /\ Sole(matched) \in SUBSET Actors
    BY <1>1, RunningCall, SoleIsTheMatch
  <2>3. [call[r] EXCEPT !.denoted = denoted, !.lookup = next, !.found = Sole(matched),
                        !.at = step] \in Busy
    BY <2>2 DEF Busy, Steps
  <2>4. call \in [Requests -> {Idle} \union Busy]
    BY DEF CallsOK
  <2> QED
    BY <2>1, <2>2, <2>3, <2>4 DEF Shaped, OthersWait, SameCall, SameRequest, Busy
<1>9. TypeOK'
  BY <1>1, <1>8, HandlerKeepsTypes DEF TypeOK
<1>10. CallsOK'
  <2>1. call'[r].command = call[r].command /\ call'[r].isError = TRUE
    BY <1>1, <1>8 DEF CallsOK, SameCall, SameRequest, At
  <2>2. /\ At(r, "write profile")' => Calls(r, "set_profile")'
        /\ At(r, "store bundle")' => Calls(r, "set_key_bundle")'
        /\ At(r, "read bundle")' => Calls(r, "get_key_bundle")'
        /\ ~At(r, "authenticate")' /\ ~At(r, "load actor")'
    BY <1>6, <1>8, <2>1 DEF Calls, Running, At
  <2> QED
    BY <1>8, <2>1, <2>2 DEF CallsOK, Shaped, OthersWait, Calls, Running, At
<1>11. OneHolder'
  BY <1>1 DEF OneHolder
<1>12. BundlesInHand'
  <2>1. step = "store bundle" => OwnName(Caller(r), name)
    BY <1>4, <1>6, SoleIsTheMatch, MatchOwnsName
  <2>2. ASSUME NEW q \in Requests, q # r, Running(q)', Caller(q)' \notin unlocked'
        PROVE  /\ At(q, "store bundle")' => OwnName(Caller(q), Arg(q))'
               /\ At(q, "write profile")' /\ bundle'[Caller(q)'] # None =>
                    \/ Fold[DisplayName[Caller(q)']] = Fold[bundle'[Caller(q)']]
                    \/ nickname'[Caller(q)'] = Arg(q)'
    BY <1>1, <1>8, <2>2 DEF BundlesInHand, OwnName, OthersWait, Running, Caller, Arg, At
  <2>3. \A b \in Actors \ unlocked' : bundle'[b] # None => OwnName(b, bundle[b])'
    BY <1>1 DEF BundlesInHand, OwnName
  <2> QED
    BY <1>1, <1>2, <1>8, <2>1, <2>2, <2>3
    DEF BundlesInHand, OwnName, SameCall, SameRequest, Caller, Arg, At
<1>13. Accounted(name, k, call[r].denoted)
  <2>1. call[r].denoted \in SUBSET Actors
    BY <1>1, RunningCall
  <2>2. Looking(r, name, k, call[r].denoted)
    BY <1>1, <1>2, <1>3 DEF Looking
  <2> QED
    BY <2>1, <2>2 DEF LookupsInHand
<1>14. Sole(matched) \subseteq denoted /\ (step = "handler" => Accounted(name, next, denoted))
  <2>1. CASE Actors \subseteq call[r].denoted
    BY <1>5, <2>1, SoleIsTheMatch DEF Accounted
  <2>2. CASE ~(Actors \subseteq call[r].denoted)
    <3>1. /\ k >= 2 => Sole(Matches(2, name)) \subseteq call[r].denoted
          /\ k >= 3 => Matches(2, name) = {}
          /\ k = 4 => Sole(Matches(4, name)) \subseteq call[r].denoted
      BY <1>13, <2>2 DEF Accounted
    <3>2. /\ Sole(matched) \subseteq denoted
          /\ matched = {} =>
                 /\ Sole(Matches(2, name)) \subseteq denoted
                 /\ k >= 2 => Matches(2, name) = {}
                 /\ k >= 3 => Sole(Matches(4, name)) \subseteq denoted
      BY <1>4, <1>5, <3>1, QueryFindsTheDenoted
    <3>3. step = "handler" => matched = {} /\ next = k + 1
      BY <1>6, <1>7
    <3>4. /\ next = k + 1 /\ next >= 3 => k >= 2
          /\ next = k + 1 /\ next = 4 => k >= 3
      BY QueryOrder
    <3> QED
      BY <3>2, <3>3, <3>4 DEF Accounted
  <2> QED
    BY <2>1, <2>2
<1>15. LookupsInHand'
  <2>1. \A q \in Requests : call'[q].at \in {"store bundle", "read bundle"} =>
            call'[q].found \subseteq call'[q].denoted
    BY <1>8, <1>14 DEF LookupsInHand, FoundActorsHeldTheName, OthersWait, At
  <2>2. ASSUME NEW q \in Requests, NEW n \in AllNames, NEW j \in 1 .. 4,
               NEW d \in SUBSET Actors, Looking(q, n, j, d)'
        PROVE  Accounted(n, j, d)
    <3>1. CASE q # r
      BY <1>8, <2>2, <3>1 DEF LookupsInHand, Looking, OthersWait, Calls, Running, Arg, At
    <3>2. CASE q = r
      <4>1. step = "handler" /\ n = name /\ j = next /\ d = denoted
        BY <1>2, <1>8, <2>2, <3>2 DEF Looking, SameCall, SameRequest, Arg, At
      <4> QED
        BY <1>14, <4>1
    <3> QED
      BY <3>1, <3>2
  <2>3. \A n \in AllNames, j \in 1 .. 4, d \in SUBSET Actors :
            Accounted(n, j, d) => Accounted(n, j, d)'
    <3>1. \A n \in AllNames : Matches(2, n)' = Matches(2, n) /\ Matches(4, n)' = Matches(4, n)
      BY <1>1, DisplayMatches
    <3> QED
      BY <3>1 DEF Accounted
  <2> QED
    BY <2>1, <2>2, <2>3 DEF LookupsInHand, FoundActorsHeldTheName, At
<1>16. TokensInHand' /\ SessionsInHand' /\ NumbersInHand'
  BY <1>1, <1>8, HandlerKeepsTheRest DEF Steps
<1> QED
  BY <1>9, <1>10, <1>11, <1>12, <1>15, <1>16

\* A bundle is stored: a caller that renames meanwhile is noted.
LEMMA StoreBundleKeeps ==
    ASSUME AgentsStrongInv, NEW r \in Requests, UNCHANGED Rest, StoreBundle(r)
    PROVE  AgentsStrongInv'
<1> USE DEF AgentsStrongInv
<1>1. /\ At(r, "store bundle") /\ Calls(r, "set_key_bundle") /\ Running(r)
      /\ UNCHANGED <<actors, nickname>>
  BY DEF StoreBundle, CallsOK, Calls
<1>2. PICK a \in Actors : a = Caller(r) /\ a \in actors
  BY <1>1, RunningCall
<1>3. PICK name \in AllNames : name = Arg(r)
  BY <1>1, RunningCall DEF Calls
<1>4. Shaped /\ OthersWait(r) /\ call'[r].at = "answer" /\ SameCall(r) /\ SameFound(r)
  BY <1>1, RunningCall, ReturnEffect DEF StoreBundle
<1>5. /\ unlocked \subseteq unlocked' /\ unlocked' \subseteq unlocked \union {a}
      /\ a \notin unlocked' => \A q \in Requests \ {r} : Calls(q, "set_profile") => Caller(q) # a
  BY <1>1, <1>2 DEF StoreBundle, BothRun
<1>6. /\ bundle' \in [Actors -> AllNames \union {None}] /\ bundle'[a] = name
      /\ \A b \in Actors \ {a} : bundle'[b] = bundle[b]
  <2>1. bundle' = [bundle EXCEPT ![a] = name]
    BY <1>2, <1>3 DEF StoreBundle
  <2>2. bundle \in [Actors -> AllNames \union {None}]
    BY DEF TypeOK
  <2> QED
    BY <2>1, <2>2
<1>7. TypeOK'
  BY <1>1, <1>2, <1>4, <1>5, <1>6, RunningCall, HandlerKeepsTypes DEF SameFound, TypeOK
<1>8. CallsOK'
  BY <1>4 DEF CallsOK, Shaped, OthersWait, Calls, Running, At
<1>9. OneHolder'
  BY <1>1 DEF OneHolder
<1>10. LookupsInHand'
  BY <1>1, <1>4, LookupsStay DEF OthersWait
<1>11. BundlesInHand'
  <2>1. a \notin unlocked => OwnName(a, name)
    BY <1>1, <1>2, <1>3 DEF BundlesInHand
  <2>2. ASSUME NEW b \in Actors, b \notin unlocked', bundle'[b] # None
        PROVE  OwnName(b, bundle'[b])
    <3>1. CASE b # a
      BY <1>5, <1>6, <2>2, <3>1 DEF BundlesInHand
    <3>2. CASE b = a
      BY <1>5, <1>6, <2>1, <2>2, <3>2
    <3> QED
      BY <3>1, <3>2
  <2>3. ASSUME NEW q \in Requests, q # r, Running(q), Caller(q) \notin unlocked'
        PROVE  /\ At(q, "store bundle") => OwnName(Caller(q), Arg(q))
               /\ At(q, "write profile") /\ bundle'[Caller(q)] # None =>
                     \/ Fold[DisplayName[Caller(q)]] = Fold[bundle'[Caller(q)]]
                     \/ nickname[Caller(q)] = Arg(q)
    <3>1. PICK b \in Actors : b = Caller(q)
      BY <2>3, RunningCall
    <3>2. /\ At(q, "store bundle") => OwnName(b, Arg(q))
          /\ At(q, "write profile") /\ bundle[b] # None =>
                Fold[DisplayName[b]] = Fold[bundle[b]] \/ nickname[b] = Arg(q)
      BY <1>5, <2>3, <3>1 DEF BundlesInHand
    <3>3. At(q, "write profile") => b # a
      BY <1>5, <2>3, <3>1 DEF CallsOK
    <3> QED
      BY <1>6, <3>1, <3>2, <3>3
  <2> QED
    BY <1>1, <1>4, <2>2, <2>3 DEF BundlesInHand, OwnName, OthersWait, Running, Caller, Arg, At
<1>12. TokensInHand' /\ SessionsInHand' /\ NumbersInHand'
  BY <1>1, <1>4, HandlerKeepsTheRest DEF Steps
<1> QED
  BY <1>7, <1>8, <1>9, <1>10, <1>11, <1>12

\* A handler's step.
LEMMA RunKeeps ==
    ASSUME AgentsStrongInv, NEW r \in Requests, Run(r)
    PROVE  AgentsStrongInv'
<1>1. UNCHANGED Rest
  BY DEF Run, Rest
<1>2. CASE ReadBundle(r)
  <2>1. PICK isError \in BOOLEAN : isError <=> \A a \in call[r].found : bundle[a] = None
    OBVIOUS
  <2>2. isError = (\A a \in call[r].found : bundle[a] = None)
    BY <2>1
  <2>3. Return(r, isError) /\ UNCHANGED <<actors, nickname, bundle, unlocked>>
    BY <1>2, <2>2 DEF ReadBundle
  <2>4. Running(r)
    BY <1>2 DEF ReadBundle, Running, At
  <2> QED
    BY <1>1, <2>3, <2>4, ReturnKeeps
<1>3. CASE SendSecret(r)
  <2>1. PICK isError \in BOOLEAN : Return(r, isError)
    BY <1>3 DEF SendSecret
  <2>2. Running(r) /\ UNCHANGED <<actors, nickname, bundle, unlocked>>
    BY <1>3 DEF SendSecret, Calls
  <2> QED
    BY <1>1, <2>1, <2>2, ReturnKeeps
<1> QED
  BY <1>1, <1>2, <1>3, CheckProfileKeeps, WriteProfileKeeps, LookupKeeps, StoreBundleKeeps
  DEF Run, Handle

------------------------------------------------------------------------------
(* Each step of the registrar and of the audit log keeps the invariant.    *)

\* A row says who gave itself which name, when, or nothing.
LEMMA AuditRowTyped ==
    ASSUME AgentsStrongInv, NEW r \in Requests, At(r, "answer")
    PROVE  AuditRow(r) \in
              [actor : Actors, tool : Naming, name : AllNames, calledAt : 1 .. started]
              \union {OtherRow}
<1> USE DEF AgentsStrongInv
<1>1. ~At(r, "idle")
  BY DEF At
<1>2. Caller(r) \in Actors /\ call[r].command \in Commands /\ call[r].number \in 1 .. started
  BY <1>1, BusyLocals DEF Caller, NumbersInHand
<1>3. call[r].command.tool \in Naming => Arg(r) \in AllNames
  BY <1>2, CommandShapes DEF Naming, Arg
<1> QED
  BY <1>2, <1>3 DEF AuditRow, Row

\* The answer goes out, and its row is to be written.
LEMMA AnswerKeeps ==
    ASSUME AgentsStrongInv, NEW r \in Requests, Answer(r)
    PROVE  AgentsStrongInv'
<1> USE DEF AgentsStrongInv, accessVars
<1>1. /\ At(r, "answer") /\ ~At(r, "idle")
      /\ unwritten' = unwritten \union {AuditRow(r)}
      /\ UNCHANGED <<actors, nickname, bundle, unlocked, accessVars, audit, lost, started,
                     admin, inForce, toldRevoked>>
  BY DEF Answer, At
<1>2. Shaped /\ OthersWait(r) /\ call'[r].at = "idle"
  BY HangupEffect DEF Answer
<1>5. TypeOK'
  <2>1. unwritten' \union audit' \union lost' \subseteq
            [actor : Actors, tool : Naming, name : AllNames, calledAt : 1 .. started]
            \union {OtherRow}
    BY <1>1, AuditRowTyped DEF TypeOK
  <2> QED
    BY <1>1, <1>2, <2>1 DEF TypeOK, Running, Caller, OthersWait
<1>6. CallsOK'
  BY <1>2 DEF CallsOK, Shaped, OthersWait, Calls, Running, At
<1>7. OneHolder' /\ BundlesInHand' /\ LookupsInHand'
  BY <1>1, <1>2, OutsideKeepsNames DEF OthersWait
<1>8. TokensInHand'
  BY <1>1, <1>2 DEF TokensInHand, OutageIsNotRevocation, OthersWait, At
<1>9. SessionsInHand'
  BY <1>1, <1>2 DEF SessionsInHand, CallsAreAuthorised, Running, Caller, OthersWait
<1>10. NumbersInHand'
  BY <1>1, <1>2 DEF NumbersInHand, OthersWait, Running, At
<1> QED
  BY <1>5, <1>6, <1>7, <1>8, <1>9, <1>10

\* What the audit log's goroutines leave alone.
LEMMA AuditKeepsTheRest ==
    ASSUME AgentsStrongInv, NEW row \in unwritten,
           unwritten' = unwritten \ {row},
           \/ audit' = audit \union {row} /\ UNCHANGED lost
           \/ lost' = lost \union {row} /\ UNCHANGED audit,
           UNCHANGED <<nameVars, accessVars, started, admin, inForce, toldRevoked>>
    PROVE  AgentsStrongInv'
<1> USE DEF AgentsStrongInv, nameVars, accessVars
<1>1. unwritten' \union audit' \union lost' = unwritten \union audit \union lost
  OBVIOUS
<1>2. TypeOK'
  BY <1>1 DEF TypeOK, Running, Caller
<1>3. TokensInHand' /\ SessionsInHand'
  BY
  DEF TokensInHand, OutageIsNotRevocation, SessionsInHand, CallsAreAuthorised, Running, Caller, At
<1>4. NumbersInHand'
  BY DEF NumbersInHand, Running, At
<1> QED
  BY <1>2, <1>3, <1>4, CallsStay

\* The row is inserted, or logged only.
LEMMA AuditLogKeeps ==
    ASSUME AgentsStrongInv, NEW row \in unwritten, WriteAudit(row) \/ LoseAudit(row)
    PROVE  AgentsStrongInv'
  BY AuditKeepsTheRest DEF WriteAudit, LoseAudit

\* A restart: no call runs, no session is open, the unwritten rows are lost.
LEMMA RestartKeeps ==
    ASSUME AgentsStrongInv, Restart
    PROVE  AgentsStrongInv'
<1> USE DEF AgentsStrongInv
<1>1. /\ session' = [a \in Actors |-> None] /\ inForce' = [a \in Actors |-> {}]
      /\ lost' = lost \union unwritten \union Unrecorded /\ unwritten' = {}
      /\ UNCHANGED <<actors, nickname, bundle, unlocked, token, allowlist, audit, started,
                     admin, toldRevoked>>
  BY DEF Restart
<1>2. Shaped /\ \A r \in Requests : call'[r].at = "idle"
  BY DEF Restart, Shaped, Idle
<1>3. TypeOK'
  <2>1. unwritten' \union audit' \union lost' \subseteq
            [actor : Actors, tool : Naming, name : AllNames, calledAt : 1 .. started]
            \union {OtherRow}
    BY <1>1, AuditRowTyped DEF TypeOK, Unrecorded
  <2> QED
    BY <1>1, <1>2, <2>1 DEF TypeOK, Running
<1>4. CallsOK'
  BY <1>2 DEF CallsOK, Shaped, At
<1>5. OneHolder' /\ BundlesInHand' /\ LookupsInHand'
  BY <1>1, <1>2, OutsideKeepsNames
<1>6. TokensInHand'
  BY <1>1, <1>2 DEF TokensInHand, OutageIsNotRevocation, At
<1>7. SessionsInHand'
  BY <1>1, <1>2 DEF SessionsInHand, CallsAreAuthorised, Running
<1>8. NumbersInHand'
  BY <1>2 DEF NumbersInHand, Running, At
<1> QED
  BY <1>3, <1>4, <1>5, <1>6, <1>7, <1>8

------------------------------------------------------------------------------
(* Who named whom what, by the audit rows.                                 *)

\* The audit rows, wherever they are.
Rows == unwritten \union audit \union lost \union Unrecorded

\* The rows tell who named whom what; and a call that runs started after the calls of
\* its tool that its actor has rows of, if none outran another.
NamesShown ==
    /\ AuditTellsWhoNamedWhat
    /\ \A r \in Requests, a \in Actors \ outrun, tool \in Naming :
          Calls(r, tool) /\ Caller(r) = a =>
              \A row \in Succeeded(a, tool) : row.calledAt < call[r].number

\* Rows are of calls that have started.
LEMMA RowsAreOfTheStarted ==
    ASSUME AgentsStrongInv, NEW a \in Actors, NEW tool, NEW row \in Succeeded(a, tool)
    PROVE  row.calledAt \in 1 .. started
<1>1. row \in [actor : Actors, tool : Naming, name : AllNames, calledAt : 1 .. started]
              \union {OtherRow}
  BY AuditRowTyped DEF AgentsStrongInv, TypeOK, Succeeded, Unrecorded
<1>2. row # OtherRow
  BY NamesAssumption DEF Succeeded, OtherRow
<1> QED
  BY <1>1, <1>2

\* The rows of a tool's calls do not depend on those that are all alike.
LEMMA SucceededStay ==
    ASSUME Rows' \subseteq Rows \union {OtherRow}, Rows \subseteq Rows' \union {OtherRow},
           NEW a \in Actors, NEW tool
    PROVE  Succeeded(a, tool)' = Succeeded(a, tool)
<1>1. OtherRow.actor # a
  BY NamesAssumption DEF OtherRow
<1>2. /\ Succeeded(a, tool) = {row \in Rows : row.actor = a /\ row.tool = tool}
      /\ Succeeded(a, tool)' = {row \in Rows' : row.actor = a /\ row.tool = tool}
  BY DEF Succeeded, Rows
<1> QED
  BY <1>1, <1>2

\* Rows stay as they are when no call returns and none that has is answered.
LEMMA RowsStay ==
    ASSUME UNCHANGED auditVars,
           \A q \in Requests : At(q, "answer") => call'[q] = call[q],
           \A q \in Requests : call'[q].at = "answer" => At(q, "answer")
    PROVE  Rows' = Rows
<1>1. {q \in Requests : At(q, "answer")}' = {q \in Requests : At(q, "answer")}
  BY DEF At
<1>2. \A q \in Requests : At(q, "answer") => AuditRow(q)' = AuditRow(q)
  BY DEF AuditRow, Row, Caller, Arg
<1>3. Unrecorded' = Unrecorded
  BY <1>1, <1>2 DEF Unrecorded
<1> QED
  BY <1>3 DEF Rows, auditVars

\* A step that names nobody keeps what is shown, if calls go on, or start.
LEMMA NamesStay ==
    ASSUME AgentsStrongInv, NamesShown, UNCHANGED <<nickname, bundle>>, outrun \subseteq outrun',
           Rows' \subseteq Rows \union {OtherRow}, Rows \subseteq Rows' \union {OtherRow},
           \A q \in Requests : Running(q)' =>
              \/ /\ Running(q) /\ call'[q].number = call[q].number
                 /\ call'[q].actor = call[q].actor /\ call'[q].command = call[q].command
              \/ \A n \in 1 .. started : n < call'[q].number
    PROVE  NamesShown'
<1>1. \A a \in Actors, tool \in Naming : Succeeded(a, tool)' = Succeeded(a, tool)
  BY SucceededStay
<1>2. AuditTellsWhoNamedWhat'
  BY <1>1 DEF NamesShown, AuditTellsWhoNamedWhat, Naming
<1>3. ASSUME NEW q \in Requests, NEW a \in Actors \ outrun', NEW tool \in Naming,
             Calls(q, tool)', Caller(q)' = a, NEW row \in Succeeded(a, tool)
      PROVE  row.calledAt < call'[q].number
  <2>1. CASE \A n \in 1 .. started : n < call'[q].number
    BY <2>1, RowsAreOfTheStarted
  <2>2. CASE /\ Running(q) /\ call'[q].number = call[q].number
             /\ call'[q].actor = call[q].actor /\ call'[q].command = call[q].command
    <3>1. Calls(q, tool) /\ Caller(q) = a
      BY <1>3, <2>2 DEF Calls, Caller
    <3> QED
      BY <2>2, <3>1 DEF NamesShown
  <2> QED
    BY <1>3, <2>1, <2>2 DEF Calls
<1> QED
  BY <1>1, <1>2, <1>3 DEF NamesShown

\* A call that has just been written shows, if it outran none: it started last.
LEMMA NewestNameShows ==
    ASSUME AgentsStrongInv, NamesShown, NEW r \in Requests, NEW tool \in Naming, Calls(r, tool),
           NEW a \in Actors, a = Caller(r), NEW name \in AllNames, name = Arg(r),
           UNCHANGED auditVars, OthersWait(r), SameCall(r), call'[r].at = "answer",
           call'[r].isError = FALSE,
           outrun \subseteq outrun',
           a \notin outrun' => \A q \in Requests :
              Calls(q, tool) /\ Caller(q) = a => ~(call[q].number < call[r].number),
           \/ /\ tool = "set_profile" /\ UNCHANGED bundle /\ nickname'[a] = name
              /\ \A b \in Actors \ {a} : nickname'[b] = nickname[b]
           \/ /\ tool = "set_key_bundle" /\ UNCHANGED nickname /\ bundle'[a] = name
              /\ \A b \in Actors \ {a} : bundle'[b] = bundle[b]
    PROVE  NamesShown'
<1> USE DEF AgentsStrongInv
<1> DEFINE row == [actor |-> a, tool |-> tool, name |-> name, calledAt |-> call[r].number]
<1>1. AuditRow(r)' = row
  BY DEF AuditRow, Row, SameCall, SameRequest, Calls, Caller, Arg
<1>2. Rows' = Rows \union {row}
  <2>1. {q \in Requests : At(q, "answer")}' = {q \in Requests : At(q, "answer")} \union {r}
    BY DEF At, OthersWait
  <2>2. \A q \in Requests : At(q, "answer") => AuditRow(q)' = AuditRow(q)
    BY DEF AuditRow, Row, Caller, Arg, OthersWait, At, Calls, Running
  <2>3. Unrecorded' = Unrecorded \union {row}
    BY <1>1, <2>1, <2>2 DEF Unrecorded
  <2> QED
    BY <2>3 DEF Rows, auditVars
<1>3. row.actor = a /\ row.tool = tool /\ row.name = name /\ row.calledAt = call[r].number
  OBVIOUS
<1> HIDE DEF row
<1>4. \A b \in Actors, u \in Naming : Succeeded(b, u)' =
          IF b = a /\ u = tool THEN Succeeded(b, u) \union {row} ELSE Succeeded(b, u)
  <2>1. \A b \in Actors, u \in Naming :
            /\ Succeeded(b, u) = {x \in Rows : x.actor = b /\ x.tool = u}
            /\ Succeeded(b, u)' = {x \in Rows' : x.actor = b /\ x.tool = u}
    BY DEF Succeeded, Rows
  <2>2. ASSUME NEW b \in Actors, NEW u \in Naming
        PROVE  Succeeded(b, u)' = {x \in Rows : x.actor = b /\ x.tool = u}
                                      \union {x \in {row} : x.actor = b /\ x.tool = u}
    BY <1>2, <2>1
  <2>3. ASSUME NEW b \in Actors, NEW u \in Naming
        PROVE  {x \in {row} : x.actor = b /\ x.tool = u} =
                   IF b = a /\ u = tool THEN {row} ELSE {}
    BY <1>3
  <2>4. ASSUME NEW b \in Actors, NEW u \in Naming
        PROVE  Succeeded(b, u)' =
                   Succeeded(b, u) \union IF b = a /\ u = tool THEN {row} ELSE {}
    <3>1. {x \in Rows : x.actor = b /\ x.tool = u} = Succeeded(b, u)
      BY <2>1
    <3> QED
      BY <2>2, <2>3, <3>1
  <2> QED
    BY <2>4
<1>5. /\ call[r].number \in 1 .. started /\ started \in Nat
      /\ \A b \in Actors, u \in Naming : \A x \in Succeeded(b, u) : x.calledAt \in 1 .. started
  <2>1. call[r].number \in 1 .. started /\ started \in Nat
    BY NamesAssumption DEF NumbersInHand, Calls, TypeOK
  <2> QED
    BY <2>1, RowsAreOfTheStarted
<1>6. ASSUME NEW b \in Actors \ outrun', NEW u \in Naming,
             NEW value, value = IF u = "set_profile" THEN nickname[b] ELSE bundle[b],
             NEW new, new = IF u = "set_profile" THEN nickname'[b] ELSE bundle'[b]
      PROVE  ShownByNewest(Succeeded(b, u)', new)
  <2>1. ShownByNewest(Succeeded(b, u), value)
    BY <1>6 DEF NamesShown, AuditTellsWhoNamedWhat, Naming
  <2>2. CASE ~(b = a /\ u = tool)
    <3>1. new = value
      BY <1>6, <2>2 DEF Naming
    <3> QED
      BY <1>4, <2>1, <2>2, <3>1
  <2>3. CASE b = a /\ u = tool
    <3>1. new = name /\ name # None
      BY <1>6, <2>3, NamesAssumption
    <3>2. \A x \in Succeeded(b, u) : x.calledAt < row.calledAt /\ x.calledAt \in Nat
      BY <1>3, <1>5, <1>6, <2>3 DEF NamesShown
    <3>3. Succeeded(b, u)' = Succeeded(b, u) \union {row} /\ row.calledAt \in Nat
      BY <1>3, <1>4, <1>5, <2>3
    <3>4. ASSUME NEW x \in Succeeded(b, u)', \A y \in Succeeded(b, u)' : y.calledAt <= x.calledAt
          PROVE  x.name = new
      <4>1. row.calledAt <= x.calledAt
        BY <3>3, <3>4
      <4>2. x = row
        BY <3>2, <3>3, <4>1
      <4> QED
        BY <1>3, <3>1, <4>2
    <3> QED
      BY <3>1, <3>3, <3>4 DEF ShownByNewest
  <2> QED
    BY <2>2, <2>3
<1>7. AuditTellsWhoNamedWhat'
  <2>1. \A b \in Actors \ outrun' : ShownByNewest(Succeeded(b, "set_profile")', nickname'[b])
    BY <1>6 DEF Naming
  <2>2. \A b \in Actors \ outrun' : ShownByNewest(Succeeded(b, "set_key_bundle")', bundle'[b])
    BY <1>6 DEF Naming
  <2> QED
    BY <2>1, <2>2 DEF AuditTellsWhoNamedWhat, ShownByNewest
<1>8. ASSUME NEW q \in Requests, NEW b \in Actors \ outrun', NEW u \in Naming,
             Calls(q, u)', Caller(q)' = b, NEW x \in Succeeded(b, u)'
      PROVE  x.calledAt < call'[q].number
  <2>1. q # r
    BY <1>8 DEF Calls, Running
  <2>2. Calls(q, u) /\ Caller(q) = b /\ call'[q] = call[q]
    BY <1>8, <2>1 DEF OthersWait, Calls, Running, Caller
  <2>3. CASE x \in Succeeded(b, u)
    BY <1>8, <2>2, <2>3 DEF NamesShown
  <2>4. CASE x = row /\ b = a /\ u = tool
    <3>1. ~(call[q].number < call[r].number) /\ call[q].number # call[r].number
      BY <1>8, <2>1, <2>2, <2>4 DEF NumbersInHand, Calls
    <3>2. call[q].number \in 1 .. started
      BY <2>2 DEF NumbersInHand, Calls
    <3> QED
      BY <1>3, <1>5, <2>2, <2>4, <3>1, <3>2
  <2> QED
    BY <1>4, <1>8, <2>3, <2>4
<1> QED
  BY <1>7, <1>8 DEF NamesShown

\* The operator's steps and those of a call that does not run name nobody.
LEMMA OutsideKeepsShown ==
    ASSUME AgentsStrongInv, NamesShown, UNCHANGED <<nickname, bundle, outrun, auditVars>>,
           \A q \in Requests : At(q, "answer") => call'[q] = call[q],
           \A q \in Requests : call'[q].at = "answer" => At(q, "answer"),
           \A q \in Requests : Running(q)' =>
              \/ /\ Running(q) /\ call'[q].number = call[q].number
                 /\ call'[q].actor = call[q].actor /\ call'[q].command = call[q].command
              \/ \A n \in 1 .. started : n < call'[q].number
    PROVE  NamesShown'
<1>1. Rows' = Rows
  BY RowsStay
<1> QED
  BY <1>1, NamesStay

\* An agent is created.
LEMMA CreateAgentKeepsShown ==
    ASSUME AgentsStrongInv, NamesShown, NEW a \in Actors, CreateAgent(a)
    PROVE  NamesShown'
<1>1. call' = [r \in Requests |->
          IF At(r, "handler") THEN [call[r] EXCEPT !.denoted = Actors] ELSE call[r]]
  BY DEF CreateAgent
<1>2. UNCHANGED <<nickname, bundle, outrun, auditVars>>
  BY DEF CreateAgent
<1>3. \A q \in Requests : At(q, "handler") => call[q] \in Busy
  BY BusyLocals DEF AgentsStrongInv, At
<1>4. \A q \in Requests :
          /\ call'[q].at = call[q].at /\ call'[q].number = call[q].number
          /\ call'[q].actor = call[q].actor /\ call'[q].command = call[q].command
          /\ ~At(q, "handler") => call'[q] = call[q]
  BY <1>1, <1>3 DEF Busy
<1> QED
  BY <1>2, <1>4, OutsideKeepsShown DEF Running, At

\* A request arrives, is turned away, or its call starts.
LEMMA CallerKeepsShown ==
    ASSUME AgentsStrongInv, NamesShown, NEW r \in Requests,
           \/ \E t \in Tokens, c \in Commands : Arrive(r, t, c)
           \/ Authenticate(r) \/ Unavailable(r) \/ LoadActor(r)
    PROVE  NamesShown'
<1>1. ~Running(r) /\ ~At(r, "answer") /\ UNCHANGED <<nickname, bundle, outrun, auditVars>>
  BY DEF Arrive, Authenticate, Unavailable, LoadActor, CallTool, Unchanged, Running, At
<1>2. /\ OthersWait(r) /\ call'[r].at # "answer"
      /\ Running(r)' => \A n \in 1 .. started : n < call'[r].number
  <2>1. CallsOK /\ started \in 0 .. MaxCalls /\ call \in [Requests -> {Idle} \union Busy]
    BY DEF AgentsStrongInv, TypeOK, CallsOK
  <2>2. CASE \E t \in Tokens, c \in Commands : Arrive(r, t, c)
    BY <2>1, <2>2 DEF Arrive, OthersWait, Running
  <2>3. CASE Hangup(r)
    BY <2>1, <2>3, HangupEffect DEF Running
  <2>4. CASE At(r, "authenticate") /\ Goto(r, "load actor")
    BY <2>1, <2>4, GotoEffect DEF Steps, Running, At
  <2>5. CASE At(r, "load actor") /\ Start(r)
    <3>1. OthersWait(r) /\ call'[r].at = "handler" /\ call'[r].number = started + 1
      BY <2>1, <2>5, StartEffect DEF At
    <3> QED
      BY <2>1, <3>1, NamesAssumption
  <2> QED
    BY <2>2, <2>3, <2>4, <2>5 DEF Authenticate, Unavailable, LoadActor, CallTool
<1>3. \A q \in Requests : q # r => call'[q] = call[q]
  BY <1>2 DEF OthersWait
<1> QED
  BY <1>1, <1>2, <1>3, OutsideKeepsShown DEF Running, At

\* A handler's step that names nobody: what it returns has a row like any other.
LEMMA QuietStepKeepsShown ==
    ASSUME AgentsStrongInv, NamesShown, NEW r \in Requests, Running(r),
           UNCHANGED <<nickname, bundle, auditVars>>, outrun \subseteq outrun',
           OthersWait(r), SameCall(r),
           call'[r].at = "answer" => \/ call'[r].isError = TRUE
                                     \/ call[r].command.tool \notin Naming
    PROVE  NamesShown'
<1>1. call'[r].at = "answer" => AuditRow(r)' = OtherRow
  BY DEF AuditRow, Row, SameCall, SameRequest
<1>2. \A q \in Requests : q # r => call'[q] = call[q] /\ AuditRow(q)' = AuditRow(q)
  BY DEF OthersWait, AuditRow, Row, Caller, Arg
<1>3. ~At(r, "answer")
  BY DEF Running, At
<1>4. Unrecorded' \subseteq Unrecorded \union {OtherRow} /\ Unrecorded \subseteq Unrecorded'
  BY <1>1, <1>2, <1>3 DEF Unrecorded, At
<1>5. Rows' \subseteq Rows \union {OtherRow} /\ Rows \subseteq Rows' \union {OtherRow}
  BY <1>4 DEF Rows, auditVars
<1>6. \A q \in Requests : Running(q)' =>
          /\ Running(q) /\ call'[q].number = call[q].number
          /\ call'[q].actor = call[q].actor /\ call'[q].command = call[q].command
  BY <1>2 DEF SameCall, SameRequest, Running
<1> QED
  BY <1>5, <1>6, NamesStay

\* A handler's step: a rename or a publication is the newest, or outran an earlier one.
LEMMA RunKeepsShown ==
    ASSUME AgentsStrongInv, NamesShown, NEW r \in Requests, Run(r)
    PROVE  NamesShown'
<1> USE DEF AgentsStrongInv
<1>1. /\ UNCHANGED auditVars /\ outrun \subseteq outrun'
      /\ outrun' = outrun \union {a \in {Caller(r)} : Outruns(r)}
  BY DEF Run
<1>2. Running(r)
  BY DEF Run, Handle, CheckProfile, WriteProfile, Lookup, StoreBundle, ReadBundle, SendSecret,
         Calls, Running, At
<1>3. call[r].isError = TRUE /\ Caller(r) \in Actors /\ ~At(r, "idle")
  BY <1>2, RunningCall DEF CallsOK, Running, At
<1>4. ASSUME UNCHANGED <<nickname, bundle>>, NEW isError \in BOOLEAN, Return(r, isError),
             isError = TRUE \/ call[r].command.tool \notin Naming
      PROVE  NamesShown'
  BY <1>1, <1>2, <1>3, <1>4, ReturnEffect, QuietStepKeepsShown
<1>5. CASE CheckProfile(r)
  <2>1. CASE Return(r, TRUE)
    BY <1>4, <1>5, <2>1 DEF CheckProfile
  <2>2. CASE Goto(r, "write profile")
    <3>1. OthersWait(r) /\ SameCall(r) /\ call'[r].at = "write profile"
      BY <1>3, <2>2, GotoEffect DEF Steps
    <3> QED
      BY <1>1, <1>2, <1>5, <3>1, QuietStepKeepsShown DEF CheckProfile
  <2> QED
    BY <1>5, <2>1, <2>2 DEF CheckProfile
<1>6. ASSUME NEW tool \in Naming, Calls(r, tool), Return(r, FALSE),
             At(r, "write profile") \/ At(r, "store bundle"),
             \/ /\ tool = "set_profile" /\ UNCHANGED bundle
                /\ nickname' = [nickname EXCEPT ![Caller(r)] = Arg(r)]
             \/ /\ tool = "set_key_bundle" /\ UNCHANGED nickname
                /\ bundle' = [bundle EXCEPT ![Caller(r)] = Arg(r)]
      PROVE  NamesShown'
  <2>1. PICK a \in Actors : a = Caller(r)
    BY <1>3
  <2>2. PICK name \in AllNames : name = Arg(r)
    BY <1>2, <1>6, RunningCall DEF Calls, Naming
  <2>3. /\ OthersWait(r) /\ SameCall(r) /\ call'[r].at = "answer" /\ call'[r].isError = FALSE
    BY <1>3, <1>6, ReturnEffect
  <2>4. a \notin outrun' => \A q \in Requests :
            Calls(q, tool) /\ Caller(q) = a => ~(call[q].number < call[r].number)
    <3>1. call[r].command.tool = tool
      BY <1>6 DEF Calls
    <3> QED
      BY <1>1, <1>6, <2>1, <3>1 DEF Outruns
  <2>5. \/ /\ tool = "set_profile" /\ UNCHANGED bundle /\ nickname'[a] = name
           /\ \A b \in Actors \ {a} : nickname'[b] = nickname[b]
        \/ /\ tool = "set_key_bundle" /\ UNCHANGED nickname /\ bundle'[a] = name
           /\ \A b \in Actors \ {a} : bundle'[b] = bundle[b]
    BY <1>6, <2>1, <2>2 DEF TypeOK
  <2>6. UNCHANGED auditVars /\ outrun \subseteq outrun' /\ Calls(r, tool)
    BY <1>1, <1>6
  <2> HIDE DEF AgentsStrongInv
  <2> QED
    BY <2>1, <2>2, <2>3, <2>4, <2>5, <2>6, NewestNameShows
<1>7. CASE WriteProfile(r)
  <2>1. CASE NicknameTaken(Caller(r), Arg(r))
    BY <1>4, <1>7, <2>1 DEF WriteProfile
  <2>2. CASE ~NicknameTaken(Caller(r), Arg(r))
    BY <1>6, <1>7, <2>2 DEF WriteProfile, CallsOK, Naming
  <2> QED
    BY <2>1, <2>2
<1>8. CASE Lookup(r)
  <2>1. call[r] \in Busy /\ call \in [Requests -> {Idle} \union Busy]
    BY <1>2, RunningCall DEF CallsOK
  <2> DEFINE matched == Matches(Precedence[call[r].lookup], Arg(r))
             next == matched = {} /\ call[r].lookup < 4
             denoted == call[r].denoted \union Denoted(Arg(r))
             lookup == IF next THEN call[r].lookup + 1 ELSE call[r].lookup
             step == IF next THEN call[r].at ELSE AfterLookup(r, Sole(matched))
  <2>2. call' = [call EXCEPT ![r] = [call[r] EXCEPT
            !.denoted = denoted, !.lookup = lookup, !.found = Sole(matched), !.at = step]]
    BY <1>8 DEF Lookup
  <2> HIDE DEF matched, denoted, lookup, step
  <2>3. OthersWait(r) /\ SameCall(r) /\ call'[r].isError = call[r].isError
    BY <2>1, <2>2 DEF OthersWait, SameCall, SameRequest, Busy
  <2> QED
    BY <1>1, <1>2, <1>3, <1>8, <2>3, QuietStepKeepsShown DEF Lookup
<1>9. CASE StoreBundle(r)
  BY <1>6, <1>9 DEF StoreBundle, CallsOK, Naming
<1>10. CASE ReadBundle(r)
  <2>1. PICK isError \in BOOLEAN : isError <=> \A a \in call[r].found : bundle[a] = None
    OBVIOUS
  <2>2. isError = (\A a \in call[r].found : bundle[a] = None)
    BY <2>1
  <2>3. Return(r, isError) /\ UNCHANGED <<nickname, bundle>>
    BY <1>10, <2>2 DEF ReadBundle
  <2>4. call[r].command.tool \notin Naming
    BY <1>10 DEF ReadBundle, CallsOK, Calls, Naming
  <2> QED
    BY <1>4, <2>3, <2>4
<1>11. CASE SendSecret(r)
  <2>1. PICK isError \in BOOLEAN : Return(r, isError)
    BY <1>11 DEF SendSecret
  <2>2. call[r].command.tool \notin Naming /\ UNCHANGED <<nickname, bundle>>
    BY <1>11 DEF SendSecret, Calls, Naming
  <2> QED
    BY <1>4, <2>1, <2>2
<1> QED
  BY <1>5, <1>7, <1>8, <1>9, <1>10, <1>11 DEF Run, Handle

\* Rows are moved, to the table or to be lost, and none with them.
LEMMA MovedRowsKeepShown ==
    ASSUME AgentsStrongInv, NamesShown, UNCHANGED <<nickname, bundle, outrun>>, Rows' = Rows,
           \A q \in Requests : Running(q)' => call'[q] = call[q]
    PROVE  NamesShown'
<1>1. \A q \in Requests : Running(q)' =>
          /\ Running(q) /\ call'[q].number = call[q].number
          /\ call'[q].actor = call[q].actor /\ call'[q].command = call[q].command
  BY DEF Running
<1> QED
  BY <1>1, NamesStay

\* The answer's row, and every row of the audit log's goroutines or of a restart, is
\* among the rows before and after.
LEMMA AuditLogKeepsShown ==
    ASSUME AgentsStrongInv, NamesShown,
           \/ \E r \in Requests : Answer(r)
           \/ \E row \in unwritten : WriteAudit(row) \/ LoseAudit(row)
           \/ Restart
    PROVE  NamesShown'
<1>1. UNCHANGED <<nickname, bundle, outrun>>
  BY DEF Answer, WriteAudit, LoseAudit, Restart, nameVars
<1>2. CASE \E r \in Requests : Answer(r)
  <2>1. PICK r \in Requests : Answer(r)
    BY <1>2
  <2>2. /\ At(r, "answer") /\ OthersWait(r) /\ call'[r].at = "idle"
        /\ unwritten' = unwritten \union {AuditRow(r)} /\ UNCHANGED <<audit, lost>>
    BY <2>1, HangupEffect DEF Answer, AgentsStrongInv
  <2>3. {q \in Requests : At(q, "answer")}' = {q \in Requests : At(q, "answer")} \ {r}
    BY <2>2 DEF OthersWait, At
  <2>4. \A q \in Requests : q # r => AuditRow(q)' = AuditRow(q)
    BY <2>2 DEF OthersWait, AuditRow, Row, Caller, Arg
  <2>5. Unrecorded' \union {AuditRow(r)} = Unrecorded
    BY <2>2, <2>3, <2>4 DEF Unrecorded
  <2>6. Rows' = Rows
    BY <2>2, <2>5 DEF Rows
  <2> QED
    BY <1>1, <2>2, <2>6, MovedRowsKeepShown DEF OthersWait, Running
<1>3. ASSUME NEW row \in unwritten, WriteAudit(row) \/ LoseAudit(row)
      PROVE  NamesShown'
  <2>1. call' = call /\ Unrecorded' = Unrecorded
    BY <1>3 DEF WriteAudit, LoseAudit, nameVars, Unrecorded, AuditRow, Row, Caller, Arg, At
  <2>2. Rows' = Rows
    BY <1>3, <2>1 DEF WriteAudit, LoseAudit, Rows
  <2> QED
    BY <1>1, <2>1, <2>2, MovedRowsKeepShown
<1>4. CASE Restart
  <2>1. /\ \A q \in Requests : call'[q].at = "idle"
        /\ lost' = lost \union unwritten \union Unrecorded /\ unwritten' = {} /\ audit' = audit
    BY <1>4 DEF Restart, Idle
  <2>2. Unrecorded' = {}
    BY <2>1 DEF Unrecorded, At
  <2>3. Rows' = Rows
    BY <2>1, <2>2 DEF Rows
  <2> QED
    BY <1>1, <2>1, <2>3, MovedRowsKeepShown DEF Running
<1> QED
  BY <1>2, <1>3, <1>4

\* At first there is no row and no name.
LEMMA InitShown == Init => NamesShown
<1> SUFFICES ASSUME Init PROVE NamesShown
  OBVIOUS
<1>1. \A r \in Requests : ~Running(r) /\ ~At(r, "answer")
  BY DEF Init, Idle, Running, At
<1>2. \A a, tool : Succeeded(a, tool) = {}
  BY <1>1 DEF Init, Succeeded, Unrecorded
<1> QED
  BY <1>1, <1>2 DEF Init, NamesShown, AuditTellsWhoNamedWhat, ShownByNewest, Calls

\* Every step keeps what the rows show.
LEMMA StepKeepsShown == AgentsStrongInv /\ NamesShown /\ [Next]_vars => NamesShown'
<1> SUFFICES ASSUME AgentsStrongInv, NamesShown, [Next]_vars PROVE NamesShown'
  OBVIOUS
<1>1. ASSUME NEW a \in Actors, CreateAgent(a)
      PROVE  NamesShown'
  BY <1>1, CreateAgentKeepsShown
<1>2. ASSUME UNCHANGED <<nameVars, auditVars, outrun>>
      PROVE  NamesShown'
  <2>1. UNCHANGED <<nickname, bundle, outrun, auditVars>> /\ call' = call
    BY <1>2 DEF nameVars
  <2> QED
    BY <2>1, OutsideKeepsShown DEF Running, At
<1>3. ASSUME NEW a \in Actors, NEW tools \in Allowlists, SetAllowlist(a, tools)
      PROVE  NamesShown'
  BY <1>2, <1>3 DEF SetAllowlist
<1>4. ASSUME NEW t \in Tokens, IssueToken(t)
      PROVE  NamesShown'
  BY <1>2, <1>4 DEF IssueToken
<1>5. ASSUME NEW tokens, Revoke(tokens)
      PROVE  NamesShown'
  BY <1>2, <1>5 DEF Revoke
<1>6. ASSUME NEW r \in Requests,
             \/ \E t \in Tokens, c \in Commands : Arrive(r, t, c)
             \/ Authenticate(r) \/ Unavailable(r) \/ LoadActor(r)
      PROVE  NamesShown'
  BY <1>6, CallerKeepsShown
<1>7. ASSUME NEW r \in Requests, Run(r)
      PROVE  NamesShown'
  BY <1>7, RunKeepsShown
<1>8. CASE \/ \E r \in Requests : Answer(r)
           \/ \E row \in unwritten : WriteAudit(row) \/ LoseAudit(row)
           \/ Restart
  BY <1>8, AuditLogKeepsShown
<1>9. CASE UNCHANGED vars
  BY <1>2, <1>9 DEF vars
<1> QED
  BY <1>1, <1>3, <1>4, <1>5, <1>6, <1>7, <1>8, <1>9 DEF Next

------------------------------------------------------------------------------
(* The theorems.                                                           *)

\* At first nobody has a nickname, a bundle, a session or a call.
LEMMA InitAgents == Init => AgentsStrongInv
<1> SUFFICES ASSUME Init PROVE AgentsStrongInv
  OBVIOUS
<1>1. \A r \in Requests : call[r] = Idle /\ call[r].at = "idle"
  BY DEF Init, Idle
<1>2. TypeOK
  <2>1. started \in 0 .. MaxCalls /\ admin \in 0 .. MaxAdmin
    BY NamesAssumption, AgentsAssumption DEF Init
  <2>2. \A r \in Requests : ~Running(r)
    BY <1>1 DEF Running
  <2> QED
    BY <2>1, <2>2, AgentsAssumption DEF Init, TypeOK
<1>3. CallsOK
  BY <1>1 DEF Init, CallsOK, At
<1>4. OneHolder /\ TokensInHand
  BY <1>1 DEF Init, OneHolder, TokensInHand, OutageIsNotRevocation, At
<1>5. SessionsInHand /\ BundlesInHand
  BY <1>1 DEF Init, SessionsInHand, CallsAreAuthorised, BundlesInHand, Running
<1>6. LookupsInHand /\ NumbersInHand
  BY <1>1 DEF Init, LookupsInHand, FoundActorsHeldTheName, Looking, NumbersInHand,
              Running, At
<1> QED
  BY <1>2, <1>3, <1>4, <1>5, <1>6 DEF AgentsStrongInv

\* Nothing changes in a stuttering step.
LEMMA StutterKeepsAgents ==
    ASSUME AgentsStrongInv, UNCHANGED vars
    PROVE  AgentsStrongInv'
<1> USE DEF AgentsStrongInv, vars, nameVars, accessVars, auditVars
<1>1. TypeOK'
  BY DEF TypeOK, Running, Caller
<1>2. TokensInHand' /\ SessionsInHand'
  BY
  DEF TokensInHand, OutageIsNotRevocation, SessionsInHand, CallsAreAuthorised, Running, Caller, At
<1>3. NumbersInHand'
  BY DEF NumbersInHand, Running, At
<1> QED
  BY <1>1, <1>2, <1>3, CallsStay

\* Every step keeps the invariant.
LEMMA StepKeepsAgents == AgentsStrongInv /\ [Next]_vars => AgentsStrongInv'
<1> SUFFICES ASSUME AgentsStrongInv, [Next]_vars PROVE AgentsStrongInv'
  OBVIOUS
<1>1. ASSUME NEW a \in Actors, CreateAgent(a) \/ \E tools \in Allowlists : SetAllowlist(a, tools)
      PROVE  AgentsStrongInv'
  BY <1>1, CreateAgentKeeps, SetAllowlistKeeps
<1>2. ASSUME NEW t \in Tokens, IssueToken(t) \/ \E c \in Commands, r \in Requests : Arrive(r, t, c)
      PROVE  AgentsStrongInv'
  BY <1>2, IssueTokenKeeps, ArriveKeeps
<1>3. ASSUME NEW tokens \in SUBSET Tokens, Revoke(tokens)
      PROVE  AgentsStrongInv'
  BY <1>3, RevokeKeeps
<1>4. ASSUME NEW t \in Tokens, Revoke({t})
      PROVE  AgentsStrongInv'
  BY <1>3, <1>4
<1>5. ASSUME NEW a \in Actors, Revoke({t \in Tokens : TokenOwner[t] = a})
      PROVE  AgentsStrongInv'
  BY <1>3, <1>5
<1>6. ASSUME NEW r \in Requests,
             Authenticate(r) \/ Unavailable(r) \/ LoadActor(r) \/ Run(r) \/ Answer(r)
      PROVE  AgentsStrongInv'
  BY <1>6, AuthenticateKeeps, UnavailableKeeps, LoadActorKeeps, RunKeeps, AnswerKeeps
<1>7. ASSUME NEW row \in unwritten, WriteAudit(row) \/ LoseAudit(row)
      PROVE  AgentsStrongInv'
  BY <1>7, AuditLogKeeps
<1>8. CASE Restart
  BY <1>8, RestartKeeps
<1>9. CASE UNCHANGED vars
  BY <1>9, StutterKeepsAgents
<1> QED
  BY <1>1, <1>2, <1>4, <1>5, <1>6, <1>7, <1>8, <1>9 DEF Next

\* The inductive invariant of calls from their token to their audit row, whatever the
\* operator and overlapping calls do in between.
THEOREM AgentsInvariant == Spec => []AgentsStrongInv
  BY InitAgents, StepKeepsAgents, PTL DEF Spec

\* Nicknames are unique (profile_repo.go:48-54), and only a revoked token is refused
\* with 401 (auth.go:49-63).
THEOREM NicknamesStayUnique == Spec => []AgentsInv
<1>1. AgentsStrongInv => AgentsInv
  BY DEF AgentsStrongInv, AgentsInv, OneHolder, NicknamesUnique, TypeOK, TokensInHand
<1> QED
  BY <1>1, AgentsInvariant, PTL

\* A published bundle carries a name of its owner's (profile_repo.go:56-72), unless the
\* owner renamed and published in calls that overlapped, or a failed read let it rename.
THEOREM BundlesNameTheirOwner == Spec => []BundleCarriesItsOwnersName
<1>1. AgentsStrongInv => BundleCarriesItsOwnersName
  <2> SUFFICES ASSUME AgentsStrongInv, NEW a \in actors \ unlocked, bundle[a] # None
               PROVE  \E name \in {DisplayName[a], nickname[a]} \ {None} :
                          Fold[name] = Fold[bundle[a]]
    BY DEF BundleCarriesItsOwnersName
  <2>1. a \in Actors /\ DisplayName[a] # None
    BY NamesAssumption DEF AgentsStrongInv, TypeOK
  <2>2. OwnName(a, bundle[a])
    BY <2>1 DEF AgentsStrongInv, BundlesInHand
  <2> QED
    BY <2>1, <2>2 DEF OwnName
<1> QED
  BY <1>1, AgentsInvariant, PTL

\* FindActorByName finds an actor its name denoted at one of the four queries
\* (thread_repo.go:261-274), whatever renames come between them.
THEOREM LookupsFindTheDenoted == Spec => []FoundActorsHeldTheName
<1>1. AgentsStrongInv => FoundActorsHeldTheName
  BY DEF AgentsStrongInv, LookupsInHand
<1> QED
  BY <1>1, AgentsInvariant, PTL

\* A handler runs only for a token that was live when its request arrived, and a tool
\* its actor's allowlist held since its session opened (auth.go:71-91).
THEOREM HandlersAreAuthorised == Spec => []CallsAreAuthorised
<1>1. AgentsStrongInv => CallsAreAuthorised
  BY DEF AgentsStrongInv, SessionsInHand
<1> QED
  BY <1>1, AgentsInvariant, PTL

\* Whatever order the rows reach the table in, the newest row of an actor's successful
\* set_profile, or set_key_bundle, by called_at is where its nickname, or bundle, comes
\* from (tool_calls.go:24, registrar.go:150-231), unless calls outran earlier ones.
THEOREM AuditTellsTheNames == Spec => []AuditTellsWhoNamedWhat
<1>1. Init => AgentsStrongInv /\ NamesShown
  BY InitAgents, InitShown
<1>2. AgentsStrongInv /\ NamesShown /\ [Next]_vars => (AgentsStrongInv /\ NamesShown)'
  BY StepKeepsAgents, StepKeepsShown
<1>3. NamesShown => AuditTellsWhoNamedWhat
  BY DEF NamesShown
<1> QED
  BY <1>1, <1>2, <1>3, PTL DEF Spec

==============================================================================
