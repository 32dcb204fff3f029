------------------------------- MODULE Agents -------------------------------
(***************************************************************************)
(* A tool call from its bearer token to its audit row, with the operator's *)
(* changes to tokens and tool allowlists, and restarts of the server, in   *)
(* between.  The handlers are those of Names.tla.                          *)
(*                                                                         *)
(* The MCP library, external to this code, calls a tool with the context   *)
(* of the call's own HTTP request or of the request that opened the MCP    *)
(* session: either actor row may be the one the registrar sees.            *)
(***************************************************************************)
EXTENDS Names

CONSTANTS
    Founders,         \* the actors that exist at first; the others may be created
    Tokens,
    TokenOwner,       \* the actor each token is issued to, if it ever is
    Issued,           \* the tokens that are live at first
    Commands,         \* bound: the tool calls that are tried, with their argument
    Allowlists,       \* bound: the allowlists the operator sets; AllTools: no restriction
    MaxAdmin          \* bound: revocations and allowlists set

AllTools == {"set_profile", "set_key_bundle", "get_key_bundle", "send_secret"}

ASSUME AgentsAssumption ==
    /\ Founders \subseteq Actors
    /\ TokenOwner \in [Tokens -> Actors]
    /\ Issued \subseteq Tokens
    /\ Commands \subseteq
          [tool : AllTools \ {"send_secret"}, arg : AllNames]
          \union [tool : {"send_secret"}, arg : {"envelope"}]
    /\ Allowlists \subseteq SUBSET AllTools
    /\ MaxAdmin \in Nat
    /\ \A tools \in SUBSET AllTools : tools # None

VARIABLES
    token,        \* "unissued", "live" or "revoked"
    allowlist,    \* actors.tool_allowlist, as a set of tools
    session,      \* the allowlist in the context of each actor's open session, None without
    unwritten,    \* audit rows of goroutines that have not reached the database
    audit,        \* the table tool_calls
    started,      \* calls of tools that have started: the clock of called_at
    admin,        \* revocations, and allowlists set
    inForce,      \* history: tools an actor's allowlist held since its session opened
    toldRevoked,  \* history: tokens refused with 401
    lost,         \* history: audit rows that a fault destroyed
    outrun        \* history: actors whose call of a tool wrote before an earlier one of it

accessVars == <<token, allowlist, session>>
auditVars == <<unwritten, audit, lost>>
vars == <<nameVars, accessVars, auditVars, started, admin, inForce, toldRevoked, outrun>>

Init ==
    /\ actors = Founders
    /\ nickname = [a \in Actors |-> None] /\ bundle = [a \in Actors |-> None]
    /\ unlocked = {}
    /\ call = [r \in Requests |-> Idle]
    /\ token = [t \in Tokens |-> IF t \in Issued THEN "live" ELSE "unissued"]
    /\ allowlist = [a \in Actors |-> AllTools]
    /\ session = [a \in Actors |-> None]
    /\ unwritten = {} /\ audit = {} /\ lost = {}
    /\ started = 0 /\ admin = 0
    /\ inForce = [a \in Actors |-> {}] /\ toldRevoked = {} /\ outrun = {}

------------------------------------------------------------------------------
(* The operator: restapi/agents.go.                                        *)

Admin == admin < MaxAdmin /\ admin' = admin + 1

\* createAgentHandler.  It excuses a lookup under way: the newcomer's display
\* name may take the name over for later queries only.
CreateAgent(a) ==
    /\ a \notin actors
    /\ actors' = actors \union {a}
    /\ call' = [r \in Requests |->
          IF At(r, "handler") THEN [call[r] EXCEPT !.denoted = Actors] ELSE call[r]]
    /\ UNCHANGED <<nickname, bundle, unlocked, accessVars, auditVars, started, admin,
                   inForce, toldRevoked, outrun>>

\* issueTokenHandler: nothing asks whether the agent exists, or was deleted.
IssueToken(t) ==
    /\ token[t] = "unissued"
    /\ token' = [token EXCEPT ![t] = "live"]
    /\ UNCHANGED <<nameVars, allowlist, session, auditVars, started, admin, inForce,
                   toldRevoked, outrun>>

\* revokeTokenHandler (one token) and deleteAgentHandler (all of an agent's).
Revoke(tokens) ==
    /\ Admin
    /\ \E t \in tokens : token[t] = "live"
    /\ token' = [t \in Tokens |->
          IF t \in tokens /\ token[t] = "live" THEN "revoked" ELSE token[t]]
    /\ UNCHANGED <<nameVars, allowlist, session, auditVars, started, inForce, toldRevoked, outrun>>

\* setAllowlistHandler.  Sessions keep the row they were opened with.
SetAllowlist(a, tools) ==
    /\ Admin
    /\ a \in actors /\ allowlist[a] # tools
    /\ allowlist' = [allowlist EXCEPT ![a] = tools]
    /\ inForce' = [inForce EXCEPT ![a] = @ \union tools]
    /\ UNCHANGED <<nameVars, token, session, auditVars, started, toldRevoked, outrun>>

------------------------------------------------------------------------------
(* Authentication: auth.go.                                                *)

\* Requests whose call has not started; the bound leaves room for it.
Waiting == {r \in Requests : At(r, "authenticate") \/ At(r, "load actor")}

\* A request arrives.  `live` is history: its token was live then.
Arrive(r, t, c) ==
    /\ At(r, "idle") /\ started + Cardinality(Waiting) < MaxCalls
    /\ token[t] # "unissued"
    /\ call' = [call EXCEPT ![r] =
          [at |-> "authenticate", number |-> 0, token |-> t, actor |-> TokenOwner[t],
           command |-> c, lookup |-> 1, found |-> {}, isError |-> TRUE,
           live |-> token[t] = "live", denoted |-> {}]]
    /\ UNCHANGED <<actors, nickname, bundle, unlocked, accessVars, auditVars, started,
                   admin, inForce, toldRevoked, outrun>>

Unchanged == UNCHANGED <<actors, nickname, bundle, unlocked, auditVars, admin, outrun>>

Hangup(r) == call' = [call EXCEPT ![r] = Idle]

\* Faulty variant: a revoked token is as good as a live one.
AcceptAnyToken(r) ==
    /\ At(r, "authenticate")
    /\ Goto(r, "load actor")
    /\ Unchanged /\ UNCHANGED <<accessVars, started, inForce, toldRevoked>>

\* The credential is read: not found is 401.
Authenticate(r) ==
    /\ At(r, "authenticate")
    /\ IF token[call[r].token] = "live"
       THEN Goto(r, "load actor") /\ UNCHANGED toldRevoked
       ELSE Hangup(r) /\ toldRevoked' = toldRevoked \union {call[r].token}
    /\ Unchanged /\ UNCHANGED <<accessVars, started, inForce>>

\* An error of the database while authenticating is a 503.
Unavailable(r) ==
    /\ At(r, "authenticate") \/ At(r, "load actor")
    /\ Hangup(r)
    /\ Unchanged /\ UNCHANGED <<accessVars, started, inForce, toldRevoked>>

\* checkToolAllowed.
AllowedTool(tools, tool) == tool \in tools

\* recorded() and recordedMetaOnly() note the time, and the handler runs.
Start(r) ==
    /\ started < MaxCalls
    /\ started' = started + 1
    /\ call' = [call EXCEPT ![r].at = "handler", ![r].number = started']

\* With the actor row the tool is called, or with the row of the request that
\* opened the session (this one, if there is none): a refusal is not audited.
CallTool(r) ==
    /\ LET a == Caller(r)
           opens == session[a] = None
           first == IF opens THEN allowlist[a] ELSE session[a]
       IN  /\ session' = [session EXCEPT ![a] = first]
           /\ inForce' = [inForce EXCEPT ![a] = IF opens THEN allowlist[a] ELSE @]
           /\ \E tools \in {allowlist[a], first} :
                 IF AllowedTool(tools, call[r].command.tool)
                 THEN Start(r)
                 ELSE Hangup(r) /\ UNCHANGED started
    /\ Unchanged /\ UNCHANGED <<token, allowlist, toldRevoked>>

\* The actor row is read; for a token of nobody that fails, as an outage does.
LoadActor(r) ==
    /\ At(r, "load actor")
    /\ Caller(r) \in actors
    /\ CallTool(r)

------------------------------------------------------------------------------
(* The registrar.                                                          *)

\* send_secret; SecretHandoff.tla has what it stores.
SendSecret(r) ==
    /\ At(r, "handler") /\ Calls(r, "send_secret")
    /\ \E isError \in BOOLEAN : Return(r, isError)
    /\ UNCHANGED <<actors, nickname, bundle, unlocked>>

\* r writes the table its tool is about while an earlier call of the same actor
\* and tool is still running.
Outruns(r) ==
    /\ At(r, "write profile") \/ At(r, "store bundle")
    /\ \E q \in Requests :
          Calls(q, call[r].command.tool) /\ Caller(q) = Caller(r) /\ call[q].number < call[r].number

Run(r) ==
    /\ Handle(r) \/ SendSecret(r)
    /\ outrun' = outrun \union {a \in {Caller(r)} : Outruns(r)}
    /\ UNCHANGED <<accessVars, auditVars, started, admin, inForce, toldRevoked>>

\* What is told apart in a row: who gave itself which name, when.  Rows of calls
\* that failed, or that name nobody, are all alike.
Naming == {"set_profile", "set_key_bundle"}
OtherRow == [actor |-> None, tool |-> "other", name |-> None, calledAt |-> 0]

Row(r, time) ==
    IF call[r].isError \/ call[r].command.tool \notin Naming THEN OtherRow
    ELSE [actor |-> Caller(r), tool |-> call[r].command.tool, name |-> Arg(r), calledAt |-> time]

\* Faulty variant: called_at is the time of the answer.
AuditRowAtAnswer(r) == Row(r, started)

\* The row of a call that has returned.
AuditRow(r) == Row(r, call[r].number)

\* The answer goes out, and a goroutine has the row to write.
Answer(r) ==
    /\ At(r, "answer")
    /\ Hangup(r)
    /\ unwritten' = unwritten \union {AuditRow(r)}
    /\ UNCHANGED <<actors, nickname, bundle, unlocked, accessVars, audit, lost, started,
                   admin, inForce, toldRevoked, outrun>>

WriteAudit(row) ==
    /\ unwritten' = unwritten \ {row}
    /\ audit' = audit \union {row}
    /\ UNCHANGED <<nameVars, accessVars, lost, started, admin, inForce, toldRevoked, outrun>>

\* The insert fails: the row is only logged.
LoseAudit(row) ==
    /\ unwritten' = unwritten \ {row}
    /\ lost' = lost \union {row}
    /\ UNCHANGED <<nameVars, accessVars, audit, started, admin, inForce, toldRevoked, outrun>>

\* The rows of calls that have returned, and whose goroutine is still to come.
Unrecorded == {AuditRow(r) : r \in {q \in Requests : At(q, "answer")}}

\* The server restarts: calls, sessions and goroutines are gone.
Restart ==
    /\ \E r \in Requests : ~At(r, "idle")
    /\ call' = [r \in Requests |-> Idle]
    /\ session' = [a \in Actors |-> None]
    /\ inForce' = [a \in Actors |-> {}]
    /\ lost' = lost \union unwritten \union Unrecorded
    /\ unwritten' = {}
    /\ UNCHANGED <<actors, nickname, bundle, unlocked, token, allowlist, audit, started,
                   admin, toldRevoked, outrun>>

Next ==
    \/ \E a \in Actors : CreateAgent(a) \/ \E tools \in Allowlists : SetAllowlist(a, tools)
    \/ \E t \in Tokens :
          IssueToken(t) \/ Revoke({t}) \/ \E c \in Commands, r \in Requests : Arrive(r, t, c)
    \/ \E a \in Actors : Revoke({t \in Tokens : TokenOwner[t] = a})
    \/ \E r \in Requests :
          Authenticate(r) \/ Unavailable(r) \/ LoadActor(r) \/ Run(r) \/ Answer(r)
    \/ \E row \in unwritten : WriteAudit(row) \/ LoseAudit(row)
    \/ Restart

Spec == Init /\ [][Next]_vars

------------------------------------------------------------------------------
(* Properties.                                                             *)

TypeOK ==
    /\ actors \subseteq Actors
    /\ nickname \in [Actors -> AllNames \union {None}]
    /\ bundle \in [Actors -> AllNames \union {None}]
    /\ unlocked \subseteq actors
    /\ token \in [Tokens -> {"unissued", "live", "revoked"}]
    /\ allowlist \in [Actors -> SUBSET AllTools]
    /\ session \in [Actors -> (SUBSET AllTools) \union {None}]
    /\ unwritten \union audit \union lost \subseteq
          [actor : Actors, tool : Naming, name : AllNames, calledAt : 1 .. started]
          \union {OtherRow}
    /\ started \in 0 .. MaxCalls /\ admin \in 0 .. MaxAdmin
    /\ toldRevoked \subseteq Tokens
    /\ \A r \in Requests : Running(r) => Caller(r) \in actors /\ call[r].lookup \in 1 .. 4

\* A nickname is one actor's, though two calls may both find it free
\* (profile_repo.go:48-54; the unique index decides).
NicknamesUnique ==
    \A a, b \in actors : nickname[a] # None /\ nickname[a] = nickname[b] => a = b

\* A published bundle carries a name of its owner's, whatever renames came
\* before and after it (profile_repo.go:56-72), unless the owner itself
\* renamed and published in calls that overlapped, or a failed read of its
\* profile let it rename (profile_repo.go:65 skips the lock then).
BundleCarriesItsOwnersName ==
    \A a \in actors \ unlocked :
        bundle[a] # None =>
            \E name \in {DisplayName[a], nickname[a]} \ {None} : Fold[name] = Fold[bundle[a]]

\* Whoever FindActorByName finds with its four queries is an actor the name
\* denoted at one of them, by the precedence of thread_repo.go:261-274: renames
\* between the queries make no third actor of it.  (An agent created between
\* them can; such a lookup is excused.)
FoundActorsHeldTheName ==
    \A r \in Requests :
        At(r, "store bundle") \/ At(r, "read bundle") => call[r].found \subseteq call[r].denoted

\* A handler runs only for a token that was live when the request arrived, and
\* a tool that the actor's allowlist held at some time since its session
\* opened, whatever the operator does meanwhile (auth.go:71-91,
\* registrar.go:237-246).
CallsAreAuthorised ==
    \A r \in Requests :
        Running(r) => call[r].live /\ call[r].command.tool \in inForce[Caller(r)]

\* A client is told 401 only of a revoked token: an outage never looks like a
\* revocation (auth.go:49-63).
OutageIsNotRevocation == \A t \in toldRevoked : token[t] = "revoked"

\* The stored state as a whole: the tables' shape, unique nicknames, and no
\* answer that takes an outage for a revocation.
AgentsInv == TypeOK /\ NicknamesUnique /\ OutageIsNotRevocation

\* The rows of an actor's calls of a tool that succeeded: in the table, to be
\* written, or destroyed.
Succeeded(a, tool) ==
    {row \in unwritten \union audit \union lost \union Unrecorded :
        row.actor = a /\ row.tool = tool}

\* The newest of them shows the value; without one there is none.
ShownByNewest(rows, value) ==
    /\ rows = {} <=> value = None
    /\ \A row \in rows : (\A other \in rows : other.calledAt <= row.calledAt) => row.name = value

\* The operator's list is newest first by called_at (tool_calls.go:24), though
\* rows are written in any order.  The first successful set_profile of an actor
\* in it is where its nickname comes from, and the first successful
\* set_key_bundle its bundle, unless a newer row was lost or is to come; names
\* in the tables have a row of the actor's own (registrar.go:150-231).  Calls
\* that raced an earlier call of the same tool are excused.
AuditTellsWhoNamedWhat ==
    \A a \in Actors \ outrun :
        /\ ShownByNewest(Succeeded(a, "set_profile"), nickname[a])
        /\ ShownByNewest(Succeeded(a, "set_key_bundle"), bundle[a])

==============================================================================
