---------------------------- MODULE SecretHandoff ----------------------------
(***************************************************************************)
(* One-time release of encrypted credentials: the send_secret and          *)
(* fetch_secret tools, the operator's approval and the expiry sweep, one   *)
(* SQL statement per step.  None of it runs in a transaction, so requests  *)
(* interleave between statements on either backend, and a request may end  *)
(* after any of them (a failed statement, a closed connection, a crash).   *)
(***************************************************************************)
EXTENDS Naturals, Sequences, FiniteSets

CONSTANTS
    Actors, Secrets,
    Nobody,        \* no actor
    Sessions,      \* requests being served concurrently
    MaxFetches     \* bound: fetch_secret calls in a behaviour

ASSUME NobodyAssumption == Nobody \notin Actors
ASSUME MaxFetchesAssumption == MaxFetches \in Nat
ASSUME SessionsAssumption == IsFiniteSet(Sessions)

VARIABLES
    handoff,    \* secret_handoffs rows
    expired,    \* secrets whose expires_at has passed
    alerts,     \* handoff_alerts rows for the sender, <<secret, kind>>
    req,        \* what each session executes next, with its Go locals
    answer,     \* history: the last answer of each session
    fetches,    \* fetch_secret calls so far
    delivered,  \* history: delivered[k]: whom the envelope was sent to, in order
    refused,    \* history: per secret, fetches answered "addressed to a different actor"
    missed      \* history: per secret, foreign_attempts updates that failed

vars == <<handoff, expired, alerts, req, answer, fetches, delivered, refused, missed>>

Absent == [exists |-> FALSE, from |-> Nobody, to |-> Nobody, admin |-> FALSE,
           envelope |-> FALSE, approved |-> FALSE, fetchedBy |-> Nobody, foreign |-> 0]

Idle == [pc |-> "idle"]
NoAnswer == [kind |-> "none", secret |-> Nobody, live |-> FALSE, stored |-> FALSE]

Kinds == {"none", "secret", "not_found", "foreign", "already", "needs_approval"}

\* The secret could be released to its recipient this moment.
Live(k) ==
    /\ handoff[k].exists
    /\ handoff[k].fetchedBy = Nobody
    /\ handoff[k].envelope
    /\ k \notin expired
    /\ handoff[k].admin => handoff[k].approved

Init ==
    /\ handoff = [k \in Secrets |-> Absent]
    /\ expired = {}
    /\ alerts = {}
    /\ req = [s \in Sessions |-> Idle]
    /\ answer = [s \in Sessions |-> NoAnswer]
    /\ fetches = 0
    /\ delivered = [k \in Secrets |-> <<>>]
    /\ refused = [k \in Secrets |-> 0]
    /\ missed = [k \in Secrets |-> 0]

\* Faulty variants: claimed blobs are swept too; the test of expires_at is missing.
SweptClaimedOrNot == expired
SweptExpiredOrNot == {k \in Secrets : handoff[k].exists /\ handoff[k].fetchedBy = Nobody}

\* SweepExpiredSecrets: only blobs nobody has claimed.  Its error is ignored.
Swept == {k \in expired : handoff[k].fetchedBy = Nobody}
AfterSweep == [k \in Secrets |->
    IF k \in Swept THEN [handoff[k] EXCEPT !.envelope = FALSE] ELSE handoff[k]]

Sweep == handoff' \in {AfterSweep, handoff}

Continue(s, r) == req' = [req EXCEPT ![s] = r]

\* The fetch handler returns to its client.  For the properties a "not found"
\* notes whether the secret is live now and was stored before the call.
Return(s, kind) ==
    LET notFound == kind = "not_found"
    IN  /\ req' = [req EXCEPT ![s] = Idle]
        /\ answer' = [answer EXCEPT ![s] = [kind |-> kind, secret |-> req[s].secret,
                                             live |-> notFound /\ Live(req[s].secret),
                                             stored |-> notFound /\ req[s].stored]]

------------------------------------------------------------------------------
\* expires_at of a stored secret passes.
Expire(k) ==
    /\ handoff[k].exists
    /\ k \notin expired
    /\ expired' = expired \union {k}
    /\ UNCHANGED <<handoff, alerts, req, answer, fetches, delivered, refused, missed>>

\* sendSecretHandler, validated: sweep first.
SendSweep(s, from, to, k, admin) ==
    /\ req[s] = Idle
    /\ from # to
    /\ Sweep
    /\ Continue(s, [pc |-> "create", from |-> from, to |-> to, secret |-> k, admin |-> admin])
    /\ UNCHANGED <<expired, alerts, answer, fetches, delivered, refused, missed>>

\* INSERT the row; the id comes from the client, and a known one is an error.
CreateSecretHandoff(s) ==
    LET r == req[s]
    IN  /\ r.pc = "create"
        /\ Continue(s, Idle)
        /\ handoff' = IF handoff[r.secret].exists THEN handoff
              ELSE [handoff EXCEPT ![r.secret] =
                      [exists |-> TRUE, from |-> r.from, to |-> r.to, admin |-> r.admin,
                       envelope |-> TRUE, approved |-> FALSE, fetchedBy |-> Nobody, foreign |-> 0]]
        /\ UNCHANGED <<expired, alerts, answer, fetches, delivered, refused, missed>>

\* ApproveSecretHandoff by the operator, any class, only while unclaimed.
Approve(k) ==
    /\ handoff[k].exists
    /\ ~handoff[k].approved
    /\ handoff[k].fetchedBy = Nobody
    /\ k \notin expired
    /\ handoff' = [handoff EXCEPT ![k].approved = TRUE]
    /\ UNCHANGED <<expired, alerts, req, answer, fetches, delivered, refused, missed>>

\* fetchSecretHandler: sweep, then read the clock once for the claim.
FetchSweep(s, a, k) ==
    /\ req[s] = Idle
    /\ fetches < MaxFetches
    /\ fetches' = fetches + 1
    /\ Sweep
    /\ answer' = [answer EXCEPT ![s] = NoAnswer]
    /\ Continue(s, [pc |-> "claim", actor |-> a, secret |-> k, late |-> k \in expired,
                    stored |-> handoff[k].exists])
    /\ UNCHANGED <<expired, alerts, delivered, refused, missed>>

\* Faulty variants: without fetched_at IS NULL; approval asked of every class.
ClaimableAgain(k, a, late) ==
    /\ handoff[k].exists
    /\ handoff[k].to = a
    /\ handoff[k].envelope
    /\ ~late
    /\ handoff[k].admin => handoff[k].approved

ClaimableIfApproved(k, a, late) ==
    /\ handoff[k].exists
    /\ handoff[k].to = a
    /\ handoff[k].fetchedBy = Nobody
    /\ handoff[k].envelope
    /\ ~late
    /\ handoff[k].approved

\* The guards of the claiming UPDATE (secret_handoff.go:79).
Claimable(k, a, late) ==
    /\ handoff[k].exists
    /\ handoff[k].to = a
    /\ handoff[k].fetchedBy = Nobody
    /\ handoff[k].envelope
    /\ ~late
    /\ handoff[k].admin => handoff[k].approved

\* One UPDATE tests and claims.  The clock was read before the statement got
\* to run, so a secret expiring in between may still count as unexpired.
Claim(s) ==
    LET r == req[s]
    IN  /\ r.pc = "claim"
        /\ \E late \in {r.late, r.secret \in expired} :
              LET won == Claimable(r.secret, r.actor, late)
              IN  /\ handoff' = IF won THEN [handoff EXCEPT ![r.secret].fetchedBy = r.actor]
                                ELSE handoff
                  /\ Continue(s, [pc |-> IF won THEN "readWon" ELSE "readLost",
                                  actor |-> r.actor, secret |-> r.secret,
                                  stored |-> r.stored])
        /\ UNCHANGED <<expired, alerts, answer, fetches, delivered, refused, missed>>

\* SELECT the row after a claim that succeeded: the blob goes into a local.
ReadClaimed(s) ==
    LET r == req[s]
    IN  /\ r.pc = "readWon"
        /\ Continue(s, [pc |-> "blank", actor |-> r.actor, secret |-> r.secret,
                        stored |-> r.stored, envelope |-> handoff[r.secret].envelope])
        /\ UNCHANGED <<handoff, expired, alerts, answer, fetches, delivered, refused, missed>>

\* UPDATE envelope_json = ''.
Blank(s) ==
    LET r == req[s]
    IN  /\ r.pc = "blank"
        /\ handoff' = [handoff EXCEPT ![r.secret].envelope = FALSE]
        /\ Continue(s, [r EXCEPT !.pc = "respond"])
        /\ UNCHANGED <<expired, alerts, answer, fetches, delivered, refused, missed>>

\* The envelope travels to the client.
Respond(s) ==
    LET r == req[s]
    IN  /\ r.pc = "respond"
        /\ delivered' = IF r.envelope
                        THEN [delivered EXCEPT ![r.secret] = Append(@, r.actor)]
                        ELSE delivered
        /\ Return(s, "secret")
        /\ UNCHANGED <<handoff, expired, alerts, fetches, refused, missed>>

\* SELECT the row after a claim that matched nothing, and say why, by severity.
Classify(s) ==
    LET r == req[s]
        h == handoff[r.secret]
        own == h.exists /\ h.to = r.actor
        refuse(kind) == /\ Return(s, kind)
                        /\ UNCHANGED <<handoff, expired, alerts, fetches, delivered, refused, missed>>
        alarm(pc) == /\ Continue(s, [pc |-> pc, actor |-> r.actor, secret |-> r.secret,
                                     stored |-> r.stored, foreign |-> h.foreign])
                     /\ UNCHANGED <<handoff, expired, alerts, answer, fetches, delivered, refused, missed>>
    IN  /\ r.pc = "readLost"
        /\ \/ ~h.exists /\ refuse("not_found")
           \/ h.exists /\ ~own /\ alarm("count")
           \/ own /\ h.fetchedBy # Nobody /\ alarm("alertDouble")
           \/ own /\ h.fetchedBy = Nobody /\ h.admin /\ ~h.approved /\ refuse("needs_approval")
           \/ own /\ h.fetchedBy = Nobody /\ (h.admin => h.approved) /\ refuse("not_found")

\* Faulty variant: the counter is written back from the row read before.
CountForeignFromRow(s) ==
    LET r == req[s]
    IN  /\ r.pc = "count"
        /\ handoff' = [handoff EXCEPT ![r.secret].foreign = r.foreign + 1]
        /\ Continue(s, [r EXCEPT !.pc = "alertForeign"])
        /\ UNCHANGED <<expired, alerts, answer, fetches, delivered, refused, missed>>

\* UPDATE foreign_attempts = foreign_attempts + 1; its error is ignored.
CountForeign(s) ==
    LET r == req[s]
    IN  /\ r.pc = "count"
        /\ \/ /\ handoff' = [handoff EXCEPT ![r.secret].foreign = @ + 1]
              /\ UNCHANGED missed
           \/ /\ missed' = [missed EXCEPT ![r.secret] = @ + 1]
              /\ UNCHANGED handoff
        /\ Continue(s, [r EXCEPT !.pc = "alertForeign"])
        /\ UNCHANGED <<expired, alerts, answer, fetches, delivered, refused>>

\* CreateHandoffAlert for the sender (its error is only logged), then refuse.
Alert(s, pc, row, kind) ==
    LET r == req[s]
    IN  /\ r.pc = pc
        /\ alerts' \in {alerts, alerts \union {<<r.secret, row>>}}
        /\ Return(s, kind)
        /\ refused' = IF kind = "foreign" THEN [refused EXCEPT ![r.secret] = @ + 1] ELSE refused
        /\ UNCHANGED <<handoff, expired, fetches, delivered, missed>>

\* The request ends early; its client gets an error or nothing.
Abort(s) ==
    /\ req[s] # Idle
    /\ Continue(s, Idle)
    /\ UNCHANGED <<handoff, expired, alerts, answer, fetches, delivered, refused, missed>>

Next ==
    \/ \E k \in Secrets : Expire(k) \/ Approve(k)
    \/ \E s \in Sessions :
          \/ \E from \in Actors, to \in Actors, k \in Secrets, admin \in BOOLEAN :
                SendSweep(s, from, to, k, admin)
          \/ CreateSecretHandoff(s)
          \/ \E a \in Actors, k \in Secrets : FetchSweep(s, a, k)
          \/ Claim(s)
          \/ ReadClaimed(s)
          \/ Blank(s)
          \/ Respond(s)
          \/ Classify(s)
          \/ CountForeign(s)
          \/ Alert(s, "alertForeign", "foreign_fetch", "foreign")
          \/ Alert(s, "alertDouble", "double_fetch", "already")
          \/ Abort(s)

Spec == Init /\ [][Next]_vars

------------------------------------------------------------------------------
Row == [exists : BOOLEAN, from : Actors \union {Nobody}, to : Actors \union {Nobody},
        admin : BOOLEAN, envelope : BOOLEAN, approved : BOOLEAN,
        fetchedBy : Actors \union {Nobody}, foreign : 0 .. MaxFetches]

\* Rows, requests and answers have their shape; fetched_by is an actor or empty.
TypeOK ==
    /\ handoff \in [Secrets -> Row]
    /\ expired \subseteq {k \in Secrets : handoff[k].exists}
    /\ alerts \subseteq (Secrets \X {"foreign_fetch", "double_fetch"})
    /\ \A s \in Sessions : answer[s].kind \in Kinds
    /\ fetches \in 0 .. MaxFetches
    /\ delivered \in [Secrets -> Seq(Actors)]

\* A fetch that succeeds always carries the blob: neither the sweep nor another
\* fetch can blank a row between the claim and the read.
SuccessCarriesTheBlob ==
    \A s \in Sessions : answer[s].kind = "secret" => delivered[answer[s].secret] # <<>>

\* The rows' shape, and the blob in every successful answer (secret_handoff.go:66-110).
HandoffInv == TypeOK /\ SuccessCarriesTheBlob

\* A refusal of a foreign fetch is in foreign_attempts by the time the thief
\* hears it, however many are refused at once (secret_handoff.go:112-115),
\* unless its own update failed.  A request that ends before it is refused
\* may have counted or not.
ForeignRefusalsAreCounted ==
    \A k \in Secrets : refused[k] <= handoff[k].foreign + missed[k]

\* secret_handoff.go:65-67: "Any refusal leaves an audit trace: fetch by anyone
\* but the recipient increments ForeignAttempts".
AnyForeignRefusalIsCounted ==
    \A k \in Secrets : refused[k] <= handoff[k].foreign

\* An unclaimed blob disappears only by expiry.
BlobKeptUntilClaimedOrExpired ==
    \A k \in Secrets : handoff[k].exists /\ handoff[k].fetchedBy = Nobody /\ k \notin expired
        => handoff[k].envelope

\* secret_handoff.go:22-23: EnvelopeJSON "is cleared on first fetch", which
\* :64-65 says happens "inside one transaction": once the claiming request is
\* over, the blob is gone.
BlobClearedByFetch ==
    \A k \in Secrets : handoff[k].fetchedBy # Nobody /\ handoff[k].envelope =>
        \E s \in Sessions : req[s].pc \in {"readWon", "blank"} /\ req[s].secret = k

\* secret_handoff.go:53, "secret not found or expired": never the answer for a
\* routine secret stored before the call and still releasable when it answers.
\* (An admin secret approved between the claim and the read is so misreported.)
NotFoundMeansGone ==
    \A s \in Sessions : answer[s].kind = "not_found" /\ answer[s].stored /\ answer[s].live
        => handoff[answer[s].secret].admin

\* What a row says of its secret, and the secrets an operator has yet to approve.
Phase(k) ==
    IF ~handoff[k].exists THEN "absent"
    ELSE IF handoff[k].fetchedBy # Nobody THEN "taken"
    ELSE IF handoff[k].envelope THEN "sealed"
    ELSE "lapsed"
Locked == {k \in Secrets : handoff[k].admin /\ ~handoff[k].approved}

\* The statements together keep the promise of a one-time secret.
Promise == INSTANCE OneTimeSecret WITH
    phase <- [k \in Secrets |-> Phase(k)],
    addressee <- [k \in Secrets |-> handoff[k].to],
    locked <- Locked

ImplementsOneTimeSecret == Promise!Spec
==============================================================================
