------------------------- MODULE SecretHandoffProofs -------------------------
(***************************************************************************)
(* Theorems about SecretHandoff.tla for any number of actors, secrets and  *)
(* concurrent requests: the invariants its runs check, and that it         *)
(* implements OneTimeSecret.tla.                                           *)
(***************************************************************************)
EXTENDS SecretHandoff, FiniteSetTheorems, TLAPS

------------------------------------------------------------------------------
(* The inductive invariant.                                                *)

\* The locals of a request at each of its statements.
Sending == [pc : {"create"}, from : Actors, to : Actors, secret : Secrets, admin : BOOLEAN]
Claiming == [pc : {"claim"}, actor : Actors, secret : Secrets, late : BOOLEAN, stored : BOOLEAN]
Reading == [pc : {"readWon", "readLost"}, actor : Actors, secret : Secrets, stored : BOOLEAN]
Releasing == [pc : {"blank", "respond"}, actor : Actors, secret : Secrets, stored : BOOLEAN,
              envelope : BOOLEAN]
Refusing == [pc : {"count", "alertForeign", "alertDouble"}, actor : Actors, secret : Secrets,
             stored : BOOLEAN, foreign : Nat]

Request == {Idle} \union Sending \union Claiming \union Reading \union Releasing \union Refusing
Answer == [kind : Kinds, secret : Secrets \union {Nobody}, live : BOOLEAN, stored : BOOLEAN]

\* The shape of what TypeOK leaves out.
LocalsOK ==
    /\ req \in [Sessions -> Request]
    /\ answer \in [Sessions -> Answer]
    /\ refused \in [Secrets -> Nat] /\ missed \in [Secrets -> Nat]

\* A fetch whose claim succeeded is the addressee's, has or can still read the
\* blob, and nobody has been sent it.
Winning(s) == req[s].pc \in {"readWon", "blank", "respond"}
HoldsBlob(s) ==
    /\ handoff[req[s].secret].exists
    /\ handoff[req[s].secret].to = req[s].actor
    /\ handoff[req[s].secret].fetchedBy = req[s].actor
    /\ IF req[s].pc = "readWon" THEN handoff[req[s].secret].envelope ELSE req[s].envelope
    /\ delivered[req[s].secret] = <<>>
WinnersHold == \A s \in Sessions : Winning(s) => HoldsBlob(s)

OneWinner ==
    \A s, t \in Sessions : Winning(s) /\ Winning(t) /\ req[s].secret = req[t].secret => s = t

\* A row that was never inserted is blank, and only a claimed secret is delivered.
RowsWhole ==
    \A k \in Secrets :
        /\ ~handoff[k].exists =>
              /\ handoff[k].to = Nobody /\ handoff[k].fetchedBy = Nobody /\ handoff[k].foreign = 0
              /\ ~handoff[k].admin /\ ~handoff[k].envelope /\ ~handoff[k].approved
        /\ handoff[k].fetchedBy = Nobody => delivered[k] = <<>>

\* Rows are never deleted, and time does not run back.
Fetching(s) == req[s].pc \notin {"idle", "create"}
HistoryHolds ==
    \A s \in Sessions :
        /\ Fetching(s) /\ req[s].stored => handoff[req[s].secret].exists
        /\ req[s].pc = "claim" /\ req[s].late => req[s].secret \in expired
        /\ req[s].pc = "count" => handoff[req[s].secret].exists
        /\ answer[s].kind # "none" => answer[s].secret \in Secrets
        /\ answer[s].kind # "none" /\ answer[s].stored => handoff[answer[s].secret].exists

\* A claim that its addressee lost on a routine secret that was stored, and that
\* nobody has claimed since, came after the secret's end.
LosersLate ==
    \A s \in Sessions :
        /\ req[s].pc = "readLost" /\ req[s].stored
        /\ handoff[req[s].secret].to = req[s].actor
        /\ handoff[req[s].secret].fetchedBy = Nobody
        /\ ~handoff[req[s].secret].admin
        => req[s].secret \in expired \/ ~handoff[req[s].secret].envelope

\* Every fetch adds to one counter at most.
Uncounted == {s \in Sessions : req[s].pc \in {"claim", "readLost", "count"}}
AttemptsBounded ==
    \A k \in Secrets : handoff[k].foreign + Cardinality(Uncounted) <= fetches

SecretInv ==
    /\ TypeOK
    /\ LocalsOK
    /\ WinnersHold
    /\ OneWinner
    /\ RowsWhole
    /\ HistoryHolds
    /\ LosersLate
    /\ AttemptsBounded
    /\ SuccessCarriesTheBlob
    /\ BlobKeptUntilClaimedOrExpired
    /\ NotFoundMeansGone

------------------------------------------------------------------------------
(* The steps preserve it.                                                  *)

\* Counting the fetches that may still raise a counter.
LEMMA UncountedFinite ==
    /\ IsFiniteSet(Uncounted) /\ Cardinality(Uncounted) \in Nat
    /\ IsFiniteSet(Uncounted') /\ Cardinality(Uncounted') \in Nat
<1>1. IsFiniteSet(Uncounted) /\ IsFiniteSet(Uncounted')
  BY SessionsAssumption, FS_Subset DEF Uncounted
<1> QED
  BY <1>1, FS_CardinalityType

\* A step that starts no fetch.
LEMMA FewerUncounted ==
    ASSUME Uncounted' \subseteq Uncounted
    PROVE  Cardinality(Uncounted') <= Cardinality(Uncounted)
  BY UncountedFinite, FS_Subset

\* A step that counts one.
LEMMA OneLessUncounted ==
    ASSUME NEW s \in Uncounted, Uncounted' = Uncounted \ {s}
    PROVE  Cardinality(Uncounted') = Cardinality(Uncounted) - 1
  BY UncountedFinite, FS_RemoveElement

\* A step that starts a fetch.
LEMMA OneMoreUncounted ==
    ASSUME NEW s, Uncounted' \subseteq Uncounted \union {s}
    PROVE  Cardinality(Uncounted') <= Cardinality(Uncounted) + 1
<1>1. /\ IsFiniteSet(Uncounted \union {s})
      /\ Cardinality(Uncounted \union {s}) =
            IF s \in Uncounted THEN Cardinality(Uncounted) ELSE Cardinality(Uncounted) + 1
  BY UncountedFinite, FS_AddElement
<1>2. Cardinality(Uncounted') <= Cardinality(Uncounted \union {s})
  BY <1>1, FS_Subset
<1> QED
  BY <1>1, <1>2, UncountedFinite

\* What a request's statement reads of its locals.
LEMMA RequestLocals ==
    ASSUME LocalsOK, NEW s \in Sessions
    PROVE  /\ req[s].pc = "idle" => req[s] = Idle
           /\ req[s].pc = "create" => req[s] \in Sending
           /\ req[s].pc = "claim" => req[s] \in Claiming
           /\ req[s].pc \in {"readWon", "readLost"} => req[s] \in Reading
           /\ req[s].pc \in {"blank", "respond"} => req[s] \in Releasing
           /\ req[s].pc \in {"count", "alertForeign", "alertDouble"} => req[s] \in Refusing
           /\ req[s].pc # "idle" => req[s].secret \in Secrets
           /\ Fetching(s) => req[s].stored \in BOOLEAN
           /\ req[s] \in Request
  BY DEF LocalsOK, Request, Idle, Sending, Claiming, Reading, Releasing, Refusing, Fetching

\* The UPDATE statements change one column of one row.
LEMMA RowUpdates ==
    ASSUME TypeOK
    PROVE  /\ \A k \in Secrets : handoff[k] \in Row
           /\ \A h \in Row : [h EXCEPT !.envelope = FALSE] \in Row
           /\ \A h \in Row : [h EXCEPT !.approved = TRUE] \in Row
           /\ \A h \in Row, a \in Actors : [h EXCEPT !.fetchedBy = a] \in Row
           /\ \A h \in Row, n \in 0 .. MaxFetches : [h EXCEPT !.foreign = n] \in Row
  BY DEF TypeOK, Row

\* What holds of every request holds after a step that changes one of them.
OthersWait(s) == \A t \in Sessions : t # s => req'[t] = req[t] /\ answer'[t] = answer[t]

\* A row keeps who it is for and who claimed it.
SameClaim(k) ==
    /\ handoff'[k].exists = handoff[k].exists
    /\ handoff'[k].to = handoff[k].to
    /\ handoff'[k].admin = handoff[k].admin
    /\ handoff'[k].fetchedBy = handoff[k].fetchedBy

\* The sweep only blanks.
LEMMA SweepBlanks ==
    ASSUME TypeOK, Sweep
    PROVE  /\ handoff' \in [Secrets -> Row]
           /\ \A k \in Secrets :
                 /\ SameClaim(k)
                 /\ handoff'[k].approved = handoff[k].approved
                 /\ handoff'[k].foreign = handoff[k].foreign
                 /\ handoff'[k].envelope => handoff[k].envelope
                 /\ handoff[k].fetchedBy # Nobody \/ k \notin expired
                       => handoff'[k].envelope = handoff[k].envelope
<1>1. CASE handoff' = handoff
  BY <1>1 DEF TypeOK, SameClaim
<1>2. CASE handoff' = AfterSweep
  <2>1. \A k \in Secrets : handoff'[k] = IF k \in Swept THEN [handoff[k] EXCEPT !.envelope = FALSE]
                                         ELSE handoff[k]
    BY <1>2 DEF AfterSweep
  <2>2. handoff' \in [Secrets -> Row]
    BY <1>2, RowUpdates DEF AfterSweep
  <2> QED
    BY <2>1, <2>2, RowUpdates DEF Swept, SameClaim, Row
<1> QED
  BY <1>1, <1>2 DEF Sweep

\* Time passing disturbs only what mentions it.
LEMMA ExpireKeeps ==
    ASSUME SecretInv, NEW k \in Secrets, Expire(k)
    PROVE  SecretInv'
<1> USE DEF SecretInv, Expire
<1>1. TypeOK' /\ LocalsOK'
  BY DEF TypeOK, LocalsOK
<1>2. WinnersHold' /\ OneWinner' /\ RowsWhole'
  BY DEF WinnersHold, Winning, HoldsBlob, OneWinner, RowsWhole
<1>3. HistoryHolds' /\ LosersLate'
  BY DEF HistoryHolds, LosersLate, Fetching
<1>4. AttemptsBounded'
  BY DEF AttemptsBounded, Uncounted
<1> QED
  BY <1>1, <1>2, <1>3, <1>4
  DEF SuccessCarriesTheBlob, BlobKeptUntilClaimedOrExpired,
      NotFoundMeansGone

\* An approval leaves claims and blobs alone.
LEMMA ApproveKeeps ==
    ASSUME SecretInv, NEW k \in Secrets, Approve(k)
    PROVE  SecretInv'
<1> USE DEF SecretInv
<1>1. UNCHANGED <<expired, alerts, req, answer, fetches, delivered, refused, missed>>
  BY DEF Approve
<1>2. handoff' \in [Secrets -> Row]
  BY RowUpdates DEF Approve, TypeOK
<1>3. /\ handoff[k].exists
      /\ \A j \in Secrets : /\ SameClaim(j)
                            /\ handoff'[j].envelope = handoff[j].envelope
                            /\ handoff'[j].foreign = handoff[j].foreign
                            /\ j # k => handoff'[j].approved = handoff[j].approved
  BY DEF Approve, TypeOK, Row, SameClaim
<1>4. TypeOK' /\ LocalsOK'
  BY <1>1, <1>2, <1>3 DEF TypeOK, LocalsOK, SameClaim
<1>5. WinnersHold' /\ OneWinner'
  BY <1>1, <1>3, RequestLocals DEF WinnersHold, Winning, HoldsBlob, OneWinner, SameClaim
<1>6. RowsWhole'
  BY <1>1, <1>3 DEF RowsWhole, SameClaim
<1>7. HistoryHolds'
  BY <1>1, <1>3, RequestLocals DEF HistoryHolds, Fetching, SameClaim
<1>8. LosersLate'
  BY <1>1, <1>3, RequestLocals DEF LosersLate, SameClaim
<1>9. AttemptsBounded'
  BY <1>1, <1>3 DEF AttemptsBounded, Uncounted
<1>10. NotFoundMeansGone'
  BY <1>1, <1>3 DEF NotFoundMeansGone, HistoryHolds, SameClaim
<1> QED
  BY <1>1, <1>3, <1>4, <1>5, <1>6, <1>7, <1>8, <1>9, <1>10
  DEF SuccessCarriesTheBlob, BlobKeptUntilClaimedOrExpired, SameClaim

\* The sweep at the start of send_secret.
LEMMA SendSweepKeeps ==
    ASSUME SecretInv, NEW s \in Sessions, NEW from \in Actors, NEW to \in Actors, NEW k \in Secrets,
           NEW admin \in BOOLEAN, SendSweep(s, from, to, k, admin)
    PROVE  SecretInv'
<1> USE DEF SecretInv
<1>1. UNCHANGED <<expired, alerts, answer, fetches, delivered, refused, missed>>
  BY DEF SendSweep
<1>2. /\ handoff' \in [Secrets -> Row]
      /\ \A j \in Secrets :
            /\ SameClaim(j)
            /\ handoff'[j].approved = handoff[j].approved
            /\ handoff'[j].foreign = handoff[j].foreign
            /\ handoff'[j].envelope => handoff[j].envelope
            /\ handoff[j].fetchedBy # Nobody \/ j \notin expired
                  => handoff'[j].envelope = handoff[j].envelope
  BY SweepBlanks DEF SendSweep
<1>3. /\ req' \in [Sessions -> Request] /\ answer' \in [Sessions -> Answer]
      /\ req[s].pc = "idle" /\ req'[s].pc = "create" /\ OthersWait(s)
      /\ answer'[s] = answer[s] \/ answer'[s].kind = "none"
  BY DEF SendSweep, Continue, Idle, LocalsOK, Request, Sending, TypeOK, Row, NoAnswer, Answer, Kinds, OthersWait
<1>5. TypeOK' /\ LocalsOK'
  BY <1>1, <1>2, <1>3 DEF TypeOK, LocalsOK, SameClaim, Answer
<1>6. WinnersHold'
  <2> SUFFICES ASSUME NEW t \in Sessions, Winning(t)' PROVE HoldsBlob(t)'
    BY DEF WinnersHold
  <2>1. /\ Winning(t) /\ HoldsBlob(t) /\ req'[t] = req[t]
        /\ req[t].secret \in Secrets /\ req[t].actor # Nobody
    BY <1>3, RequestLocals, NobodyAssumption
    DEF WinnersHold, Winning, OthersWait, Reading, Releasing
  <2> QED
    BY <2>1, <1>1, <1>2 DEF HoldsBlob, SameClaim
<1>7. OneWinner'
  BY <1>3 DEF OneWinner, Winning, OthersWait
<1>8. RowsWhole'
  BY <1>1, <1>2 DEF RowsWhole, SameClaim
<1>9. HistoryHolds'
  BY <1>1, <1>2, <1>3, RequestLocals DEF HistoryHolds, Fetching, OthersWait, SameClaim
<1>10. LosersLate'
  BY <1>1, <1>2, <1>3, RequestLocals DEF LosersLate, OthersWait, SameClaim
<1>11. Uncounted' \subseteq Uncounted
  BY <1>3 DEF Uncounted, OthersWait
<1>12. AttemptsBounded'
  BY <1>1, <1>2, <1>5, <1>11, FewerUncounted, UncountedFinite DEF AttemptsBounded, TypeOK, Row
<1>13. SuccessCarriesTheBlob'
  BY <1>1, <1>3 DEF SuccessCarriesTheBlob, OthersWait
<1>14. BlobKeptUntilClaimedOrExpired'
  BY <1>1, <1>2 DEF BlobKeptUntilClaimedOrExpired, SameClaim
<1>15. NotFoundMeansGone'
  BY <1>1, <1>2, <1>3 DEF NotFoundMeansGone, HistoryHolds, OthersWait, SameClaim
<1> QED
  BY <1>5, <1>6, <1>7, <1>8, <1>9, <1>10, <1>12, <1>13, <1>14, <1>15

\* The INSERT touches a row no fetch has won.
LEMMA CreateKeeps ==
    ASSUME SecretInv, NEW s \in Sessions, CreateSecretHandoff(s)
    PROVE  SecretInv'
<1> USE DEF SecretInv
<1> DEFINE k == req[s].secret
           new == [exists |-> TRUE, from |-> req[s].from, to |-> req[s].to, admin |-> req[s].admin,
                   envelope |-> TRUE, approved |-> FALSE, fetchedBy |-> Nobody, foreign |-> 0]
<1>0. req[s] \in Sending /\ k \in Secrets
  BY RequestLocals DEF CreateSecretHandoff
<1>1. /\ UNCHANGED <<expired, alerts, answer, fetches, delivered, refused, missed>>
      /\ req' = [req EXCEPT ![s] = Idle]
  BY DEF CreateSecretHandoff, Continue
<1>2. /\ req' \in [Sessions -> Request] /\ req'[s] = Idle
      /\ \A t \in Sessions : t # s => req'[t] = req[t]
  BY <1>1 DEF LocalsOK, Request
<1>3. /\ new \in Row /\ new.exists /\ new.envelope /\ new.fetchedBy = Nobody /\ new.foreign = 0
  <2>1. /\ req[s].from \in Actors /\ req[s].to \in Actors /\ req[s].admin \in BOOLEAN
        /\ 0 \in 0 .. MaxFetches
    BY <1>0, MaxFetchesAssumption DEF Sending
  <2> QED
    BY <2>1 DEF Row
<1> HIDE DEF new
<1>4. handoff' = IF handoff[k].exists THEN handoff ELSE [handoff EXCEPT ![k] = new]
  BY DEF CreateSecretHandoff, new
<1>5. handoff' \in [Secrets -> Row]
  BY <1>0, <1>3, <1>4 DEF TypeOK
<1>6. /\ \A j \in Secrets : j # k \/ handoff[k].exists => handoff'[j] = handoff[j]
      /\ ~handoff[k].exists => handoff'[k] = new
  BY <1>0, <1>4 DEF TypeOK
<1>7. TypeOK' /\ LocalsOK'
  BY <1>1, <1>2, <1>3, <1>5, <1>6 DEF TypeOK, LocalsOK
<1>8. WinnersHold'
  BY <1>0, <1>1, <1>2, <1>6, RequestLocals DEF WinnersHold, Winning, HoldsBlob, Idle
<1>9. OneWinner'
  BY <1>2 DEF OneWinner, Winning, Idle
<1>10. RowsWhole'
  BY <1>1, <1>3, <1>6 DEF RowsWhole
<1>11. HistoryHolds'
  BY <1>1, <1>2, <1>3, <1>6, RequestLocals DEF HistoryHolds, Fetching, Idle
<1>12. LosersLate'
  BY <1>1, <1>2, <1>6, RequestLocals DEF LosersLate, HistoryHolds, Fetching, Idle
<1>13. \A j \in Secrets : handoff'[j].foreign = handoff[j].foreign
  BY <1>0, <1>3, <1>6 DEF RowsWhole
<1>14. BlobKeptUntilClaimedOrExpired'
  BY <1>1, <1>3, <1>6 DEF BlobKeptUntilClaimedOrExpired
<1>15. NotFoundMeansGone'
  BY <1>1, <1>6 DEF NotFoundMeansGone, HistoryHolds
<1>16. Uncounted' \subseteq Uncounted
  BY <1>2 DEF Uncounted, Idle
<1>17. AttemptsBounded'
  BY <1>1, <1>6, <1>7, <1>13, <1>16, FewerUncounted, UncountedFinite
  DEF AttemptsBounded, TypeOK, Row
<1> QED
  BY <1>1, <1>7, <1>8, <1>9, <1>10, <1>11, <1>12, <1>13, <1>14, <1>15, <1>17
  DEF SuccessCarriesTheBlob

\* The sweep at the start of fetch_secret, and one more fetch to count.
LEMMA FetchSweepKeeps ==
    ASSUME SecretInv, NEW s \in Sessions, NEW a \in Actors, NEW k \in Secrets, FetchSweep(s, a, k)
    PROVE  SecretInv'
<1> USE DEF SecretInv
<1>1. /\ UNCHANGED <<expired, alerts, delivered, refused, missed>>
      /\ fetches' = fetches + 1 /\ fetches' \in 0 .. MaxFetches
  BY MaxFetchesAssumption DEF FetchSweep, TypeOK
<1>2. /\ handoff' \in [Secrets -> Row]
      /\ \A j \in Secrets :
            /\ SameClaim(j)
            /\ handoff'[j].approved = handoff[j].approved
            /\ handoff'[j].foreign = handoff[j].foreign
            /\ handoff'[j].envelope => handoff[j].envelope
            /\ handoff[j].fetchedBy # Nobody \/ j \notin expired
                  => handoff'[j].envelope = handoff[j].envelope
  BY SweepBlanks DEF FetchSweep
<1>3. /\ req' \in [Sessions -> Request] /\ answer' \in [Sessions -> Answer]
      /\ req[s].pc = "idle" /\ req'[s].pc = "claim" /\ OthersWait(s)
      /\ answer'[s] = answer[s] \/ answer'[s].kind = "none"
  BY DEF FetchSweep, Continue, Idle, LocalsOK, Request, Claiming, TypeOK, Row, NoAnswer, Answer, Kinds, OthersWait
<1>4. /\ req'[s].secret = k /\ req'[s].stored = handoff[k].exists
      /\ req'[s].late => k \in expired
  BY DEF FetchSweep, Continue, LocalsOK
<1>5. TypeOK' /\ LocalsOK'
  BY <1>1, <1>2, <1>3 DEF TypeOK, LocalsOK, SameClaim, Answer
<1>6. WinnersHold'
  <2> SUFFICES ASSUME NEW t \in Sessions, Winning(t)' PROVE HoldsBlob(t)'
    BY DEF WinnersHold
  <2>1. /\ Winning(t) /\ HoldsBlob(t) /\ req'[t] = req[t]
        /\ req[t].secret \in Secrets /\ req[t].actor # Nobody
    BY <1>3, RequestLocals, NobodyAssumption
    DEF WinnersHold, Winning, OthersWait, Reading, Releasing
  <2> QED
    BY <2>1, <1>1, <1>2 DEF HoldsBlob, SameClaim
<1>7. OneWinner'
  BY <1>3 DEF OneWinner, Winning, OthersWait
<1>8. RowsWhole'
  BY <1>1, <1>2 DEF RowsWhole, SameClaim
<1>9. HistoryHolds'
  BY <1>4, <1>1, <1>2, <1>3, RequestLocals DEF HistoryHolds, Fetching, OthersWait, SameClaim
<1>10. LosersLate'
  BY <1>1, <1>2, <1>3, RequestLocals DEF LosersLate, OthersWait, SameClaim
<1>11. Uncounted' \subseteq Uncounted \union {s}
  BY <1>3 DEF Uncounted, OthersWait
<1>12. AttemptsBounded'
  <2>1. Cardinality(Uncounted') <= Cardinality(Uncounted) + 1
    BY <1>11, OneMoreUncounted
  <2>2. /\ fetches \in Nat /\ \A j \in Secrets : handoff[j].foreign \in Nat
        /\ \A j \in Secrets : handoff[j].foreign + Cardinality(Uncounted) <= fetches
    BY MaxFetchesAssumption DEF TypeOK, Row, AttemptsBounded
  <2> QED
    BY <1>1, <1>2, <2>1, <2>2, UncountedFinite DEF AttemptsBounded
<1>13. SuccessCarriesTheBlob'
  BY <1>1, <1>3 DEF SuccessCarriesTheBlob, OthersWait
<1>14. BlobKeptUntilClaimedOrExpired'
  BY <1>1, <1>2 DEF BlobKeptUntilClaimedOrExpired, SameClaim
<1>15. NotFoundMeansGone'
  BY <1>1, <1>2, <1>3 DEF NotFoundMeansGone, HistoryHolds, OthersWait, SameClaim
<1> QED
  BY <1>5, <1>6, <1>7, <1>8, <1>9, <1>10, <1>12, <1>13, <1>14, <1>15

\* One UPDATE tests and claims, so a second winner finds fetched_by set.
LEMMA ClaimKeeps ==
    ASSUME SecretInv, NEW s \in Sessions, Claim(s)
    PROVE  SecretInv'
<1> USE DEF SecretInv
<1> DEFINE k == req[s].secret
           a == req[s].actor
<1>0. req[s] \in Claiming /\ k \in Secrets /\ a \in Actors /\ req[s].pc = "claim"
  BY RequestLocals DEF Claim, Claiming
<1>1. PICK late \in {req[s].late, k \in expired} :
        LET won == Claimable(k, a, late)
        IN  /\ handoff' = IF won THEN [handoff EXCEPT ![k].fetchedBy = a] ELSE handoff
            /\ Continue(s, [pc |-> IF won THEN "readWon" ELSE "readLost", actor |-> a,
                            secret |-> k, stored |-> req[s].stored])
  BY DEF Claim
<1> DEFINE won == Claimable(k, a, late)
<1>2. UNCHANGED <<expired, alerts, answer, fetches, delivered, refused, missed>>
  BY DEF Claim
<1>3. /\ req' \in [Sessions -> Request] /\ OthersWait(s)
      /\ req'[s].pc = IF won THEN "readWon" ELSE "readLost"
      /\ req'[s].secret = k /\ req'[s].actor = a /\ req'[s].stored = req[s].stored
  BY <1>0, <1>1, <1>2 DEF Continue, LocalsOK, Request, Claiming, Reading, OthersWait
<1>4. handoff' \in [Secrets -> Row]
  BY <1>0, <1>1, RowUpdates DEF TypeOK
<1>5. /\ \A j \in Secrets : j # k => handoff'[j] = handoff[j]
      /\ handoff'[k].exists = handoff[k].exists /\ handoff'[k].to = handoff[k].to
      /\ handoff'[k].admin = handoff[k].admin /\ handoff'[k].envelope = handoff[k].envelope
      /\ handoff'[k].foreign = handoff[k].foreign /\ handoff'[k].approved = handoff[k].approved
      /\ handoff'[k].fetchedBy = IF won THEN a ELSE handoff[k].fetchedBy
  BY <1>0, <1>1 DEF TypeOK, Row
<1>6. won => /\ handoff[k].exists /\ handoff[k].to = a /\ handoff[k].fetchedBy = Nobody
             /\ handoff[k].envelope
  BY DEF Claimable
<1>7. ~won /\ handoff[k].exists /\ handoff[k].to = a /\ handoff[k].fetchedBy = Nobody
           /\ ~handoff[k].admin => k \in expired \/ ~handoff[k].envelope
  BY <1>0, <1>1 DEF Claimable, HistoryHolds
<1> HIDE DEF won
<1>8. TypeOK' /\ LocalsOK'
  BY <1>2, <1>3, <1>4, <1>5 DEF TypeOK, LocalsOK
<1>9. WinnersHold'
  <2> SUFFICES ASSUME NEW t \in Sessions, Winning(t)' PROVE HoldsBlob(t)'
    BY DEF WinnersHold
  <2>1. CASE t = s
    BY <2>1, <1>0, <1>2, <1>3, <1>5, <1>6 DEF Winning, HoldsBlob, RowsWhole
  <2>2. CASE t # s
    <3>1. Winning(t) /\ HoldsBlob(t) /\ req'[t] = req[t] /\ req[t].secret \in Secrets
          /\ req[t].actor \in Actors
      BY <2>2, <1>3, RequestLocals DEF Winning, WinnersHold, OthersWait, Reading, Releasing
    <3>2. ~won \/ req[t].secret # k
      BY <3>1, <1>6, NobodyAssumption DEF HoldsBlob
    <3> QED
      BY <3>1, <3>2, <1>2, <1>5 DEF HoldsBlob
  <2> QED
    BY <2>1, <2>2
<1>10. OneWinner'
  <2>1. \A t \in Sessions : t # s /\ Winning(t) /\ req[t].secret = k => ~won
    BY <1>6, RequestLocals, NobodyAssumption
    DEF WinnersHold, HoldsBlob, Winning, Reading, Releasing
  <2> QED
    BY <2>1, <1>3 DEF OneWinner, Winning, OthersWait
<1>11. RowsWhole'
  BY <1>0, <1>2, <1>5, <1>6, NobodyAssumption DEF RowsWhole
<1>12. HistoryHolds'
  BY <1>0, <1>2, <1>3, <1>5, RequestLocals DEF HistoryHolds, Fetching, OthersWait
<1>13. LosersLate'
  <2>1. handoff'[k].fetchedBy = Nobody => handoff[k].fetchedBy = Nobody
    BY <1>0, <1>5, NobodyAssumption
  <2> QED
    BY <2>1, <1>0, <1>2, <1>3, <1>5, <1>7, RequestLocals
    DEF LosersLate, HistoryHolds, Fetching, OthersWait
<1>14. Uncounted' \subseteq Uncounted
  BY <1>0, <1>3 DEF Uncounted, OthersWait
<1>15. \A j \in Secrets : handoff'[j].foreign = handoff[j].foreign
  BY <1>5
<1>16. AttemptsBounded'
  BY <1>2, <1>8, <1>14, <1>15, FewerUncounted, UncountedFinite DEF AttemptsBounded, TypeOK, Row
<1>17. BlobKeptUntilClaimedOrExpired'
  BY <1>0, <1>2, <1>5, NobodyAssumption DEF BlobKeptUntilClaimedOrExpired
<1>18. NotFoundMeansGone'
  BY <1>2, <1>5 DEF NotFoundMeansGone, HistoryHolds
<1> QED
  BY <1>2, <1>8, <1>9, <1>10, <1>11, <1>12, <1>13, <1>15, <1>16, <1>17, <1>18
  DEF SuccessCarriesTheBlob

\* The SELECT after a won claim still finds the blob.
LEMMA ReadClaimedKeeps ==
    ASSUME SecretInv, NEW s \in Sessions, ReadClaimed(s)
    PROVE  SecretInv'
<1> USE DEF SecretInv
<1>0. req[s] \in Reading /\ req[s].secret \in Secrets /\ req[s].pc = "readWon"
  BY RequestLocals DEF ReadClaimed
<1>1. UNCHANGED <<handoff, expired, alerts, answer, fetches, delivered, refused, missed>>
  BY DEF ReadClaimed
<1>2. /\ req' \in [Sessions -> Request] /\ OthersWait(s)
      /\ req'[s].pc = "blank" /\ req'[s].secret = req[s].secret /\ req'[s].actor = req[s].actor
      /\ req'[s].stored = req[s].stored /\ req'[s].envelope = handoff[req[s].secret].envelope
  BY <1>0, <1>1
  DEF ReadClaimed, Continue, LocalsOK, Request, Reading, Releasing, OthersWait, TypeOK, Row
<1>3. TypeOK' /\ LocalsOK'
  BY <1>1, <1>2 DEF TypeOK, LocalsOK
<1>4. WinnersHold' /\ OneWinner' /\ RowsWhole'
  BY <1>0, <1>1, <1>2
  DEF WinnersHold, Winning, HoldsBlob, OneWinner, RowsWhole, OthersWait
<1>5. HistoryHolds' /\ LosersLate'
  BY <1>0, <1>1, <1>2 DEF HistoryHolds, LosersLate, Fetching, OthersWait
<1>6. Uncounted' \subseteq Uncounted
  BY <1>2 DEF Uncounted, OthersWait
<1>7. AttemptsBounded'
  BY <1>1, <1>3, <1>6, FewerUncounted, UncountedFinite DEF AttemptsBounded, TypeOK, Row
<1> QED
  BY <1>1, <1>3, <1>4, <1>5, <1>7
  DEF SuccessCarriesTheBlob, BlobKeptUntilClaimedOrExpired,
      NotFoundMeansGone

\* The blanking UPDATE takes the blob from nobody else.
LEMMA BlankKeeps ==
    ASSUME SecretInv, NEW s \in Sessions, Blank(s)
    PROVE  SecretInv'
<1> USE DEF SecretInv
<1> DEFINE k == req[s].secret
<1>0. req[s] \in Releasing /\ k \in Secrets /\ req[s].pc = "blank"
  BY RequestLocals DEF Blank
<1>1. UNCHANGED <<expired, alerts, answer, fetches, delivered, refused, missed>>
  BY DEF Blank
<1>2. /\ req' \in [Sessions -> Request] /\ OthersWait(s)
      /\ req'[s].pc = "respond" /\ req'[s].secret = k /\ req'[s].actor = req[s].actor
      /\ req'[s].stored = req[s].stored /\ req'[s].envelope = req[s].envelope
  BY <1>0, <1>1 DEF Blank, Continue, LocalsOK, Request, Releasing, OthersWait
<1>3. handoff' \in [Secrets -> Row]
  BY <1>0, RowUpdates DEF Blank, TypeOK
<1>4. \A j \in Secrets : /\ SameClaim(j)
                         /\ handoff'[j].approved = handoff[j].approved
                         /\ handoff'[j].envelope = (handoff[j].envelope /\ j # k)
                         /\ handoff'[j].foreign = handoff[j].foreign
  BY <1>0 DEF Blank, TypeOK, Row, SameClaim
<1>5. HoldsBlob(s) /\ handoff[k].fetchedBy # Nobody
  BY <1>0, NobodyAssumption DEF WinnersHold, Winning, HoldsBlob, Releasing
<1>6. TypeOK' /\ LocalsOK'
  BY <1>1, <1>2, <1>3, <1>4 DEF TypeOK, LocalsOK, SameClaim
<1>7. WinnersHold'
  <2> SUFFICES ASSUME NEW t \in Sessions, Winning(t)' PROVE HoldsBlob(t)'
    BY DEF WinnersHold
  <2>1. CASE t = s
    BY <2>1, <1>0, <1>1, <1>2, <1>4, <1>5 DEF HoldsBlob, SameClaim
  <2>2. CASE t # s
    <3>1. Winning(t) /\ HoldsBlob(t) /\ req'[t] = req[t] /\ req[t].secret \in Secrets
      BY <2>2, <1>2, RequestLocals DEF Winning, WinnersHold, OthersWait
    <3>2. req[t].secret # k
      BY <2>2, <3>1, <1>0 DEF OneWinner, Winning
    <3> QED
      BY <3>1, <3>2, <1>1, <1>4 DEF HoldsBlob, SameClaim
  <2> QED
    BY <2>1, <2>2
<1>8. OneWinner'
  BY <1>0, <1>2 DEF OneWinner, Winning, OthersWait
<1>9. RowsWhole'
  BY <1>1, <1>4 DEF RowsWhole, SameClaim
<1>10. HistoryHolds' /\ LosersLate'
  <2>1. HistoryHolds'
    BY <1>0, <1>1, <1>2, <1>4, RequestLocals
    DEF HistoryHolds, Fetching, OthersWait, SameClaim
  <2>2. \A j \in Secrets : handoff'[j].envelope => handoff[j].envelope
    BY <1>4
  <2>3. LosersLate'
    BY <1>1, <1>2, <1>4, <2>2, RequestLocals DEF LosersLate, OthersWait, SameClaim
  <2> QED
    BY <2>1, <2>3
<1>11. Uncounted' \subseteq Uncounted
  BY <1>2 DEF Uncounted, OthersWait
<1>12. AttemptsBounded'
  BY <1>1, <1>4, <1>6, <1>11, FewerUncounted, UncountedFinite DEF AttemptsBounded, TypeOK, Row
<1>13. BlobKeptUntilClaimedOrExpired'
  BY <1>1, <1>4, <1>5 DEF BlobKeptUntilClaimedOrExpired, SameClaim
<1>14. NotFoundMeansGone'
  BY <1>1, <1>4 DEF NotFoundMeansGone, HistoryHolds, SameClaim
<1> QED
  BY <1>1, <1>4, <1>6, <1>7, <1>8, <1>9, <1>10, <1>12, <1>13, <1>14
  DEF SuccessCarriesTheBlob

\* The addressee is sent the blob, once.
LEMMA RespondDelivers ==
    ASSUME SecretInv, NEW s \in Sessions, Respond(s)
    PROVE  /\ req[s].secret \in Secrets
           /\ HoldsBlob(s) /\ req[s].envelope /\ handoff[req[s].secret].fetchedBy \in Actors
           /\ delivered' \in [Secrets -> Seq(Actors)]
           /\ delivered'[req[s].secret] = <<handoff[req[s].secret].to>>
           /\ delivered'[req[s].secret] # <<>>
           /\ \A j \in Secrets : j # req[s].secret => delivered'[j] = delivered[j]
<1>1. req[s] \in Releasing /\ req[s].secret \in Secrets /\ req[s].pc = "respond"
  BY RequestLocals DEF Respond, SecretInv
<1>2. HoldsBlob(s) /\ req[s].envelope /\ req[s].actor \in Actors
  BY <1>1 DEF SecretInv, WinnersHold, Winning, HoldsBlob, Releasing
<1>3. delivered' = [delivered EXCEPT ![req[s].secret] = Append(@, req[s].actor)]
  BY <1>2 DEF Respond
<1>4. Append(<<>>, req[s].actor) = <<req[s].actor>> /\ <<req[s].actor>> # <<>>
  OBVIOUS
<1> QED
  BY <1>1, <1>2, <1>3, <1>4 DEF HoldsBlob, SecretInv, TypeOK

\* The answer of a fetch that won.
LEMMA RespondKeeps ==
    ASSUME SecretInv, NEW s \in Sessions, Respond(s)
    PROVE  SecretInv'
<1> USE DEF SecretInv
<1>0. req[s] \in Releasing /\ req[s].secret \in Secrets /\ req[s].pc = "respond"
  BY RequestLocals DEF Respond
<1>1. UNCHANGED <<handoff, expired, alerts, fetches, refused, missed>>
  BY DEF Respond
<1>2. /\ req' \in [Sessions -> Request] /\ req'[s] = Idle /\ OthersWait(s)
      /\ answer'[s] = [kind |-> "secret", secret |-> req[s].secret,
                       live |-> FALSE, stored |-> FALSE]
  BY DEF Respond, Return, LocalsOK, Request, OthersWait
<1>3. Live(req[s].secret) \in BOOLEAN
  BY <1>0 DEF Live, TypeOK, Row
<1>4. answer' \in [Sessions -> Answer]
  BY <1>0, <1>3 DEF Respond, Return, LocalsOK, Answer, Kinds, Releasing
<1>5. TypeOK' /\ LocalsOK'
  BY <1>1, <1>2, <1>4, RespondDelivers DEF TypeOK, LocalsOK, Answer
<1>6. WinnersHold'
  BY <1>0, <1>1, <1>2, RespondDelivers, RequestLocals
  DEF WinnersHold, Winning, HoldsBlob, OneWinner, OthersWait, Idle
<1>7. OneWinner'
  BY <1>2 DEF OneWinner, Winning, OthersWait, Idle
<1>8. RowsWhole'
  BY <1>1, RespondDelivers, NobodyAssumption DEF RowsWhole
<1>9. HistoryHolds' /\ LosersLate'
  BY <1>0, <1>1, <1>2 DEF HistoryHolds, LosersLate, Fetching, OthersWait, Idle
<1>10. Uncounted' \subseteq Uncounted
  BY <1>2 DEF Uncounted, OthersWait, Idle
<1>11. AttemptsBounded'
  BY <1>1, <1>5, <1>10, FewerUncounted, UncountedFinite DEF AttemptsBounded, TypeOK, Row
<1>12. SuccessCarriesTheBlob'
  <2>1. \A j \in Secrets : delivered[j] # <<>> => delivered'[j] # <<>>
    BY RespondDelivers DEF HoldsBlob
  <2>2. delivered'[req[s].secret] # <<>>
    BY RespondDelivers
  <2> QED
    BY <2>1, <2>2, <1>2 DEF SuccessCarriesTheBlob, HistoryHolds, OthersWait
<1>13. NotFoundMeansGone'
  BY <1>1, <1>2 DEF NotFoundMeansGone, OthersWait
<1> QED
  BY <1>1, <1>5, <1>6, <1>7, <1>8, <1>9, <1>11, <1>12, <1>13
  DEF BlobKeptUntilClaimedOrExpired

\* The answer, or the alarm, of a fetch that lost.
LEMMA ClassifyKeeps ==
    ASSUME SecretInv, NEW s \in Sessions, Classify(s)
    PROVE  SecretInv'
<1> USE DEF SecretInv
<1>0. req[s] \in Reading /\ req[s].secret \in Secrets /\ req[s].pc = "readLost"
  BY RequestLocals DEF Classify
<1>1. UNCHANGED <<handoff, expired, alerts, fetches, delivered, refused, missed>>
  BY DEF Classify
<1>2. CASE \E pc \in {"count", "alertDouble"} :
              /\ Continue(s, [pc |-> pc, actor |-> req[s].actor, secret |-> req[s].secret,
                              stored |-> req[s].stored, foreign |-> handoff[req[s].secret].foreign])
              /\ handoff[req[s].secret].exists /\ UNCHANGED answer
  <2>1. PICK pc \in {"count", "alertDouble"} :
              /\ Continue(s, [pc |-> pc, actor |-> req[s].actor, secret |-> req[s].secret,
                              stored |-> req[s].stored, foreign |-> handoff[req[s].secret].foreign])
              /\ handoff[req[s].secret].exists /\ UNCHANGED answer
    BY <1>2
  <2>2. req' \in [Sessions -> Request]
    BY <1>0, <2>1 DEF Continue, LocalsOK, Request, Reading, Refusing, TypeOK, Row
  <2>3. /\ req'[s].pc \in {"count", "alertDouble"} /\ req'[s].secret = req[s].secret
        /\ req'[s].stored = req[s].stored
        /\ \A t \in Sessions : t # s => req'[t] = req[t]
    BY <2>1 DEF Continue, LocalsOK
  <2>4. TypeOK' /\ LocalsOK'
    BY <1>1, <2>1, <2>2 DEF TypeOK, LocalsOK
  <2>5. WinnersHold' /\ OneWinner' /\ RowsWhole'
    BY <1>1, <2>3 DEF WinnersHold, Winning, HoldsBlob, OneWinner, RowsWhole
  <2>6. HistoryHolds' /\ LosersLate'
    BY <1>0, <1>1, <2>1, <2>3 DEF HistoryHolds, LosersLate, Fetching
  <2>7. Uncounted' \subseteq Uncounted
    BY <1>0, <2>3 DEF Uncounted
  <2>8. AttemptsBounded'
    BY <1>1, <2>4, <2>7, FewerUncounted, UncountedFinite DEF AttemptsBounded, TypeOK, Row
  <2> QED
    BY <1>1, <2>1, <2>4, <2>5, <2>6, <2>8
    DEF SuccessCarriesTheBlob, BlobKeptUntilClaimedOrExpired,
        NotFoundMeansGone
<1>3. CASE \E kind \in {"not_found", "needs_approval"} :
              /\ Return(s, kind)
              /\ kind = "not_found" => ~ /\ handoff[req[s].secret].exists
                                         /\ \/ handoff[req[s].secret].to # req[s].actor
                                            \/ handoff[req[s].secret].fetchedBy # Nobody
  <2>1. PICK kind \in {"not_found", "needs_approval"} :
              /\ Return(s, kind)
              /\ kind = "not_found" => ~ /\ handoff[req[s].secret].exists
                                         /\ \/ handoff[req[s].secret].to # req[s].actor
                                            \/ handoff[req[s].secret].fetchedBy # Nobody
    BY <1>3
  <2>2. /\ req' \in [Sessions -> Request] /\ req'[s] = Idle
        /\ \A t \in Sessions : t # s => req'[t] = req[t] /\ answer'[t] = answer[t]
    BY <2>1 DEF Return, LocalsOK, Request
  <2>3. answer'[s] = [kind |-> kind, secret |-> req[s].secret,
                      live |-> kind = "not_found" /\ Live(req[s].secret),
                      stored |-> kind = "not_found" /\ req[s].stored]
    BY <2>1 DEF Return, LocalsOK
  <2>13. /\ answer'[s].kind = kind /\ answer'[s].secret = req[s].secret
         /\ answer'[s].live => Live(req[s].secret)
         /\ answer'[s].stored => req[s].stored
    <3>1. answer'[s].live = (kind = "not_found" /\ Live(req[s].secret))
      BY <2>3
    <3>2. answer'[s].stored = (kind = "not_found" /\ req[s].stored)
      BY <2>3
    <3>3. answer'[s].kind = kind /\ answer'[s].secret = req[s].secret
      BY <2>3
    <3> QED
      BY <3>1, <3>2, <3>3
  <2>4. Live(req[s].secret) \in BOOLEAN
    BY <1>0 DEF Live, TypeOK, Row
  <2>5. answer' \in [Sessions -> Answer] /\ \A t \in Sessions : answer'[t].kind \in Kinds
    BY <1>0, <2>1, <2>4 DEF Return, LocalsOK, Answer, Kinds, Reading
  <2>6. TypeOK' /\ LocalsOK'
    BY <1>1, <2>2, <2>5 DEF TypeOK, LocalsOK
  <2>7. WinnersHold' /\ OneWinner' /\ RowsWhole'
    BY <1>1, <2>2 DEF WinnersHold, Winning, HoldsBlob, OneWinner, RowsWhole, Idle
  <2>8. HistoryHolds' /\ LosersLate'
    BY <1>0, <1>1, <2>1, <2>2, <2>13 DEF HistoryHolds, LosersLate, Fetching, Idle
  <2>9. Uncounted' \subseteq Uncounted
    BY <2>2 DEF Uncounted, Idle
  <2>10. AttemptsBounded'
    BY <1>1, <2>6, <2>9, FewerUncounted, UncountedFinite DEF AttemptsBounded, TypeOK, Row
  <2>11. SuccessCarriesTheBlob'
    BY <1>1, <2>2, <2>3 DEF SuccessCarriesTheBlob
  <2>12. NotFoundMeansGone'
    BY <1>0, <1>1, <2>1, <2>2, <2>13, RequestLocals
    DEF NotFoundMeansGone, LosersLate, HistoryHolds, Fetching, Live
  <2> QED
    BY <1>1, <2>6, <2>7, <2>8, <2>10, <2>11, <2>12
    DEF BlobKeptUntilClaimedOrExpired
<1> QED
  BY <1>0, <1>2, <1>3 DEF Classify

\* A counter has room for an attempt that is not counted yet.
LEMMA CountBound ==
    ASSUME SecretInv, NEW s \in Sessions, req[s].pc = "count"
    PROVE  \A k \in Secrets : handoff[k].foreign + 1 \in 0 .. MaxFetches
<1>1. Cardinality(Uncounted) > 0
  BY UncountedFinite, FS_EmptySet DEF Uncounted
<1> QED
  BY <1>1, UncountedFinite, MaxFetchesAssumption DEF SecretInv, TypeOK, Row, AttemptsBounded

\* foreign_attempts + 1, computed by the database.
LEMMA CountForeignKeeps ==
    ASSUME SecretInv, NEW s \in Sessions, CountForeign(s)
    PROVE  SecretInv'
<1> USE DEF SecretInv
<1> DEFINE k == req[s].secret
<1>0. req[s] \in Refusing /\ k \in Secrets /\ req[s].pc = "count"
  BY RequestLocals DEF CountForeign
<1>1. UNCHANGED <<expired, alerts, answer, fetches, delivered, refused>>
  BY DEF CountForeign
<1>2. /\ req' \in [Sessions -> Request] /\ OthersWait(s)
      /\ req'[s].pc = "alertForeign" /\ req'[s].secret = k /\ req'[s].stored = req[s].stored
  BY <1>0, <1>1 DEF CountForeign, Continue, LocalsOK, Request, Refusing, OthersWait
<1>3. /\ handoff' \in [Secrets -> Row] /\ missed' \in [Secrets -> Nat]
      /\ \A j \in Secrets : /\ SameClaim(j)
                            /\ handoff'[j].approved = handoff[j].approved
                            /\ handoff'[j].envelope = handoff[j].envelope
                            /\ handoff'[j].foreign <= handoff[j].foreign + 1
                            /\ j # k => handoff'[j].foreign = handoff[j].foreign
  <2>1. \A j \in Secrets : handoff[j].foreign \in Nat /\ handoff[j].foreign <= handoff[j].foreign + 1
    BY MaxFetchesAssumption DEF TypeOK, Row
  <2>2. CASE UNCHANGED handoff /\ missed' = [missed EXCEPT ![k] = @ + 1]
    BY <2>1, <2>2, <1>0 DEF TypeOK, LocalsOK, SameClaim
  <2>3. CASE handoff' = [handoff EXCEPT ![k].foreign = @ + 1] /\ UNCHANGED missed
    <3> DEFINE n == handoff[k].foreign + 1
    <3>1. n \in 0 .. MaxFetches
      BY <1>0, CountBound
    <3>2. handoff' = [handoff EXCEPT ![k] = [handoff[k] EXCEPT !.foreign = n]]
      BY <2>3
    <3>3. \A j \in Secrets : j # k => handoff'[j] = handoff[j]
      BY <3>2 DEF TypeOK
    <3>4. handoff'[k] = [handoff[k] EXCEPT !.foreign = n]
      BY <3>2, <1>0 DEF TypeOK
    <3>5. n <= handoff[k].foreign + 1
      BY <2>1, <1>0
    <3> HIDE DEF n
    <3>6. SameClaim(k) /\ handoff'[k].approved = handoff[k].approved
          /\ handoff'[k].envelope = handoff[k].envelope /\ handoff'[k].foreign = n
      BY <3>4, <1>0 DEF TypeOK, Row, SameClaim
    <3>7. handoff' \in [Secrets -> Row] /\ missed' \in [Secrets -> Nat]
      BY <2>3, <3>1, <3>2, <1>0, RowUpdates DEF TypeOK, LocalsOK
    <3> HIDE DEF k
    <3> QED
      BY <2>1, <3>3, <3>5, <3>6, <3>7 DEF SameClaim
  <2> QED
    BY <2>2, <2>3 DEF CountForeign
<1>4. TypeOK' /\ LocalsOK'
  BY <1>1, <1>2, <1>3 DEF TypeOK, LocalsOK, SameClaim
<1>5. WinnersHold' /\ OneWinner'
  BY <1>1, <1>2, <1>3, RequestLocals
  DEF WinnersHold, Winning, HoldsBlob, OneWinner, OthersWait, SameClaim
<1>6. RowsWhole'
  <2>1. handoff[k].exists
    BY <1>0 DEF HistoryHolds
  <2> QED
    BY <2>1, <1>1, <1>3 DEF RowsWhole, SameClaim
<1>7. HistoryHolds' /\ LosersLate'
  BY <1>0, <1>1, <1>2, <1>3, RequestLocals
  DEF HistoryHolds, LosersLate, Fetching, OthersWait, SameClaim
<1>8. s \in Uncounted /\ Uncounted' = Uncounted \ {s}
  BY <1>0, <1>2 DEF Uncounted, OthersWait
<1>9. AttemptsBounded'
  <2>1. Cardinality(Uncounted') = Cardinality(Uncounted) - 1
    BY <1>8, OneLessUncounted
  <2>2. /\ fetches \in Nat /\ \A j \in Secrets : handoff[j].foreign \in Nat
        /\ \A j \in Secrets : handoff'[j].foreign \in Nat
        /\ \A j \in Secrets : handoff[j].foreign + Cardinality(Uncounted) <= fetches
    BY <1>3, MaxFetchesAssumption DEF TypeOK, Row, AttemptsBounded
  <2> QED
    BY <1>1, <1>3, <2>1, <2>2, UncountedFinite DEF AttemptsBounded
<1>10. BlobKeptUntilClaimedOrExpired'
  BY <1>1, <1>3 DEF BlobKeptUntilClaimedOrExpired, SameClaim
<1>11. SuccessCarriesTheBlob' /\ NotFoundMeansGone'
  BY <1>1, <1>3 DEF SuccessCarriesTheBlob, NotFoundMeansGone, HistoryHolds, SameClaim
<1> QED
  BY <1>4, <1>5, <1>6, <1>7, <1>9, <1>10, <1>11

\* The alert to the sender and the refusal.
LEMMA AlertKeeps ==
    ASSUME SecretInv, NEW s \in Sessions, NEW pc \in {"alertForeign", "alertDouble"},
           NEW row \in {"foreign_fetch", "double_fetch"}, NEW kind \in {"foreign", "already"},
           Alert(s, pc, row, kind)
    PROVE  SecretInv'
<1> USE DEF SecretInv
<1>0. req[s] \in Refusing /\ req[s].secret \in Secrets /\ req[s].pc = pc
  BY RequestLocals DEF Alert
<1>1. /\ UNCHANGED <<handoff, expired, fetches, delivered, missed>>
      /\ refused' \in [Secrets -> Nat]
  BY <1>0 DEF Alert, LocalsOK
<1>2. /\ req' \in [Sessions -> Request] /\ req'[s] = Idle /\ OthersWait(s)
      /\ answer'[s] = [kind |-> kind, secret |-> req[s].secret, live |-> FALSE, stored |-> FALSE]
  BY DEF Alert, Return, LocalsOK, Request, OthersWait
<1>3. Live(req[s].secret) \in BOOLEAN
  BY <1>0 DEF Live, TypeOK, Row
<1>4. answer' \in [Sessions -> Answer]
  BY <1>0, <1>3 DEF Alert, Return, LocalsOK, Answer, Kinds, Refusing
<1>5. alerts' \subseteq (Secrets \X {"foreign_fetch", "double_fetch"})
  BY <1>0 DEF Alert, TypeOK
<1>6. TypeOK' /\ LocalsOK'
  BY <1>1, <1>2, <1>4, <1>5 DEF TypeOK, LocalsOK, Answer
<1>7. WinnersHold' /\ OneWinner' /\ RowsWhole'
  BY <1>1, <1>2
  DEF WinnersHold, Winning, HoldsBlob, OneWinner, RowsWhole, OthersWait, Idle
<1>8. HistoryHolds' /\ LosersLate'
  BY <1>0, <1>1, <1>2 DEF HistoryHolds, LosersLate, Fetching, OthersWait, Idle
<1>9. Uncounted' \subseteq Uncounted
  BY <1>2 DEF Uncounted, OthersWait, Idle
<1>10. AttemptsBounded'
  BY <1>1, <1>6, <1>9, FewerUncounted, UncountedFinite DEF AttemptsBounded, TypeOK, Row
<1>11. SuccessCarriesTheBlob' /\ NotFoundMeansGone'
  BY <1>1, <1>2 DEF SuccessCarriesTheBlob, NotFoundMeansGone, OthersWait
<1> QED
  BY <1>1, <1>6, <1>7, <1>8, <1>10, <1>11
  DEF BlobKeptUntilClaimedOrExpired

\* A request that ends early leaves the rest as it was.
LEMMA AbortKeeps ==
    ASSUME SecretInv, NEW s \in Sessions, Abort(s)
    PROVE  SecretInv'
<1> USE DEF SecretInv
<1>1. UNCHANGED <<handoff, expired, alerts, answer, fetches, delivered, refused, missed>>
  BY DEF Abort
<1>2. req' \in [Sessions -> Request] /\ req'[s] = Idle /\ OthersWait(s)
  BY <1>1 DEF Abort, Continue, LocalsOK, Request, OthersWait
<1>3. TypeOK' /\ LocalsOK'
  BY <1>1, <1>2 DEF TypeOK, LocalsOK
<1>4. WinnersHold' /\ OneWinner' /\ RowsWhole'
  BY <1>1, <1>2
  DEF WinnersHold, Winning, HoldsBlob, OneWinner, RowsWhole, OthersWait, Idle
<1>5. HistoryHolds' /\ LosersLate'
  BY <1>1, <1>2 DEF HistoryHolds, LosersLate, Fetching, OthersWait, Idle
<1>6. Uncounted' \subseteq Uncounted
  BY <1>2 DEF Uncounted, OthersWait, Idle
<1>7. AttemptsBounded'
  BY <1>1, <1>3, <1>6, FewerUncounted, UncountedFinite DEF AttemptsBounded, TypeOK, Row
<1> QED
  BY <1>1, <1>3, <1>4, <1>5, <1>7
  DEF SuccessCarriesTheBlob, BlobKeptUntilClaimedOrExpired,
      NotFoundMeansGone

\* An empty table.
LEMMA InitEstablishesSecretInv == Init => SecretInv
<1> SUFFICES ASSUME Init PROVE SecretInv
  OBVIOUS
<1>1. TypeOK
  BY MaxFetchesAssumption DEF Init, TypeOK, Row, Absent, NoAnswer, Kinds
<1>2. LocalsOK
  BY DEF Init, LocalsOK, Request, Answer, NoAnswer, Kinds
<1>3. Uncounted = {}
  BY DEF Init, Uncounted, Idle
<1>4. AttemptsBounded
  BY <1>3, FS_EmptySet DEF Init, AttemptsBounded, Absent
<1> QED
  BY <1>1, <1>2, <1>4
  DEF Init, SecretInv, WinnersHold, Winning, OneWinner, RowsWhole, HistoryHolds, Fetching,
      LosersLate, SuccessCarriesTheBlob,
      BlobKeptUntilClaimedOrExpired, NotFoundMeansGone, Absent, Idle, NoAnswer

\* Every statement keeps the invariant.
LEMMA StepKeepsSecretInv == SecretInv /\ [Next]_vars => SecretInv'
<1> SUFFICES ASSUME SecretInv, [Next]_vars PROVE SecretInv'
  OBVIOUS
<1>1. CASE UNCHANGED vars
  BY <1>1
  DEF vars, SecretInv, TypeOK, LocalsOK, WinnersHold, Winning, HoldsBlob, OneWinner, RowsWhole,
      HistoryHolds, Fetching, LosersLate, AttemptsBounded, Uncounted, SuccessCarriesTheBlob,
      BlobKeptUntilClaimedOrExpired, NotFoundMeansGone
<1>2. CASE Next
  BY <1>2, ExpireKeeps, ApproveKeeps, SendSweepKeeps, CreateKeeps, FetchSweepKeeps, ClaimKeeps,
     ReadClaimedKeeps, BlankKeeps, RespondKeeps, ClassifyKeeps, CountForeignKeeps, AlertKeeps,
     AbortKeeps, Zenon
  DEF Next
<1> QED
  BY <1>1, <1>2

------------------------------------------------------------------------------
(* The theorems.                                                           *)

\* Every reachable state of the handoff statements satisfies the invariant.
THEOREM SecretInvariant == Spec => []SecretInv
<1> QED
  BY InitEstablishesSecretInv, StepKeepsSecretInv, PTL DEF Spec

\* ClaimSecretHandoff: whatever else runs between the claim and the read, a
\* fetch that succeeds carries the blob.
THEOREM SecretsKeepTheirShape == Spec => []HandoffInv
<1>1. SecretInv => HandoffInv
  BY DEF SecretInv, HandoffInv
<1> QED
  BY <1>1, SecretInvariant, PTL

\* SweepExpiredSecrets and the blanking UPDATE: an unclaimed blob goes only by expiry.
THEOREM UnclaimedBlobIsKept == Spec => []BlobKeptUntilClaimedOrExpired
<1>1. SecretInv => BlobKeptUntilClaimedOrExpired
  BY DEF SecretInv
<1> QED
  BY <1>1, SecretInvariant, PTL

\* ClaimSecretHandoff's classification: nobody is told that a routine secret is
\* missing while it can still be released.
THEOREM NotFoundIsTrue == Spec => []NotFoundMeansGone
<1>1. SecretInv => NotFoundMeansGone
  BY DEF SecretInv
<1> QED
  BY <1>1, SecretInvariant, PTL

------------------------------------------------------------------------------
(* Every foreign fetch that is refused has been counted, or its update has *)
(* failed: the refusals given, with those about to be given, are no more   *)
(* than the counter and the failed updates.                                *)

\* The foreign fetches of a secret that are past the counting UPDATE.
Pending(k) == {s \in Sessions : req[s].pc = "alertForeign" /\ req[s].secret = k}
Accounted(k) == refused[k] + Cardinality(Pending(k)) <= handoff[k].foreign + missed[k]
AccountsHold == \A k \in Secrets : Accounted(k)

\* What the sums are made of.
LEMMA AccountsAreNumbers ==
    ASSUME TypeOK, LocalsOK, NEW k \in Secrets
    PROVE  /\ refused[k] \in Nat /\ missed[k] \in Nat /\ handoff[k].foreign \in Nat
           /\ IsFiniteSet(Pending(k)) /\ Cardinality(Pending(k)) \in Nat
<1>1. IsFiniteSet(Pending(k))
  BY SessionsAssumption, FS_Subset DEF Pending
<1> QED
  BY <1>1, FS_CardinalityType, MaxFetchesAssumption DEF TypeOK, LocalsOK, Row

\* A statement that neither counts nor refuses keeps the accounts: it adds
\* nobody to those about to be refused.
LEMMA AccountsUndisturbed ==
    ASSUME SecretInv, SecretInv', NEW k \in Secrets, Accounted(k),
           refused'[k] = refused[k], missed'[k] = missed[k],
           handoff'[k].foreign = handoff[k].foreign,
           Pending(k)' \subseteq Pending(k)
    PROVE  Accounted(k)'
<1>1. /\ refused[k] \in Nat /\ missed[k] \in Nat /\ handoff[k].foreign \in Nat
      /\ IsFiniteSet(Pending(k)) /\ Cardinality(Pending(k)) \in Nat
  BY AccountsAreNumbers DEF SecretInv
<1>2. Cardinality(Pending(k)') \in Nat /\ Cardinality(Pending(k)') <= Cardinality(Pending(k))
  BY <1>1, FS_Subset, FS_CardinalityType
<1> QED
  BY <1>1, <1>2 DEF Accounted

\* Such statements, by what they do to the requests and to the counters.
Quiet ==
    /\ UNCHANGED <<refused, missed>>
    /\ \A k \in Secrets : handoff'[k].foreign = handoff[k].foreign
    /\ \A t \in Sessions : req'[t].pc = "alertForeign" => req'[t] = req[t]

LEMMA QuietKeepsAccounts ==
    ASSUME SecretInv, SecretInv', AccountsHold, Quiet
    PROVE  AccountsHold'
<1> SUFFICES ASSUME NEW k \in Secrets PROVE Accounted(k)'
  BY DEF AccountsHold
<1>1. Pending(k)' \subseteq Pending(k)
  BY DEF Pending, Quiet
<1> QED
  BY <1>1, AccountsUndisturbed DEF Quiet, AccountsHold

\* Every statement but the counting one and the refusal of a foreign fetch.
LEMMA QuietStatements ==
    ASSUME SecretInv, NEW s \in Sessions
    PROVE  /\ \A from \in Actors, to \in Actors, k \in Secrets, admin \in BOOLEAN :
                 SendSweep(s, from, to, k, admin) => Quiet
           /\ CreateSecretHandoff(s) => Quiet
           /\ \A a \in Actors, k \in Secrets : FetchSweep(s, a, k) => Quiet
           /\ Claim(s) \/ ReadClaimed(s) \/ Blank(s) \/ Respond(s) \/ Classify(s) => Quiet
           /\ Alert(s, "alertDouble", "double_fetch", "already") \/ Abort(s) => Quiet
<1> USE DEF SecretInv
<1>1. ASSUME NEW from \in Actors, NEW to \in Actors, NEW k \in Secrets, NEW admin \in BOOLEAN,
             SendSweep(s, from, to, k, admin)
      PROVE  Quiet
  BY <1>1, SweepBlanks DEF SendSweep, Continue, Quiet, LocalsOK
<1>2. ASSUME NEW a \in Actors, NEW k \in Secrets, FetchSweep(s, a, k) PROVE Quiet
  BY <1>2, SweepBlanks DEF FetchSweep, Continue, Quiet, LocalsOK
<1>3. ASSUME CreateSecretHandoff(s) PROVE Quiet
  BY <1>3, RequestLocals DEF CreateSecretHandoff, Continue, Idle, Quiet, LocalsOK, TypeOK, RowsWhole
<1>4. ASSUME Claim(s) PROVE Quiet
  <2>1. req[s].secret \in Secrets
    BY <1>4, RequestLocals DEF Claim
  <2> QED
    BY <1>4, <2>1, RowUpdates DEF Claim, Continue, Quiet, LocalsOK, TypeOK, Row
<1>5. ASSUME ReadClaimed(s) PROVE Quiet
  BY <1>5 DEF ReadClaimed, Continue, Quiet, LocalsOK
<1>6. ASSUME Blank(s) PROVE Quiet
  <2>1. req[s] \in Releasing /\ req[s].secret \in Secrets
    BY <1>6, RequestLocals DEF Blank
  <2> QED
    BY <1>6, <2>1, RowUpdates DEF Blank, Continue, Quiet, LocalsOK, TypeOK, Row, Releasing
<1>7. ASSUME Respond(s) PROVE Quiet
  BY <1>7 DEF Respond, Return, Idle, Quiet, LocalsOK
<1>8. ASSUME Classify(s) PROVE Quiet
  BY <1>8 DEF Classify, Return, Continue, Idle, Quiet, LocalsOK
<1>9. ASSUME Alert(s, "alertDouble", "double_fetch", "already") PROVE Quiet
  BY <1>9 DEF Alert, Return, Idle, Quiet, LocalsOK
<1>10. ASSUME Abort(s) PROVE Quiet
  BY <1>10 DEF Abort, Continue, Idle, Quiet, LocalsOK
<1> QED
  BY <1>1, <1>2, <1>3, <1>4, <1>5, <1>6, <1>7, <1>8, <1>9, <1>10

\* The counting UPDATE raises the counter or fails, and one more is to be refused.
LEMMA CountKeepsAccounts ==
    ASSUME SecretInv, AccountsHold, NEW s \in Sessions, CountForeign(s)
    PROVE  AccountsHold'
<1> DEFINE k == req[s].secret
<1>0. req[s] \in Refusing /\ k \in Secrets /\ req[s].pc = "count"
  BY RequestLocals DEF CountForeign, SecretInv
<1>1. /\ req'[s].pc = "alertForeign" /\ req'[s].secret = k
      /\ \A t \in Sessions : t # s => req'[t] = req[t]
  BY <1>0 DEF CountForeign, Continue, SecretInv, LocalsOK, Refusing
<1>2. /\ UNCHANGED refused
      /\ \/ handoff' = [handoff EXCEPT ![k].foreign = @ + 1] /\ UNCHANGED missed
         \/ missed' = [missed EXCEPT ![k] = @ + 1] /\ UNCHANGED handoff
  BY DEF CountForeign
<1> HIDE DEF k
<1>3. SUFFICES ASSUME NEW j \in Secrets PROVE Accounted(j)'
  BY DEF AccountsHold
<1>4. /\ refused[j] \in Nat /\ missed[j] \in Nat /\ handoff[j].foreign \in Nat
      /\ IsFiniteSet(Pending(j)) /\ Cardinality(Pending(j)) \in Nat
      /\ Accounted(j)
  BY AccountsAreNumbers DEF SecretInv, AccountsHold
<1>5. CASE j # k
  <2>1. Pending(j)' = Pending(j)
    BY <1>0, <1>1, <1>5 DEF Pending, k
  <2>2. handoff'[j].foreign = handoff[j].foreign /\ missed'[j] = missed[j]
    BY <1>2, <1>5 DEF SecretInv, TypeOK, LocalsOK
  <2> QED
    BY <1>2, <1>4, <2>1, <2>2 DEF Accounted
<1>6. CASE j = k
  <2>1. Pending(j)' = Pending(j) \union {s} /\ s \notin Pending(j)
    BY <1>0, <1>1, <1>6 DEF Pending, k
  <2>2. Cardinality(Pending(j)') = Cardinality(Pending(j)) + 1
    BY <1>4, <2>1, FS_AddElement
  <2>3. handoff'[j].foreign + missed'[j] = handoff[j].foreign + missed[j] + 1
    <3>1. CASE handoff' = [handoff EXCEPT ![k].foreign = @ + 1] /\ UNCHANGED missed
      <4>1. handoff'[j] = [handoff[j] EXCEPT !.foreign = handoff[j].foreign + 1]
        BY <3>1, <1>0, <1>6 DEF SecretInv, TypeOK
      <4>2. handoff'[j].foreign = handoff[j].foreign + 1
        BY <4>1, RowUpdates DEF SecretInv, Row
      <4> QED
        BY <4>2, <3>1, <1>4
    <3>2. CASE missed' = [missed EXCEPT ![k] = @ + 1] /\ UNCHANGED handoff
      BY <3>2, <1>0, <1>4, <1>6 DEF SecretInv, LocalsOK
    <3> QED
      BY <1>2, <3>1, <3>2
  <2>4. handoff'[j].foreign \in Nat /\ missed'[j] \in Nat
    <3>1. SecretInv'
      BY CountForeignKeeps
    <3> QED
      BY <3>1, MaxFetchesAssumption DEF SecretInv, TypeOK, LocalsOK, Row
  <2> QED
    BY <1>2, <1>4, <2>2, <2>3, <2>4 DEF Accounted
<1> QED
  BY <1>5, <1>6

\* The refusal: one less is to be refused.
LEMMA RefusalKeepsAccounts ==
    ASSUME SecretInv, AccountsHold, NEW s \in Sessions,
           Alert(s, "alertForeign", "foreign_fetch", "foreign")
    PROVE  AccountsHold'
<1> DEFINE k == req[s].secret
<1>0. k \in Secrets /\ req[s].pc = "alertForeign"
  BY RequestLocals DEF Alert, SecretInv
<1>1. /\ req'[s].pc = "idle"
      /\ \A t \in Sessions : t # s => req'[t] = req[t]
  BY <1>0 DEF Alert, Return, Idle, SecretInv, LocalsOK
<1>2. UNCHANGED <<handoff, missed>> /\ refused' = [refused EXCEPT ![k] = @ + 1]
  BY DEF Alert
<1> HIDE DEF k
<1>3. SUFFICES ASSUME NEW j \in Secrets PROVE Accounted(j)'
  BY DEF AccountsHold
<1>4. /\ refused[j] \in Nat /\ missed[j] \in Nat /\ handoff[j].foreign \in Nat
      /\ IsFiniteSet(Pending(j)) /\ Cardinality(Pending(j)) \in Nat
      /\ Accounted(j)
  BY AccountsAreNumbers DEF SecretInv, AccountsHold
<1>5. CASE j # k
  <2>1. Pending(j)' = Pending(j)
    BY <1>0, <1>1, <1>5 DEF Pending, k
  <2>2. refused'[j] = refused[j]
    BY <1>2, <1>5 DEF SecretInv, LocalsOK
  <2> QED
    BY <1>2, <1>4, <2>1, <2>2 DEF Accounted
<1>6. CASE j = k
  <2>1. Pending(j)' = Pending(j) \ {s} /\ s \in Pending(j)
    BY <1>0, <1>1, <1>6 DEF Pending, k
  <2>2. Cardinality(Pending(j)') = Cardinality(Pending(j)) - 1
    BY <1>4, <2>1, FS_RemoveElement
  <2>3. refused'[j] = refused[j] + 1
    BY <1>2, <1>0, <1>6 DEF SecretInv, LocalsOK
  <2> QED
    BY <1>2, <1>4, <2>2, <2>3 DEF Accounted
<1> QED
  BY <1>5, <1>6

LEMMA StepKeepsAccounts ==
    ASSUME SecretInv, SecretInv', AccountsHold, [Next]_vars
    PROVE  AccountsHold'
<1>1. CASE UNCHANGED vars
  BY <1>1 DEF vars, AccountsHold, Accounted, Pending
<1>2. ASSUME NEW k \in Secrets, Expire(k) \/ Approve(k) PROVE Quiet
  <2>1. UNCHANGED <<req, refused, missed>>
    BY <1>2 DEF Expire, Approve
  <2>2. CASE Expire(k)
    BY <2>1, <2>2 DEF Expire, Quiet
  <2>3. CASE Approve(k)
    <3>1. handoff' = [handoff EXCEPT ![k] = [handoff[k] EXCEPT !.approved = TRUE]]
      BY <2>3 DEF Approve
    <3>2. \A j \in Secrets : handoff'[j] = IF j = k THEN [handoff[k] EXCEPT !.approved = TRUE]
                                            ELSE handoff[j]
      BY <3>1 DEF SecretInv, TypeOK
    <3>3. \A j \in Secrets : handoff'[j].foreign = handoff[j].foreign
      BY <3>2, RowUpdates DEF SecretInv, Row
    <3> QED
      BY <2>1, <3>3 DEF Quiet
  <2> QED
    BY <1>2, <2>2, <2>3
<1>3. CASE Next
  <2>1. Quiet \/ \E s \in Sessions : \/ CountForeign(s)
                                     \/ Alert(s, "alertForeign", "foreign_fetch", "foreign")
    BY <1>2, <1>3, QuietStatements, Zenon DEF Next
  <2> QED
    BY <2>1, QuietKeepsAccounts, CountKeepsAccounts, RefusalKeepsAccounts
<1> QED
  BY <1>1, <1>3

\* FetchSecretHandoff: whoever is refused as a stranger has been counted, however
\* many are at once, unless the update of foreign_attempts failed.
THEOREM NoForeignRefusalIsLost == Spec => []ForeignRefusalsAreCounted
<1>1. Init => AccountsHold
  <2> SUFFICES ASSUME Init, NEW k \in Secrets PROVE Accounted(k)
    BY DEF AccountsHold
  <2>1. Pending(k) = {}
    BY DEF Init, Pending, Idle
  <2> QED
    BY <2>1, FS_EmptySet DEF Init, Accounted, Absent
<1>2. SecretInv /\ SecretInv' /\ AccountsHold /\ [Next]_vars => AccountsHold'
  BY StepKeepsAccounts
<1>3. SecretInv /\ AccountsHold => ForeignRefusalsAreCounted
  <2> SUFFICES ASSUME SecretInv, AccountsHold, NEW k \in Secrets
               PROVE  refused[k] <= handoff[k].foreign + missed[k]
    BY DEF ForeignRefusalsAreCounted
  <2> QED
    BY AccountsAreNumbers DEF SecretInv, AccountsHold, Accounted
<1> QED
  BY <1>1, <1>2, <1>3, SecretInvariant, PTL DEF Spec

------------------------------------------------------------------------------
(* The refinement.                                                         *)

\* An empty table is a promise with every secret absent.
LEMMA InitImplementsPromise == Init => Promise!Init
  BY DEF Init, Promise!Init, Phase, Locked, Absent

\* What leaves a secret's phase, addressee and lock alone is no step of the promise.
LEMMA RowsKeptStutter ==
    ASSUME UNCHANGED delivered,
           \A k \in Secrets : /\ SameClaim(k)
                              /\ handoff'[k].approved = handoff[k].approved
                              /\ handoff[k].fetchedBy = Nobody
                                    => handoff'[k].envelope = handoff[k].envelope
    PROVE  UNCHANGED Promise!secretVars
<1>1. \A k \in Secrets : Phase(k)' = Phase(k)
  BY DEF Phase, SameClaim
<1>2. Locked' = Locked
  BY DEF Locked, SameClaim
<1> QED
  BY <1>1, <1>2 DEF Promise!secretVars, SameClaim

\* INSERT is a Seal.
LEMMA CreateSeals ==
    ASSUME SecretInv, NEW s \in Sessions, CreateSecretHandoff(s)
    PROVE  [Promise!Next]_(Promise!secretVars)
<1>1. PICK k \in Secrets : k = req[s].secret
  BY RequestLocals DEF SecretInv, CreateSecretHandoff
<1> DEFINE r == req[s]
           row == [exists |-> TRUE, from |-> r.from, to |-> r.to, admin |-> r.admin,
                   envelope |-> TRUE, approved |-> FALSE, fetchedBy |-> Nobody, foreign |-> 0]
<1>2. PICK to \in Actors : to = r.to
  BY RequestLocals DEF SecretInv, CreateSecretHandoff, Sending
<1>3. r.admin \in BOOLEAN
  BY RequestLocals DEF SecretInv, CreateSecretHandoff, Sending
<1>4. UNCHANGED delivered
  BY DEF CreateSecretHandoff
<1>5. CASE handoff[k].exists
  BY <1>1, <1>4, <1>5 DEF CreateSecretHandoff, Promise!secretVars, Phase, Locked
<1>6. CASE ~handoff[k].exists
  <2>1. /\ handoff' = [handoff EXCEPT ![k] = row]
        /\ row.exists /\ row.to = to /\ row.admin = r.admin /\ row.envelope
        /\ ~row.approved /\ row.fetchedBy = Nobody
    BY <1>1, <1>2, <1>6 DEF CreateSecretHandoff
  <2> HIDE DEF row
  <2>2. handoff'[k] = row /\ \A j \in Secrets : j # k => handoff'[j] = handoff[j]
    BY <1>1, <2>1 DEF SecretInv, TypeOK
  <2>3. Phase(k) = "absent" /\ Phase(k)' = "sealed"
    BY <1>6, <2>1, <2>2 DEF Phase
  <2>4. \A j \in Secrets : j # k => Phase(j)' = Phase(j)
    BY <2>2 DEF Phase
  <2>5. Locked' \in {Locked, Locked \union {k}}
    <3>1. k \notin Locked
      BY <1>1, <1>6 DEF Locked, SecretInv, RowsWhole
    <3>2. CASE r.admin
      BY <1>1, <1>3, <2>1, <2>2, <3>2 DEF Locked
    <3>3. CASE ~r.admin
      BY <1>1, <1>3, <2>1, <2>2, <3>1, <3>3 DEF Locked
    <3> QED
      BY <3>2, <3>3
  <2>6. [j \in Secrets |-> handoff[j].to]' = [[j \in Secrets |-> handoff[j].to] EXCEPT ![k] = to]
    <3>1. handoff'[k].to = to /\ \A j \in Secrets : j # k => handoff'[j].to = handoff[j].to
      BY <2>1, <2>2
    <3> QED
      BY <3>1
  <2>7. [j \in Secrets |-> Phase(j)]' = [[j \in Secrets |-> Phase(j)] EXCEPT ![k] = "sealed"]
    BY <1>1, <2>3, <2>4
  <2>8. Promise!Seal(k, to)
    BY <1>1, <1>4, <2>3, <2>5, <2>6, <2>7 DEF Promise!Seal
  <2> QED
    BY <1>1, <2>8 DEF Promise!Next
<1> QED
  BY <1>5, <1>6

\* The operator's approval is an Unlock of an admin-class secret.
LEMMA ApproveUnlocks ==
    ASSUME SecretInv, NEW k \in Secrets, Approve(k)
    PROVE  [Promise!Next]_(Promise!secretVars)
<1>1. /\ UNCHANGED delivered /\ ~handoff[k].approved /\ handoff'[k].approved
      /\ \A j \in Secrets : /\ SameClaim(j) /\ handoff'[j].envelope = handoff[j].envelope
                            /\ j # k => handoff'[j].approved = handoff[j].approved
  BY DEF Approve, SecretInv, TypeOK, Row, SameClaim
<1>2. \A j \in Secrets : Phase(j)' = Phase(j) /\ handoff'[j].to = handoff[j].to
  BY <1>1 DEF Phase, SameClaim
<1>3. Locked' = Locked \ {k}
  BY <1>1 DEF Locked, SameClaim
<1>4. CASE k \in Locked
  <2>1. Promise!Unlock(k)
    BY <1>1, <1>2, <1>3, <1>4 DEF Promise!Unlock
  <2> QED
    BY <2>1 DEF Promise!Next
<1>5. CASE k \notin Locked
  BY <1>1, <1>2, <1>3, <1>5 DEF Promise!secretVars
<1> QED
  BY <1>4, <1>5

\* The sweep makes the expired blobs nobody has claimed lapse together.
LEMMA SweepLapses ==
    ASSUME SecretInv, Sweep, UNCHANGED delivered
    PROVE  Promise!Next
<1> DEFINE K == {k \in Secrets : handoff[k].envelope /\ ~handoff'[k].envelope}
<1>1. TypeOK
  BY DEF SecretInv
<1>2. \A k \in Secrets :
         /\ SameClaim(k)
         /\ handoff'[k].approved = handoff[k].approved
         /\ handoff'[k].envelope => handoff[k].envelope
         /\ handoff[k].fetchedBy # Nobody => handoff'[k].envelope = handoff[k].envelope
  BY <1>1, SweepBlanks
<1>3. \A k \in Secrets : k \in K => Phase(k) = "sealed" /\ Phase(k)' = "lapsed"
  BY <1>2 DEF Phase, SameClaim, SecretInv, RowsWhole
<1>4. \A k \in Secrets : k \notin K => Phase(k)' = Phase(k)
  BY <1>2 DEF Phase, SameClaim
<1>5. Locked' = Locked
  BY <1>2 DEF Locked, SameClaim
<1>6. Promise!Lapse(K)
  BY <1>2, <1>3, <1>4, <1>5 DEF Promise!Lapse, SameClaim
<1>7. K \in SUBSET Secrets
  OBVIOUS
<1> QED
  BY <1>6, <1>7 DEF Promise!Next

\* The claiming UPDATE is a Take when it matches.
LEMMA ClaimTakes ==
    ASSUME SecretInv, NEW s \in Sessions, Claim(s)
    PROVE  [Promise!Next]_(Promise!secretVars)
<1>1. PICK k \in Secrets : k = req[s].secret
  BY RequestLocals DEF Claim, SecretInv
<1>2. PICK a \in Actors : a = req[s].actor
  BY RequestLocals DEF Claim, Claiming, SecretInv
<1>3. UNCHANGED delivered
  BY DEF Claim
<1>4. CASE handoff' = handoff
  BY <1>3, <1>4 DEF Promise!secretVars, Phase, Locked
<1>5. CASE handoff' # handoff
  <2>1. PICK late \in {req[s].late, k \in expired} :
           Claimable(k, a, late) /\ handoff' = [handoff EXCEPT ![k].fetchedBy = a]
    BY <1>1, <1>2, <1>5 DEF Claim
  <2>2. /\ handoff'[k].fetchedBy = a
        /\ handoff'[k].exists = handoff[k].exists /\ handoff'[k].to = handoff[k].to
        /\ handoff'[k].admin = handoff[k].admin /\ handoff'[k].approved = handoff[k].approved
        /\ \A j \in Secrets : j # k => handoff'[j] = handoff[j]
    BY <1>1, <2>1 DEF SecretInv, TypeOK, Row
  <2>3. Phase(k) = "sealed" /\ k \notin Locked
    BY <1>1, <2>1 DEF Claimable, Phase, Locked
  <2>4. Phase(k)' = "taken" /\ \A j \in Secrets : j # k => Phase(j)' = Phase(j)
    BY <2>1, <2>2, NobodyAssumption DEF Claimable, Phase
  <2>5. Locked' = Locked /\ \A j \in Secrets : handoff'[j].to = handoff[j].to
    BY <2>2 DEF Locked
  <2>6. [j \in Secrets |-> Phase(j)]' = [[j \in Secrets |-> Phase(j)] EXCEPT ![k] = "taken"]
    BY <1>1, <2>4
  <2>7. Promise!Take(k)
    BY <1>1, <1>3, <2>3, <2>5, <2>6 DEF Promise!Take
  <2> QED
    BY <1>1, <2>7 DEF Promise!Next
<1> QED
  BY <1>4, <1>5

\* The answer with the envelope is the Deliver.
LEMMA RespondIsDeliver ==
    ASSUME SecretInv, NEW s \in Sessions, Respond(s)
    PROVE  Promise!Next
<1> DEFINE k == req[s].secret
<1>1. /\ k \in Secrets /\ handoff[k].exists /\ handoff[k].fetchedBy # Nobody /\ delivered[k] = <<>>
  BY RespondDelivers, NobodyAssumption DEF HoldsBlob
<1>2. handoff' = handoff /\ Locked' = Locked /\ \A j \in Secrets : Phase(j)' = Phase(j)
  BY DEF Respond, Locked, Phase
<1>3. delivered' = [delivered EXCEPT ![k] = <<handoff[k].to>>]
  BY RespondDelivers DEF SecretInv, TypeOK
<1>4. Phase(k) = "taken"
  BY <1>1 DEF Phase
<1>5. Promise!Deliver(k)
  BY <1>1, <1>2, <1>3, <1>4 DEF Promise!Deliver
<1> QED
  BY <1>1, <1>5 DEF Promise!Next

\* Every statement of a handoff is a step of the promise or leaves it unchanged.
LEMMA StepImplementsPromise ==
    SecretInv /\ [Next]_vars => [Promise!Next]_(Promise!secretVars)
<1> SUFFICES ASSUME SecretInv, [Next]_vars
             PROVE  [Promise!Next]_(Promise!secretVars)
  OBVIOUS
<1>1. CASE UNCHANGED <<handoff, delivered>>
  BY <1>1 DEF Promise!secretVars, Phase, Locked
<1>2. ASSUME NEW s \in Sessions, Blank(s) PROVE UNCHANGED Promise!secretVars
  <2>1. req[s].secret \in Secrets /\ handoff[req[s].secret].fetchedBy # Nobody
    BY <1>2, RequestLocals, NobodyAssumption
    DEF Blank, SecretInv, WinnersHold, Winning, HoldsBlob, Releasing
  <2>2. \A k \in Secrets : /\ SameClaim(k)
                           /\ handoff'[k].approved = handoff[k].approved
                           /\ k # req[s].secret => handoff'[k].envelope = handoff[k].envelope
    BY <1>2, <2>1 DEF Blank, SecretInv, TypeOK, Row, SameClaim
  <2> QED
    BY <1>2, <2>1, <2>2, RowsKeptStutter DEF Blank
<1>3. ASSUME NEW s \in Sessions, CountForeign(s) PROVE UNCHANGED Promise!secretVars
  <2>1. \A k \in Secrets : /\ SameClaim(k)
                           /\ handoff'[k].approved = handoff[k].approved
                           /\ handoff'[k].envelope = handoff[k].envelope
    <3>1. CASE handoff' = handoff
      BY <3>1 DEF SameClaim
    <3>2. CASE handoff' = [handoff EXCEPT ![req[s].secret].foreign = @ + 1]
      BY <3>2 DEF SecretInv, TypeOK, Row, SameClaim
    <3> QED
      BY <1>3, <3>1, <3>2 DEF CountForeign
  <2> QED
    BY <1>3, <2>1, RowsKeptStutter DEF CountForeign
<1>4. ASSUME NEW s \in Sessions, NEW from \in Actors, NEW to \in Actors, NEW k \in Secrets,
             NEW admin \in BOOLEAN, SendSweep(s, from, to, k, admin)
      PROVE  Promise!Next
  BY <1>4, SweepLapses DEF SendSweep
<1>5. ASSUME NEW s \in Sessions, NEW a \in Actors, NEW k \in Secrets, FetchSweep(s, a, k)
      PROVE  Promise!Next
  BY <1>5, SweepLapses DEF FetchSweep
<1>6. ASSUME NEW s \in Sessions, Classify(s) \/ ReadClaimed(s) \/ Abort(s)
      PROVE  UNCHANGED <<handoff, delivered>>
  BY <1>6 DEF Classify, ReadClaimed, Abort
<1>7. ASSUME NEW s \in Sessions, NEW pc, NEW row, NEW kind, Alert(s, pc, row, kind)
      PROVE  UNCHANGED <<handoff, delivered>>
  BY <1>7 DEF Alert
<1>8. ASSUME NEW k \in Secrets, Expire(k) PROVE UNCHANGED <<handoff, delivered>>
  BY <1>8 DEF Expire
<1>9. CASE UNCHANGED vars
  BY <1>1, <1>9 DEF vars
<1>10. CASE Next
  BY <1>1, <1>2, <1>3, <1>4, <1>5, <1>6, <1>7, <1>8, <1>10, CreateSeals, ApproveUnlocks,
     ClaimTakes, RespondIsDeliver, Zenon
  DEF Next
<1> QED
  BY <1>9, <1>10

\* The statements of send_secret, fetch_secret, the approval and the sweep,
\* interleaved and aborted anywhere, keep the promise of a one-time secret: one
\* delivery at most, to the addressee, after the approval it needs.
THEOREM HandoffImplementsOneTimeSecret == Spec => ImplementsOneTimeSecret
<1> QED
  BY InitImplementsPromise, StepImplementsPromise, SecretInvariant, PTL
  DEF Spec, Promise!Spec, ImplementsOneTimeSecret
==============================================================================
