---------------------------- MODULE ListingProofs ----------------------------
(***************************************************************************)
(* Theorems about Listing.tla for any threads, tool calls, posters and     *)
(* filters and pages of any size.                                          *)
(***************************************************************************)
EXTENDS Listing, WellFoundedInduction, FiniteSetTheorems, TLAPS

------------------------------------------------------------------------------
(* A page, and its last row.                                               *)

PageRow == [time : Nat, id : Nat]

\* The rows after a cursor, and those of them that come before one.
Rest(rows, cursor) == {r \in rows : PastCursor(r, cursor)}
Ahead(rest, r) == {q \in rest : Newer(q, r)}

\* A set of naturals has a least element.
LEMMA LeastOfNaturals ==
    ASSUME NEW S \in SUBSET Nat, S # {}
    PROVE  Min(S) \in S /\ \A y \in S : Min(S) <= y
<1>1. PICK x \in S : \A y \in S : ~ (<<y, x>> \in OpToRel(<, Nat))
  BY NatLessThanWellFounded, WFMin
<1>2. \A y \in S : ~ (y < x)
  BY <1>1 DEF OpToRel
<1>3. \A y \in S : x <= y
  BY <1>2
<1> QED
  BY <1>3 DEF Min

\* The order of a listing is total, and a cursor splits it.
LEMMA ListingOrder ==
    ASSUME NEW q \in PageRow, NEW r \in PageRow
    PROVE  /\ Newer(q, r) \/ Newer(r, q) \/ q = r
           /\ ~(Newer(q, r) /\ Newer(r, q)) /\ ~Newer(r, r)
           /\ PastCursor(r, q) <=> Newer(q, r)
BY DEF PageRow, Newer, PastCursor

LEMMA NewerIsTransitive ==
    ASSUME NEW p \in PageRow, NEW q \in PageRow, NEW r \in PageRow, Newer(p, q), Newer(q, r)
    PROVE  Newer(p, r)
BY DEF PageRow, Newer

\* Of two rows the newer one has less ahead of it.
LEMMA FewerAheadOfNewer ==
    ASSUME NEW rest \in SUBSET PageRow, IsFiniteSet(rest), NEW q \in rest, NEW r \in rest,
           Newer(q, r)
    PROVE  Cardinality(Ahead(rest, q)) < Cardinality(Ahead(rest, r))
<1>1. Ahead(rest, q) \in SUBSET Ahead(rest, r)
  BY NewerIsTransitive DEF Ahead
<1>2. q \in Ahead(rest, r) /\ q \notin Ahead(rest, q)
  BY ListingOrder DEF Ahead
<1>3. IsFiniteSet(Ahead(rest, r)) /\ IsFiniteSet(Ahead(rest, q))
  BY FS_Subset DEF Ahead
<1>4. /\ Cardinality(Ahead(rest, q)) <= Cardinality(Ahead(rest, r))
      /\ Cardinality(Ahead(rest, q)) # Cardinality(Ahead(rest, r))
  BY <1>1, <1>2, <1>3, FS_Subset
<1> QED
  BY <1>3, <1>4, FS_CardinalityType

LEMMA AheadIsCounted ==
    ASSUME NEW rest \in SUBSET PageRow, IsFiniteSet(rest), NEW r \in rest
    PROVE  Cardinality(Ahead(rest, r)) \in Nat /\ Cardinality(Ahead(rest, r)) < Cardinality(rest)
<1>1. Ahead(rest, r) \in SUBSET rest /\ r \notin Ahead(rest, r)
  BY ListingOrder DEF Ahead
<1>2. IsFiniteSet(Ahead(rest, r)) /\ Cardinality(Ahead(rest, r)) <= Cardinality(rest)
  BY <1>1, FS_Subset
<1>3. Cardinality(Ahead(rest, r)) # Cardinality(rest)
  BY <1>1, FS_Subset
<1> QED
  BY <1>2, <1>3, FS_CardinalityType

\* Nothing is ahead of the first row.
LEMMA FirstRow ==
    ASSUME NEW rest \in SUBSET PageRow, IsFiniteSet(rest), rest # {}
    PROVE  \E r \in rest : Cardinality(Ahead(rest, r)) = 0
<1> DEFINE ranks == {Cardinality(Ahead(rest, r)) : r \in rest}
<1>1. ranks \in SUBSET Nat /\ ranks # {}
  BY AheadIsCounted
<1>2. PICK r \in rest : Cardinality(Ahead(rest, r)) = Min(ranks)
  <2>1. Min(ranks) \in ranks
    <3> HIDE DEF ranks
    <3> QED
      BY <1>1, LeastOfNaturals
  <2> QED
    BY <2>1
<1>3. \A q \in rest : ~(Cardinality(Ahead(rest, q)) < Cardinality(Ahead(rest, r)))
  <2> TAKE q \in rest
  <2>1. Cardinality(Ahead(rest, q)) \in ranks
    OBVIOUS
  <2>2. Min(ranks) <= Cardinality(Ahead(rest, q))
    <3> HIDE DEF ranks
    <3> QED
      BY <1>1, <2>1, LeastOfNaturals
  <2> QED
    BY <1>2, <2>2, AheadIsCounted
<1>4. Ahead(rest, r) = {}
  BY <1>3, FewerAheadOfNewer DEF Ahead
<1> QED
  BY <1>4, FS_EmptySet

\* A set of rows that is not empty has an oldest one.
LEMMA OldestRow ==
    ASSUME NEW S \in SUBSET PageRow, S # {}
    PROVE  \E r \in S : \A q \in S : ~Newer(r, q)
<1> DEFINE times == {r.time : r \in S}
<1>1. times \in SUBSET Nat /\ times # {}
  BY DEF PageRow
<1>2. Min(times) \in times /\ \A y \in times : Min(times) <= y
  <2> HIDE DEF times
  <2> QED
    BY <1>1, LeastOfNaturals
<1> DEFINE last == {r \in S : r.time = Min(times)}
           ids  == {r.id : r \in last}
<1>3. ids \in SUBSET Nat /\ ids # {}
  BY <1>2 DEF PageRow
<1>4. Min(ids) \in ids /\ \A y \in ids : Min(ids) <= y
  <2> HIDE DEF ids
  <2> QED
    BY <1>3, LeastOfNaturals
<1>5. PICK r \in S : r.time = Min(times) /\ r.id = Min(ids)
  BY <1>4
<1>6. \A q \in S : r.time <= q.time /\ (q.time = r.time => r.id <= q.id)
  BY <1>2, <1>4, <1>5
<1> QED
  BY <1>6 DEF PageRow, Newer

LastOf(rows) == CHOOSE r \in rows : \A q \in rows : ~Newer(r, q)

\* A page holds the first rows after the cursor; what is left comes after its last row.
LEMMA PageOfRows ==
    ASSUME NEW rows \in SUBSET PageRow, IsFiniteSet(rows), NEW cursor, Limit \in Nat \ {0},
           NEW rest, rest = Rest(rows, cursor), NEW page, page = Page(rows, cursor)
    PROVE  /\ page.rows \subseteq rest
           /\ ~page.more => page.rows = rest
           /\ page.more => /\ LastOf(page.rows) \in page.rows
                           /\ \A q \in page.rows : ~PastCursor(q, LastOf(page.rows))
                           /\ \A r \in rest \ page.rows : PastCursor(r, LastOf(page.rows))
<1> DEFINE shown == {r \in rest : Cardinality(Ahead(rest, r)) < Limit}
<1>1. page = [rows |-> shown, more |-> Cardinality(rest) > Limit]
  BY DEF Page, Rest, Ahead
<1>2. rest \in SUBSET PageRow /\ IsFiniteSet(rest) /\ Cardinality(rest) \in Nat
  BY FS_Subset, FS_CardinalityType DEF Rest
<1>3. ~(Cardinality(rest) > Limit) => shown = rest
  BY <1>2, AheadIsCounted
<1>4. ASSUME Cardinality(rest) > Limit
      PROVE  /\ LastOf(shown) \in shown
             /\ \A q \in shown : ~PastCursor(q, LastOf(shown))
             /\ \A r \in rest \ shown : PastCursor(r, LastOf(shown))
  <2>1. shown # {}
    <3>1. rest # {}
      BY <1>4, FS_EmptySet
    <3> QED
      BY <1>2, <3>1, FirstRow
  <2>2. shown \in SUBSET PageRow
    BY <1>2
  <2> DEFINE last == LastOf(shown)
  <2>3. last \in shown /\ \A q \in shown : ~Newer(last, q)
    BY <2>1, <2>2, OldestRow DEF LastOf
  <2> HIDE DEF last
  <2>4. \A r \in rest \ shown : PastCursor(r, last)
    <3> TAKE r \in rest \ shown
    <3>1. ~(Cardinality(Ahead(rest, r)) < Cardinality(Ahead(rest, last)))
      BY <1>2, <2>3, AheadIsCounted
    <3>2. ~Newer(r, last) /\ r # last /\ last \in rest
      BY <1>2, <2>3, <3>1, FewerAheadOfNewer
    <3> QED
      BY <1>2, <3>2, ListingOrder
  <2>5. \A q \in shown : ~PastCursor(q, last)
    BY <2>2, <2>3, ListingOrder
  <2> QED
    BY <2>3, <2>4, <2>5 DEF last
<1>5. page.rows = shown /\ page.more = (Cardinality(rest) > Limit)
  BY <1>1
<1>6. shown \subseteq rest
  BY DEF shown
<1> HIDE DEF shown
<1>7. ~page.more => page.rows = rest
  BY <1>3, <1>5
<1>8. page.more => /\ LastOf(page.rows) \in page.rows
                   /\ \A q \in page.rows : ~PastCursor(q, LastOf(page.rows))
                   /\ \A r \in rest \ page.rows : PastCursor(r, LastOf(page.rows))
  BY <1>4, <1>5
<1> QED
  BY <1>5, <1>6, <1>7, <1>8

------------------------------------------------------------------------------
(* What the tables, the posters and the walk hold.                         *)

PosterStages ==
    {Idle}
    \union [at : {"find", "insert"}, external : ExternalIds \union {None},
            existed : BOOLEAN, failed : BOOLEAN]
    \union [at : {"commit"}, external : ExternalIds \union {None},
            row : [id : ThreadIds, createdAt : 1 .. now,
                   external : ExternalIds \union {None}, status : {"open"}]]

Cursor == [time : 0 .. MaxNow + 1, id : Nat]

WalkStages ==
    {Idle}
    \union [at : {"threads", "end"}, filter : Filters, cursor : Cursor,
            returned : SUBSET ThreadIds, repeated : {FALSE}, due : SUBSET ThreadIds]
    \union [at : {"calls", "end"}, cursor : Cursor,
            returned : SUBSET CallIds, repeated : {FALSE}, due : SUBSET CallIds]

\* Ids are keys, and there are finitely many rows.
RowsHeld ==
    /\ IsFiniteSet(threads) /\ IsFiniteSet(calls)
    /\ \A c, d \in calls \union started : c.id = d.id => c = d
    /\ poster \in [Posters -> PosterStages] /\ walk \in WalkStages

\* What a poster's lookup has told it still holds, and an uncommitted row keeps
\* its id and external id from all others.
PostersHeld ==
    \A p \in Posters :
        /\ poster[p].at \in {"find", "insert"} /\ poster[p].existed =>
              WithExternalId(poster[p].external) # {}
        /\ poster[p].at = "insert" /\ poster[p].existed => poster[p].failed
        /\ Uncommitted(p) =>
              /\ poster[p].row.external = poster[p].external
              /\ poster[p].row.id \notin Ids(threads)
              /\ WithExternalId(poster[p].external) = {}
              /\ \A q \in Posters \ {p} : Uncommitted(q) =>
                    /\ poster[q].row.id # poster[p].row.id
                    /\ poster[p].external # None => poster[q].external # poster[p].external

\* What a walk has returned is not after its cursor; what it owes and has not
\* returned is.
ThreadsWalked ==
    walk.at = "threads" =>
        /\ \A id \in walk.returned :
              \E t \in threads : t.id = id /\ ~PastCursor(ThreadRow(t), walk.cursor)
        /\ \A id \in walk.due :
              \E t \in threads :
                 /\ t.id = id /\ Meets(t, walk.filter)
                 /\ id \in walk.returned \/ PastCursor(ThreadRow(t), walk.cursor)

CallsWalked ==
    walk.at = "calls" =>
        /\ \A id \in walk.returned :
              \E c \in calls : c.id = id /\ ~CalledBefore(c, walk.cursor.time)
        /\ \A id \in walk.due :
              \E c \in calls :
                 /\ c.id = id
                 /\ \A d \in calls \union started : d.calledAt = c.calledAt => d = c
                 /\ id \in walk.returned \/ CalledBefore(c, walk.cursor.time)

\* The inductive invariant.
PagingInv ==
    /\ ListingInv /\ RowsHeld /\ PostersHeld
    /\ ThreadsWalked /\ CallsWalked /\ PagesMissNothing

------------------------------------------------------------------------------
(* The posters' steps.                                                     *)

LEMMA PosterLocals ==
    ASSUME RowsHeld, NEW p \in Posters
    PROVE  /\ poster[p] \in PosterStages
           /\ poster[p].at \in {"idle", "find", "insert", "commit"}
           /\ poster[p].at \in {"find", "insert"} =>
                 poster[p] \in [at : {"find", "insert"}, external : ExternalIds \union {None},
                                existed : BOOLEAN, failed : BOOLEAN]
           /\ Uncommitted(p) =>
                 poster[p] \in [at : {"commit"}, external : ExternalIds \union {None},
                                row : [id : ThreadIds, createdAt : 1 .. now,
                                       external : ExternalIds \union {None}, status : {"open"}]]
<1>1. poster[p] \in PosterStages
  BY DEF RowsHeld
<1>2. Idle.at = "idle"
  BY DEF Idle
<1> QED
  BY <1>1, <1>2 DEF PosterStages, Uncommitted

\* What PostersHeld says of one poster, as it would be with the locals next.
Fits(p, next) ==
    /\ next.at \in {"find", "insert"} /\ next.existed => WithExternalId(next.external) # {}
    /\ next.at = "insert" /\ next.existed => next.failed
    /\ next.at = "commit" =>
          /\ next.row.external = next.external
          /\ next.row.id \notin Ids(threads)
          /\ WithExternalId(next.external) = {}
          /\ \A q \in Posters \ {p} : Uncommitted(q) =>
                /\ poster[q].row.id # next.row.id
                /\ next.external # None => poster[q].external # next.external

\* A step of a poster alone.
LEMMA PosterStepKeepsInv ==
    ASSUME PagingInv, NEW p \in Posters, NEW next \in PosterStages, Fits(p, next),
           poster' = [poster EXCEPT ![p] = next], faults' \in 0 .. MaxFaults,
           UNCHANGED <<now, threads, calls, started, walk>>
    PROVE  PagingInv'
<1>1. /\ RowsHeld /\ PostersHeld /\ TypeOK /\ OneThreadPerExternalId
      /\ ThreadsWalked /\ CallsWalked /\ PagesMissNothing
  BY DEF PagingInv, ListingInv
<1>2. /\ now' = now /\ threads' = threads /\ calls' = calls /\ started' = started /\ walk' = walk
      /\ PosterStages' = PosterStages /\ WalkStages' = WalkStages
  BY DEF PosterStages, WalkStages
<1>3. poster' \in [Posters -> PosterStages] /\ poster'[p] = next
      /\ \A q \in Posters \ {p} : poster'[q] = poster[q]
  BY <1>1 DEF RowsHeld
<1>4. RowsHeld'
  BY <1>1, <1>2, <1>3 DEF RowsHeld
<1>5. PostersHeld'
  <2> SUFFICES ASSUME NEW q \in Posters PROVE Fits(q, poster[q])'
    BY DEF PostersHeld, Fits, Uncommitted
  <2>1. Fits(q, poster[q])
    BY <1>1 DEF PostersHeld, Fits, Uncommitted
  <2>2. CASE q = p
    BY <1>2, <1>3, <2>2 DEF Fits, Uncommitted, Ids, WithExternalId
  <2>3. CASE q # p
    BY <1>2, <1>3, <2>1, <2>3 DEF Fits, Uncommitted, Ids, WithExternalId
  <2> QED
    BY <2>2, <2>3
<1>6. TypeOK'
  <2>1. \A q \in Posters : poster'[q].at \in {"idle", "find", "insert", "commit"}
    <3> TAKE q \in Posters
    <3>1. poster'[q] \in PosterStages
      BY <1>3
    <3> QED
      BY <3>1 DEF PosterStages, Idle
  <2> QED
    BY <1>1, <1>2, <2>1 DEF TypeOK
<1>7. OneThreadPerExternalId'
  BY <1>1, <1>2 DEF OneThreadPerExternalId
<1>8. ThreadsWalked' /\ CallsWalked' /\ PagesMissNothing'
  BY <1>1, <1>2 DEF ThreadsWalked, CallsWalked, PagesMissNothing, ThreadRow, Meets, CalledBefore
<1> QED
  BY <1>4, <1>5, <1>6, <1>7, <1>8 DEF PagingInv, ListingInv

\* Every step of create_thread before its commit, and a rollback.
LEMMA PostingKeepsInv ==
    ASSUME PagingInv, NEW p \in Posters,
           \/ \E x \in ExternalIds \union {None} : Post(p, x)
           \/ Find(p) \/ FindFails(p) \/ Refused(p) \/ Rollback(p)
    PROVE  PagingInv'
<1>1. RowsHeld /\ PostersHeld /\ TypeOK /\ MaxFaults \in Nat /\ faults \in 0 .. MaxFaults
  BY ListingAssumption DEF PagingInv, ListingInv, TypeOK
<1>2. Idle \in PosterStages /\ Fits(p, Idle) /\ Idle.at = "idle"
  BY DEF PosterStages, Fits, Idle
<1>3. ASSUME NEW x \in ExternalIds \union {None}, Post(p, x) PROVE PagingInv'
  <2> DEFINE next == [at |-> IF x = None THEN "insert" ELSE "find", external |-> x,
                      existed |-> WithExternalId(x) # {}, failed |-> FALSE]
  <2>1. (WithExternalId(x) # {}) \in BOOLEAN
    OBVIOUS
  <2>2. next \in PosterStages
    BY <2>1 DEF PosterStages
  <2>3. WithExternalId(None) = {}
    BY DEF WithExternalId
  <2>4. Fits(p, next)
    BY <2>3 DEF Fits
  <2>5. poster' = [poster EXCEPT ![p] = next] /\ UNCHANGED <<now, threads, calls, started, walk>>
        /\ faults' = faults
    BY <1>3 DEF Post
  <2> HIDE DEF next
  <2> QED
    BY <1>1, <2>2, <2>4, <2>5, PosterStepKeepsInv
<1>4. CASE Find(p)
  <2> DEFINE found == WithExternalId(poster[p].external) # {}
             next == IF found THEN Idle ELSE [poster[p] EXCEPT !.at = "insert"]
  <2>1. /\ poster' = [poster EXCEPT ![p] = next] /\ UNCHANGED <<now, threads, calls, started, walk>>
        /\ faults' = faults
    BY <1>4 DEF Find, Unchanged
  <2>2. poster[p] \in [at : {"find", "insert"}, external : ExternalIds \union {None},
                       existed : BOOLEAN, failed : BOOLEAN]
    BY <1>1, <1>4, PosterLocals DEF Find
  <2>3. next \in PosterStages /\ Fits(p, next)
    <3>1. CASE found
      BY <1>2, <3>1
    <3>2. CASE ~found
      <4>1. poster[p].existed = FALSE
        BY <1>1, <1>4, <2>2, <3>2 DEF PostersHeld, Find
      <4> QED
        BY <2>2, <3>2, <4>1 DEF PosterStages, Fits
    <3> QED
      BY <3>1, <3>2
  <2> HIDE DEF next
  <2> QED
    BY <1>1, <2>1, <2>3, PosterStepKeepsInv
<1>5. CASE FindFails(p)
  <2> DEFINE next == [poster[p] EXCEPT !.at = "insert", !.failed = TRUE]
  <2>1. /\ poster' = [poster EXCEPT ![p] = next] /\ UNCHANGED <<now, threads, calls, started, walk>>
        /\ faults < MaxFaults /\ faults' = faults + 1
    BY <1>5 DEF FindFails, Unchanged
  <2>2. poster[p] \in [at : {"find", "insert"}, external : ExternalIds \union {None},
                       existed : BOOLEAN, failed : BOOLEAN]
    BY <1>1, <1>5, PosterLocals DEF FindFails
  <2>3. poster[p].existed => WithExternalId(poster[p].external) # {}
    BY <1>1, <1>5 DEF PostersHeld, FindFails
  <2>4. next \in PosterStages /\ Fits(p, next)
    BY <2>2, <2>3 DEF PosterStages, Fits
  <2>5. faults' \in 0 .. MaxFaults
    BY <1>1, <2>1
  <2> HIDE DEF next
  <2> QED
    BY <2>1, <2>4, <2>5, PosterStepKeepsInv
<1>6. CASE Refused(p) \/ Rollback(p)
  <2>1. /\ poster' = [poster EXCEPT ![p] = Idle] /\ UNCHANGED <<now, threads, calls, started, walk>>
        /\ faults' \in 0 .. MaxFaults
    BY <1>1, <1>6 DEF Refused, Rollback, Unchanged
  <2> QED
    BY <1>2, <2>1, PosterStepKeepsInv
<1> QED
  BY <1>3, <1>4, <1>5, <1>6

\* CreateThreadExt's insert, which its unique index has let through.
LEMMA InsertKeepsInv ==
    ASSUME PagingInv, NEW p \in Posters, NEW id \in ThreadIds, Insert(p, id)
    PROVE  PagingInv'
<1>1. RowsHeld /\ PostersHeld /\ TypeOK
  BY DEF PagingInv, ListingInv
<1>2. PICK x : x = poster[p].external
  OBVIOUS
<1> DEFINE row  == [id |-> id, createdAt |-> now, external |-> x, status |-> "open"]
           next == [at |-> "commit", external |-> x, row |-> row]
<1>3. /\ poster[p].at = "insert"
      /\ poster' = [poster EXCEPT ![p] = next] /\ UNCHANGED <<now, threads, calls, started, walk>>
      /\ faults' = faults
  BY <1>2 DEF Insert, Unchanged
<1>4. /\ id \notin Ids(threads) /\ \A q \in Posters : Uncommitted(q) => poster[q].row.id # id
      /\ x # None => \A q \in Posters \ {p} : Uncommitted(q) => poster[q].external # x
      /\ WithExternalId(x) = {}
  BY <1>2 DEF Insert, UniqueIndexFree, Taken
<1>5. x \in ExternalIds \union {None} /\ now \in 1 .. MaxNow
  <2>1. poster[p] \in [at : {"find", "insert"}, external : ExternalIds \union {None},
                       existed : BOOLEAN, failed : BOOLEAN]
    BY <1>1, <1>3, PosterLocals
  <2> QED
    BY <1>1, <1>2, <2>1 DEF TypeOK
<1>6. next \in PosterStages
  <2>1. now \in 1 .. now
    BY <1>5
  <2> QED
    BY <1>5, <2>1 DEF PosterStages
<1>7. Fits(p, next)
  BY <1>4 DEF Fits
<1>8. faults' \in 0 .. MaxFaults
  BY <1>1, <1>3 DEF TypeOK
<1> HIDE DEF next
<1> QED
  BY <1>3, <1>6, <1>7, <1>8, PosterStepKeepsInv

\* A transaction commits: the row was nobody's before.
LEMMA CommitKeepsInv ==
    ASSUME PagingInv, NEW p \in Posters, Commit(p)
    PROVE  PagingInv'
<1>1. /\ RowsHeld /\ PostersHeld /\ TypeOK /\ OneThreadPerExternalId
      /\ ThreadsWalked /\ CallsWalked /\ PagesMissNothing
  BY DEF PagingInv, ListingInv
<1>2. PICK row : row = poster[p].row
  OBVIOUS
<1>3. /\ threads' = threads \union {row} /\ poster' = [poster EXCEPT ![p] = Idle]
      /\ now' = now /\ calls' = calls /\ started' = started /\ walk' = walk /\ faults' = faults
      /\ Uncommitted(p)
  BY <1>2 DEF Commit, Unchanged
<1>4. row \in [id : ThreadIds, createdAt : 1 .. now,
               external : ExternalIds \union {None}, status : {"open"}]
  BY <1>1, <1>2, <1>3, PosterLocals
<1>5. /\ row.id \notin Ids(threads) /\ WithExternalId(row.external) = {}
      /\ \A q \in Posters \ {p} : Uncommitted(q) =>
            /\ poster[q].row.id # row.id
            /\ row.external # None => poster[q].external # row.external
  BY <1>1, <1>2, <1>3 DEF PostersHeld
<1>6. /\ PosterStages' = PosterStages /\ WalkStages' = WalkStages
  BY <1>3 DEF PosterStages, WalkStages
<1>7. /\ Idle \in PosterStages /\ Idle.at = "idle"
      /\ poster' \in [Posters -> PosterStages] /\ poster'[p] = Idle
      /\ \A q \in Posters \ {p} : poster'[q] = poster[q]
  <2>1. Idle \in PosterStages /\ Idle.at = "idle"
    BY DEF PosterStages, Idle
  <2> QED
    BY <1>1, <1>3, <2>1 DEF RowsHeld
<1>8. RowsHeld'
  <2>1. IsFiniteSet(threads')
    BY <1>1, <1>3, FS_AddElement DEF RowsHeld
  <2> QED
    BY <1>1, <1>3, <1>6, <1>7, <2>1 DEF RowsHeld
<1>9. PostersHeld'
  <2> SUFFICES ASSUME NEW q \in Posters PROVE Fits(q, poster[q])'
    BY DEF PostersHeld, Fits, Uncommitted
  <2>1. Fits(q, poster[q])
    BY <1>1 DEF PostersHeld, Fits, Uncommitted
  <2>2. CASE q = p
    BY <1>7, <2>2 DEF Fits
  <2>3. CASE q # p
    <3>1. \A y : WithExternalId(y) \subseteq WithExternalId(y)'
      BY <1>3 DEF WithExternalId
    <3>2. poster'[q] = poster[q] /\ ~Uncommitted(p)'
      BY <1>7, <2>3 DEF Uncommitted
    <3>3. \A o \in Posters \ {q} : Uncommitted(o)' => Uncommitted(o) /\ poster'[o] = poster[o]
      BY <1>7, <3>2 DEF Uncommitted
    <3>4. poster[q].at = "commit" => /\ poster[q].row.id \notin Ids(threads)'
                                     /\ WithExternalId(poster[q].external)' = {}
      <4> HAVE poster[q].at = "commit"
      <4>1. /\ poster[q].row.id \notin Ids(threads) /\ poster[q].row.id # row.id
            /\ WithExternalId(poster[q].external) = {}
            /\ row.external # None => poster[q].external # row.external
        BY <1>5, <2>1, <2>3 DEF Fits, Uncommitted
      <4> QED
        BY <1>3, <3>2, <4>1 DEF Ids, WithExternalId
    <3> QED
      BY <2>1, <3>1, <3>2, <3>3, <3>4 DEF Fits
  <2> QED
    BY <2>2, <2>3
<1>10. TypeOK'
  <2>1. \A q \in Posters : poster'[q].at \in {"idle", "find", "insert", "commit"}
    BY <1>1, <1>7, PosterLocals
  <2>2. \A t, u \in threads' : t.id = u.id => t = u
    BY <1>1, <1>3, <1>5 DEF TypeOK, Ids
  <2>3. threads' \subseteq [id : ThreadIds, createdAt : 1 .. now,
                            external : ExternalIds \union {None}, status : {"open", "resolved"}]
    BY <1>1, <1>3, <1>4 DEF TypeOK
  <2> QED
    BY <1>1, <1>3, <2>1, <2>2, <2>3 DEF TypeOK
<1>11. OneThreadPerExternalId'
  BY <1>1, <1>3, <1>5 DEF OneThreadPerExternalId, WithExternalId
<1>12. ThreadsWalked' /\ CallsWalked' /\ PagesMissNothing'
  BY <1>1, <1>3 DEF ThreadsWalked, CallsWalked, PagesMissNothing, ThreadRow, Meets, CalledBefore
<1> QED
  BY <1>8, <1>9, <1>10, <1>11, <1>12 DEF PagingInv, ListingInv

------------------------------------------------------------------------------
(* What happens to rows under a walk.                                      *)

\* Time passes.
LEMMA TickKeepsInv ==
    ASSUME PagingInv, Tick
    PROVE  PagingInv'
<1>1. /\ RowsHeld /\ PostersHeld /\ TypeOK /\ OneThreadPerExternalId
      /\ ThreadsWalked /\ CallsWalked /\ PagesMissNothing
  BY DEF PagingInv, ListingInv
<1>2. /\ threads' = threads /\ calls' = calls /\ started' = started /\ walk' = walk
      /\ poster' = poster /\ faults' = faults /\ now' = now + 1 /\ now < MaxNow
  BY DEF Tick
<1>3. now' \in 1 .. MaxNow /\ 1 .. now \subseteq 1 .. now'
  BY <1>1, <1>2, ListingAssumption DEF TypeOK
<1>4. PosterStages \subseteq PosterStages' /\ WalkStages' = WalkStages
  BY <1>2, <1>3 DEF PosterStages, WalkStages
<1>5. RowsHeld'
  BY <1>1, <1>2, <1>4 DEF RowsHeld
<1>6. PostersHeld' /\ OneThreadPerExternalId'
  BY <1>1, <1>2 DEF PostersHeld, OneThreadPerExternalId, Uncommitted, WithExternalId
<1>7. TypeOK'
  BY <1>1, <1>2, <1>3 DEF TypeOK
<1>8. ThreadsWalked' /\ CallsWalked' /\ PagesMissNothing'
  BY <1>1, <1>2 DEF ThreadsWalked, CallsWalked, PagesMissNothing, ThreadRow, Meets, CalledBefore
<1> QED
  BY <1>5, <1>6, <1>7, <1>8 DEF PagingInv, ListingInv

\* Where a walk can be.
LEMMA StageOfWalk ==
    ASSUME NEW w \in WalkStages
    PROVE  w.at \in {"idle", "threads", "calls", "end"}
<1>1. CASE w = Idle
  BY <1>1 DEF Idle
<1>2. CASE w \in [at : {"threads", "end"}, filter : Filters, cursor : Cursor,
                 returned : SUBSET ThreadIds, repeated : {FALSE}, due : SUBSET ThreadIds]
  BY <1>2
<1>3. CASE w \in [at : {"calls", "end"}, cursor : Cursor,
                 returned : SUBSET CallIds, repeated : {FALSE}, due : SUBSET CallIds]
  BY <1>3
<1> QED
  BY <1>1, <1>2, <1>3 DEF WalkStages

\* The locals of a walk.
LEMMA WalkLocals ==
    ASSUME RowsHeld
    PROVE  /\ walk \in WalkStages /\ walk.at \in {"idle", "threads", "calls", "end"}
           /\ walk.at = "threads" =>
                 walk \in [at : {"threads", "end"}, filter : Filters, cursor : Cursor,
                           returned : SUBSET ThreadIds, repeated : {FALSE},
                           due : SUBSET ThreadIds]
           /\ walk.at = "calls" =>
                 walk \in [at : {"calls", "end"}, cursor : Cursor,
                           returned : SUBSET CallIds, repeated : {FALSE}, due : SUBSET CallIds]
           /\ walk.at # "idle" => ~walk.repeated
<1>1. walk \in WalkStages
  BY DEF RowsHeld
<1>2. Idle.at = "idle"
  BY DEF Idle
<1> QED
  BY <1>1, <1>2 DEF WalkStages

\* A status is set: threads keep everything else.
LEMMA SetThreadStatusKeepsInv ==
    ASSUME PagingInv, NEW id \in ThreadIds, NEW status \in {"open", "resolved"},
           SetThreadStatus(id, status)
    PROVE  PagingInv'
<1>1. /\ RowsHeld /\ PostersHeld /\ TypeOK /\ OneThreadPerExternalId
      /\ ThreadsWalked /\ CallsWalked /\ PagesMissNothing
  BY DEF PagingInv, ListingInv
<1> DEFINE set(t) == IF t.id = id THEN [t EXCEPT !.status = status] ELSE t
<1>2. /\ threads' = {set(t) : t \in threads}
      /\ walk' = IF walk.at = "threads" /\ walk.filter.status # None
                 THEN [walk EXCEPT !.due = @ \ {id}] ELSE walk
      /\ now' = now /\ calls' = calls /\ started' = started /\ poster' = poster
      /\ faults' = faults
  BY DEF SetThreadStatus
<1>3. \A t \in threads : /\ set(t).id = t.id /\ set(t).createdAt = t.createdAt
                         /\ set(t).external = t.external
                         /\ set(t).status \in {"open", "resolved"}
                         /\ t.id # id => set(t) = t
                         /\ set(t) \in [id : ThreadIds, createdAt : 1 .. now,
                                        external : ExternalIds \union {None},
                                        status : {"open", "resolved"}]
  BY <1>1 DEF TypeOK
<1>4. /\ \A t \in threads : set(t) \in threads'
      /\ \A u \in threads' : \E t \in threads : u = set(t)
  BY <1>2
<1> HIDE DEF set
<1>5. Ids(threads)' = Ids(threads)
  BY <1>3, <1>4 DEF Ids
<1>6. \A x : WithExternalId(x)' = {} <=> WithExternalId(x) = {}
  BY <1>3, <1>4 DEF WithExternalId
<1>7. PosterStages' = PosterStages /\ WalkStages' = WalkStages
  BY <1>2 DEF PosterStages, WalkStages
<1>8. PostersHeld'
  BY <1>1, <1>2, <1>5, <1>6 DEF PostersHeld, Uncommitted
<1>9. walk' \in WalkStages
  BY <1>1, <1>2, WalkLocals DEF WalkStages
<1>10. RowsHeld'
  <2>1. IsFiniteSet(threads')
    <3> DEFINE f == [t \in threads |-> set(t)]
    <3>1. f \in Surjection(threads, threads')
      BY <1>4 DEF Surjection
    <3> QED
      BY <1>1, <3>1, FS_Surjection DEF RowsHeld
  <2> QED
    BY <1>1, <1>2, <1>7, <1>9, <2>1 DEF RowsHeld
<1>11. OneThreadPerExternalId'
  BY <1>1, <1>3, <1>4 DEF OneThreadPerExternalId
<1>12. TypeOK'
  <2>1. \A t, u \in threads' : t.id = u.id => t = u
    BY <1>1, <1>3, <1>4 DEF TypeOK
  <2>2. threads' \subseteq [id : ThreadIds, createdAt : 1 .. now,
                            external : ExternalIds \union {None}, status : {"open", "resolved"}]
    BY <1>3, <1>4
  <2>3. walk'.at \in {"idle", "threads", "calls", "end"}
    BY <1>9, StageOfWalk
  <2> QED
    BY <1>1, <1>2, <2>1, <2>2, <2>3 DEF TypeOK
<1>13. ThreadsWalked'
  <2> SUFFICES ASSUME walk'.at = "threads" PROVE ThreadsWalked'
    BY DEF ThreadsWalked
  <2>1. /\ walk.at = "threads" /\ walk'.returned = walk.returned /\ walk'.cursor = walk.cursor
        /\ walk'.filter = walk.filter /\ walk'.due \subseteq walk.due
        /\ walk.filter.status # None => id \notin walk'.due
    BY <1>1, <1>2, WalkLocals
  <2>2. \A t \in threads : ThreadRow(set(t)) = ThreadRow(t)
    BY <1>3 DEF ThreadRow
  <2>3. \A i \in walk'.returned :
           \E t \in threads' : t.id = i /\ ~PastCursor(ThreadRow(t), walk'.cursor)
    BY <1>1, <1>3, <1>4, <2>1, <2>2 DEF ThreadsWalked
  <2>4. \A i \in walk'.due :
           \E t \in threads' :
              /\ t.id = i /\ Meets(t, walk'.filter)
              /\ i \in walk'.returned \/ PastCursor(ThreadRow(t), walk'.cursor)
    <3> TAKE i \in walk'.due
    <3>1. PICK t \in threads : /\ t.id = i /\ Meets(t, walk.filter)
                               /\ i \in walk.returned \/ PastCursor(ThreadRow(t), walk.cursor)
      BY <1>1, <2>1 DEF ThreadsWalked
    <3>2. Meets(set(t), walk.filter)
      BY <1>3, <2>1, <3>1 DEF Meets
    <3> QED
      BY <1>3, <1>4, <2>1, <2>2, <3>1, <3>2
  <2> QED
    BY <2>3, <2>4 DEF ThreadsWalked
<1>14. CallsWalked' /\ PagesMissNothing'
  BY <1>1, <1>2, WalkLocals DEF CallsWalked, PagesMissNothing, CalledBefore
<1> QED
  BY <1>8, <1>10, <1>11, <1>12, <1>13, <1>14 DEF PagingInv, ListingInv

\* The listing of threads does not see the tool calls, nor do the posters.
LEMMA CallStepKeepsThreads ==
    ASSUME PagingInv, UNCHANGED <<now, threads, poster>>,
           walk.at = "threads" \/ walk'.at = "threads" => walk' = walk
    PROVE  PostersHeld' /\ OneThreadPerExternalId' /\ ThreadsWalked'
BY DEF PagingInv, ListingInv, PostersHeld, OneThreadPerExternalId, Uncommitted, WithExternalId,
       ThreadsWalked, ThreadRow, Meets

\* A call starts: none whose time it shares is owed any more.
LEMMA StartCallKeepsInv ==
    ASSUME PagingInv, NEW id \in CallIds, StartCall(id)
    PROVE  PagingInv'
<1>1. /\ RowsHeld /\ TypeOK /\ CallsWalked /\ PagesMissNothing
  BY DEF PagingInv, ListingInv
<1> DEFINE row == [id |-> id, calledAt |-> now]
<1>2. /\ id \notin Ids(started \union calls) /\ started' = started \union {row}
      /\ walk' = IF walk.at = "calls"
                 THEN [walk EXCEPT !.due = @ \ Ids({c \in calls : c.calledAt = now})] ELSE walk
      /\ now' = now /\ threads' = threads /\ calls' = calls /\ poster' = poster
      /\ faults' = faults
  BY DEF StartCall
<1>3. row.id = id /\ row.calledAt = now /\ row \in [id : CallIds, calledAt : 1 .. now]
  BY <1>1 DEF TypeOK
<1> HIDE DEF row
<1>4. PosterStages' = PosterStages /\ WalkStages' = WalkStages
  BY <1>2 DEF PosterStages, WalkStages
<1>5. walk' \in WalkStages
  BY <1>1, <1>2, WalkLocals DEF WalkStages
<1>6. walk'.at = walk.at
  BY <1>1, <1>2, WalkLocals
<1>7. \A c, d \in (calls \union started)' : c.id = d.id => c = d
  BY <1>1, <1>2, <1>3 DEF RowsHeld, Ids
<1>8. RowsHeld'
  BY <1>1, <1>2, <1>4, <1>5, <1>7 DEF RowsHeld
<1>9. TypeOK'
  BY <1>1, <1>2, <1>3, <1>6 DEF TypeOK
<1>10. CallsWalked'
  <2> SUFFICES ASSUME walk.at = "calls" PROVE CallsWalked'
    BY <1>6 DEF CallsWalked
  <2>1. /\ walk'.returned = walk.returned /\ walk'.cursor = walk.cursor
        /\ walk'.due = walk.due \ Ids({c \in calls : c.calledAt = now})
    BY <1>1, <1>2, WalkLocals
  <2>2. \A i \in walk'.due :
           \E c \in calls :
              /\ c.id = i
              /\ \A d \in calls \union started' : d.calledAt = c.calledAt => d = c
              /\ i \in walk'.returned \/ CalledBefore(c, walk'.cursor.time)
    <3> TAKE i \in walk'.due
    <3>1. PICK c \in calls :
             /\ c.id = i
             /\ \A d \in calls \union started : d.calledAt = c.calledAt => d = c
             /\ i \in walk.returned \/ CalledBefore(c, walk.cursor.time)
      BY <1>1, <2>1 DEF CallsWalked
    <3>2. c.calledAt # now
      BY <2>1, <3>1 DEF Ids
    <3> QED
      BY <1>2, <1>3, <2>1, <3>1, <3>2
  <2>3. \A i \in walk'.returned : \E c \in calls : c.id = i /\ ~CalledBefore(c, walk'.cursor.time)
    BY <1>1, <2>1 DEF CallsWalked
  <2> QED
    BY <1>2, <2>2, <2>3 DEF CallsWalked, CalledBefore
<1>11. PagesMissNothing'
  BY <1>1, <1>2, <1>6 DEF PagesMissNothing
<1>12. PostersHeld' /\ OneThreadPerExternalId' /\ ThreadsWalked'
  BY <1>2, <1>6, CallStepKeepsThreads
<1> QED
  BY <1>8, <1>9, <1>10, <1>11, <1>12 DEF PagingInv, ListingInv

\* A call is recorded: its row was known to the walks when it started.
LEMMA RecordCallKeepsInv ==
    ASSUME PagingInv, NEW row \in started, RecordCall(row)
    PROVE  PagingInv'
<1>1. /\ RowsHeld /\ TypeOK /\ CallsWalked /\ PagesMissNothing
  BY DEF PagingInv, ListingInv
<1>2. /\ started' = started \ {row} /\ calls' = calls \union {row}
      /\ now' = now /\ threads' = threads /\ poster' = poster /\ walk' = walk /\ faults' = faults
  BY DEF RecordCall
<1>3. calls' \union started' = calls \union started /\ IsFiniteSet(calls')
  BY <1>1, <1>2, FS_AddElement DEF RowsHeld
<1>4. PosterStages' = PosterStages /\ WalkStages' = WalkStages
  BY <1>2 DEF PosterStages, WalkStages
<1>5. RowsHeld'
  BY <1>1, <1>2, <1>3, <1>4 DEF RowsHeld
<1>6. TypeOK'
  BY <1>1, <1>2, <1>3 DEF TypeOK
<1>7. CallsWalked' /\ PagesMissNothing'
  BY <1>1, <1>2, <1>3 DEF CallsWalked, PagesMissNothing, CalledBefore
<1>8. PostersHeld' /\ OneThreadPerExternalId' /\ ThreadsWalked'
  BY <1>2, CallStepKeepsThreads
<1> QED
  BY <1>5, <1>6, <1>7, <1>8 DEF PagingInv, ListingInv

------------------------------------------------------------------------------
(* The pages' steps.                                                       *)

\* A step of the walk alone.
LEMMA WalkStepKeepsInv ==
    ASSUME PagingInv, UNCHANGED <<now, threads, calls, started, poster, faults>>,
           walk' \in WalkStages, ThreadsWalked', CallsWalked', PagesMissNothing'
    PROVE  PagingInv'
<1>1. /\ RowsHeld /\ PostersHeld /\ TypeOK /\ OneThreadPerExternalId
  BY DEF PagingInv, ListingInv
<1>2. /\ now' = now /\ threads' = threads /\ calls' = calls /\ started' = started
      /\ poster' = poster /\ faults' = faults
      /\ PosterStages' = PosterStages /\ WalkStages' = WalkStages
  BY DEF PosterStages, WalkStages
<1>3. RowsHeld'
  BY <1>1, <1>2 DEF RowsHeld
<1>4. PostersHeld' /\ OneThreadPerExternalId'
  BY <1>1, <1>2 DEF PostersHeld, OneThreadPerExternalId, Uncommitted, WithExternalId
<1>5. walk'.at \in {"idle", "threads", "calls", "end"}
  BY StageOfWalk
<1>6. TypeOK'
  BY <1>1, <1>2, <1>5 DEF TypeOK
<1> QED
  BY <1>3, <1>4, <1>6 DEF PagingInv, ListingInv

\* A walk begins: everything it owes comes after the start.
LEMMA WalkBeginsKeepsInv ==
    ASSUME PagingInv, WalkCalls \/ \E f \in Filters : WalkThreads(f)
    PROVE  PagingInv'
<1>1. TypeOK /\ MaxNow \in Nat /\ Start \in Cursor /\ Start.time = MaxNow + 1
  BY ListingAssumption DEF PagingInv, ListingInv, Cursor, Start
<1>2. UNCHANGED <<now, threads, calls, started, poster, faults>>
  BY DEF WalkCalls, WalkThreads
<1>3. ASSUME NEW f \in Filters, WalkThreads(f) PROVE PagingInv'
  <2> DEFINE due == {t.id : t \in {u \in threads : Meets(u, f)}}
  <2>1. walk' = [at |-> "threads", filter |-> f, cursor |-> Start, returned |-> {},
                 repeated |-> FALSE, due |-> due]
    BY <1>3 DEF WalkThreads
  <2>2. due \subseteq ThreadIds
    BY <1>1 DEF TypeOK
  <2>3. \A id \in due : \E t \in threads :
           t.id = id /\ Meets(t, f) /\ PastCursor(ThreadRow(t), Start)
    <3>1. \A t \in threads : PastCursor(ThreadRow(t), Start)
      BY <1>1 DEF TypeOK, ThreadRow, PastCursor
    <3> QED
      BY <3>1
  <2> HIDE DEF due
  <2>4. walk' \in WalkStages
    BY <1>1, <2>1, <2>2 DEF WalkStages
  <2>5. ThreadsWalked' /\ CallsWalked' /\ PagesMissNothing'
    BY <1>2, <2>1, <2>3 DEF ThreadsWalked, CallsWalked, PagesMissNothing, ThreadRow, Meets
  <2> QED
    BY <1>2, <2>4, <2>5, WalkStepKeepsInv
<1>4. CASE WalkCalls
  <2> DEFINE due == Ids({c \in calls : \A d \in calls \union started :
                            d.calledAt = c.calledAt => d = c})
  <2>1. walk' = [at |-> "calls", cursor |-> Start, returned |-> {}, repeated |-> FALSE,
                 due |-> due]
    BY <1>4 DEF WalkCalls
  <2>2. due \subseteq CallIds
    BY <1>1 DEF TypeOK, Ids
  <2>3. \A id \in due : \E c \in calls :
           /\ c.id = id /\ CalledBefore(c, Start.time)
           /\ \A d \in calls \union started : d.calledAt = c.calledAt => d = c
    <3>1. \A c \in calls : CalledBefore(c, Start.time)
      BY <1>1 DEF TypeOK, CalledBefore
    <3> QED
      BY <3>1 DEF Ids
  <2> HIDE DEF due
  <2>4. walk' \in WalkStages
    BY <1>1, <2>1, <2>2 DEF WalkStages
  <2>5. ThreadsWalked' /\ CallsWalked' /\ PagesMissNothing'
    BY <1>2, <2>1, <2>3 DEF ThreadsWalked, CallsWalked, PagesMissNothing, CalledBefore
  <2> QED
    BY <1>2, <2>4, <2>5, WalkStepKeepsInv
<1> QED
  BY <1>3, <1>4

\* A walk is over, and another may begin.
LEMMA EndWalkKeepsInv ==
    ASSUME PagingInv, EndWalk
    PROVE  PagingInv'
<1>1. walk' = Idle /\ UNCHANGED <<now, threads, calls, started, poster, faults>>
  BY DEF EndWalk
<1>2. walk' \in WalkStages /\ ThreadsWalked' /\ CallsWalked' /\ PagesMissNothing'
  BY <1>1 DEF WalkStages, Idle, ThreadsWalked, CallsWalked, PagesMissNothing
<1> QED
  BY <1>1, <1>2, WalkStepKeepsInv

\* What is given to the reader, and where the walk goes on.
LEMMA TurnOfWalk ==
    ASSUME RowsHeld, walk.at \in {"threads", "calls"}, NEW page, NEW next, NEW more,
           Ids(page) \cap walk.returned = {}, Turn(page, next, more)
    PROVE  /\ more => walk' = [walk EXCEPT !.returned = @ \union Ids(page), !.cursor = next]
           /\ ~more => walk' = [walk EXCEPT !.returned = @ \union Ids(page), !.cursor = next,
                                            !.at = "end"]
<1>1. walk \in WalkStages /\ walk.repeated = FALSE /\ DOMAIN walk # {}
  <2>1. walk # Idle
    BY DEF Idle
  <2> QED
    BY <2>1 DEF RowsHeld, WalkStages
<1> DEFINE given == [walk EXCEPT !.returned = @ \union Ids(page),
                                 !.repeated = @ \/ Ids(page) \cap walk.returned # {},
                                 !.cursor = next]
<1>2. given = [walk EXCEPT !.returned = @ \union Ids(page), !.cursor = next]
  BY <1>1
<1>3. walk' = IF more THEN given ELSE [given EXCEPT !.at = "end"]
  BY DEF Turn
<1> HIDE DEF given
<1>4. ~more => walk' = [given EXCEPT !.at = "end"]
  BY <1>3
<1> QED
  BY <1>1, <1>2, <1>3, <1>4

\* ListThreads: a page repeats nothing, and leaves nothing that is owed before
\* the next cursor.
LEMMA NextPageKeepsInv ==
    ASSUME PagingInv, NextPage
    PROVE  PagingInv'
<1>1. /\ RowsHeld /\ TypeOK /\ ThreadsWalked /\ walk.at = "threads"
      /\ UNCHANGED <<now, threads, calls, started, poster, faults>>
  BY DEF PagingInv, ListingInv, NextPage
<1>2. walk \in [at : {"threads", "end"}, filter : Filters, cursor : Cursor,
                returned : SUBSET ThreadIds, repeated : {FALSE}, due : SUBSET ThreadIds]
  BY <1>1, WalkLocals
<1> DEFINE listed   == {u \in threads : Meets(u, walk.filter)}
           matching == {ThreadRow(t) : t \in listed}
           page     == Page(matching, walk.cursor)
           rest     == Rest(matching, walk.cursor)
           next     == IF page.more THEN LastOf(page.rows) ELSE walk.cursor
<1>3. Turn(page.rows, next, page.more)
  BY DEF NextPage, LastOf
<1>4. matching \in SUBSET PageRow /\ IsFiniteSet(matching)
      /\ \A t \in threads : ThreadRow(t).id = t.id /\ ThreadRow(t).time = t.createdAt
                            /\ ThreadRow(t) \in Cursor
  <2>1. \A t \in threads : ThreadRow(t).id = t.id /\ ThreadRow(t).time = t.createdAt
                           /\ ThreadRow(t) \in PageRow /\ ThreadRow(t) \in Cursor
    <3> TAKE t \in threads
    <3>1. /\ t.id \in Nat /\ t.createdAt \in 1 .. now /\ now \in 1 .. MaxNow /\ MaxNow \in Nat
      BY <1>1, ListingAssumption DEF TypeOK
    <3>2. t.createdAt \in Nat /\ t.createdAt \in 0 .. MaxNow + 1
      BY <3>1
    <3> QED
      BY <3>1, <3>2 DEF ThreadRow, PageRow, Cursor
  <2>2. IsFiniteSet(listed)
    BY <1>1, FS_Subset DEF RowsHeld
  <2> DEFINE f == [t \in listed |-> ThreadRow(t)]
  <2>3. f \in Surjection(listed, matching)
    BY DEF Surjection
  <2>4. IsFiniteSet(matching)
    BY <2>2, <2>3, FS_Surjection
  <2> QED
    BY <2>1, <2>4
<1>5. /\ page.rows \subseteq rest
      /\ ~page.more => page.rows = rest
      /\ page.more => /\ LastOf(page.rows) \in page.rows
                      /\ \A q \in page.rows : ~PastCursor(q, LastOf(page.rows))
                      /\ \A r \in rest \ page.rows : PastCursor(r, LastOf(page.rows))
  <2>1. Limit \in Nat \ {0}
    BY ListingAssumption
  <2>2. rest = Rest(matching, walk.cursor) /\ page = Page(matching, walk.cursor)
    OBVIOUS
  <2> HIDE DEF matching, page, rest
  <2> QED
    BY <1>4, <2>1, <2>2, PageOfRows
<1>6. \A r \in rest : \E t \in threads :
         r = ThreadRow(t) /\ t.id = r.id /\ PastCursor(ThreadRow(t), walk.cursor)
  BY <1>4 DEF Rest
<1>7. \A t \in threads : Meets(t, walk.filter) /\ PastCursor(ThreadRow(t), walk.cursor) =>
         ThreadRow(t) \in rest
  BY DEF Rest
<1> HIDE DEF page, rest, next
<1>8. Ids(page.rows) \cap walk.returned = {}
  <2> SUFFICES ASSUME NEW r \in page.rows, r.id \in walk.returned PROVE FALSE
    BY DEF Ids
  <2>1. PICK t \in threads : t.id = r.id /\ PastCursor(ThreadRow(t), walk.cursor)
    BY <1>5, <1>6
  <2>2. PICK u \in threads : u.id = r.id /\ ~PastCursor(ThreadRow(u), walk.cursor)
    BY <1>1 DEF ThreadsWalked
  <2>3. t = u
    BY <1>1, <2>1, <2>2 DEF TypeOK
  <2> QED
    BY <2>1, <2>2, <2>3
<1>9. Ids(page.rows) \subseteq ThreadIds
  BY <1>1, <1>5, <1>6 DEF Ids, TypeOK
<1>10. \A id \in walk.due : \E t \in threads :
          /\ t.id = id /\ Meets(t, walk.filter)
          /\ id \in walk.returned \union Ids(page.rows) \/ ThreadRow(t) \in rest \ page.rows
  <2> TAKE id \in walk.due
  <2>1. PICK t \in threads : /\ t.id = id /\ Meets(t, walk.filter)
                             /\ id \in walk.returned \/ PastCursor(ThreadRow(t), walk.cursor)
    BY <1>1 DEF ThreadsWalked
  <2>2. CASE ThreadRow(t) \in page.rows
    BY <1>4, <2>1, <2>2 DEF Ids
  <2>3. CASE ThreadRow(t) \notin page.rows
    BY <1>7, <2>1, <2>3
  <2> QED
    BY <2>2, <2>3
<1>11. CASE page.more
  <2>1. PICK last : last = LastOf(page.rows)
    OBVIOUS
  <2>2. walk' = [walk EXCEPT !.returned = @ \union Ids(page.rows), !.cursor = last]
    <3>1. next = last
      BY <1>11, <2>1 DEF next
    <3> QED
      BY <1>1, <1>3, <1>8, <1>11, <3>1, TurnOfWalk
  <2>3. /\ last \in page.rows
        /\ \A q \in page.rows : ~PastCursor(q, last)
        /\ \A r \in rest \ page.rows : PastCursor(r, last)
    BY <1>5, <1>11, <2>1
  <2>4. PICK l \in threads : last = ThreadRow(l) /\ PastCursor(last, walk.cursor)
    BY <1>5, <1>6, <2>3
  <2>5. last \in Cursor
    BY <1>4, <2>4
  <2>6. /\ walk'.at = "threads" /\ walk'.cursor = last /\ walk'.filter = walk.filter
        /\ walk'.returned = walk.returned \union Ids(page.rows) /\ walk'.due = walk.due
    BY <1>1, <1>2, <2>2
  <2>7. walk' \in WalkStages
    BY <1>2, <1>9, <2>2, <2>5 DEF WalkStages
  <2>8. \A t \in threads : ~PastCursor(ThreadRow(t), walk.cursor) => ~PastCursor(ThreadRow(t), last)
    <3>1. walk.cursor \in [time : Nat, id : Nat] /\ last \in [time : Nat, id : Nat]
      BY <1>2, <2>5, ListingAssumption DEF Cursor
    <3>2. \A t \in threads : ThreadRow(t) \in [time : Nat, id : Nat]
      BY <1>4, ListingAssumption DEF Cursor
    <3> QED
      BY <2>4, <3>1, <3>2 DEF PastCursor
  <2>9. \A id \in walk'.returned : \E t \in threads : t.id = id /\ ~PastCursor(ThreadRow(t), last)
    <3> TAKE id \in walk'.returned
    <3>1. CASE id \in walk.returned
      BY <1>1, <2>8, <3>1 DEF ThreadsWalked
    <3>2. CASE id \in Ids(page.rows)
      BY <1>5, <1>6, <2>3, <3>2 DEF Ids
    <3> QED
      BY <2>6, <3>1, <3>2
  <2>10. \A id \in walk'.due : \E t \in threads :
            /\ t.id = id /\ Meets(t, walk.filter)
            /\ id \in walk'.returned \/ PastCursor(ThreadRow(t), last)
    BY <1>10, <2>3, <2>6
  <2>11. ThreadsWalked'
    BY <1>1, <2>6, <2>9, <2>10 DEF ThreadsWalked, ThreadRow, Meets
  <2>12. CallsWalked' /\ PagesMissNothing'
    BY <2>6 DEF CallsWalked, PagesMissNothing
  <2> QED
    BY <1>1, <2>7, <2>11, <2>12, WalkStepKeepsInv
<1>12. CASE ~page.more
  <2>1. walk' = [walk EXCEPT !.returned = @ \union Ids(page.rows), !.cursor = walk.cursor,
                             !.at = "end"]
    <3>1. next = walk.cursor
      BY <1>12 DEF next
    <3> QED
      BY <1>1, <1>3, <1>8, <1>12, <3>1, TurnOfWalk
  <2>2. /\ walk'.at = "end" /\ walk'.due = walk.due
        /\ walk'.returned = walk.returned \union Ids(page.rows)
    BY <1>2, <2>1
  <2>3. walk' \in WalkStages
    BY <1>2, <1>9, <2>1 DEF WalkStages
  <2>4. walk.due \subseteq walk.returned \union Ids(page.rows)
    BY <1>5, <1>10, <1>12
  <2>5. ThreadsWalked' /\ CallsWalked' /\ PagesMissNothing'
    BY <2>2, <2>4 DEF ThreadsWalked, CallsWalked, PagesMissNothing
  <2> QED
    BY <1>1, <2>3, <2>5, WalkStepKeepsInv
<1> QED
  BY <1>11, <1>12

\* GET /api/tool-calls: the same by time alone, for calls with a time of their own.
LEMMA NextCallsKeepsInv ==
    ASSUME PagingInv, NextCalls
    PROVE  PagingInv'
<1>1. /\ RowsHeld /\ TypeOK /\ CallsWalked /\ walk.at = "calls"
      /\ UNCHANGED <<now, threads, calls, started, poster, faults>>
  BY DEF PagingInv, ListingInv, NextCalls
<1>2. walk \in [at : {"calls", "end"}, cursor : Cursor,
                returned : SUBSET CallIds, repeated : {FALSE}, due : SUBSET CallIds]
  BY <1>1, WalkLocals
<1> DEFINE rest == {c \in calls : CalledBefore(c, walk.cursor.time)}
           size == IF Cardinality(rest) < Limit THEN Cardinality(rest) ELSE Limit
           times(page)  == {c.calledAt : c \in page}
           oldest(page) == IF page = {} THEN 0 ELSE Min(times(page))
           next(page)   == [walk.cursor EXCEPT !.time = oldest(page)]
<1>3. PICK page \in kSubset(size, rest) :
         /\ \A c \in page, d \in rest \ page : c.calledAt >= d.calledAt
         /\ Turn(page, next(page), size = Limit)
  BY DEF NextCalls
<1>4. /\ IsFiniteSet(rest) /\ Cardinality(rest) \in Nat /\ Limit \in Nat \ {0} /\ MaxNow \in Nat
      /\ page \in SUBSET rest /\ Cardinality(page) = size
  BY <1>1, <1>3, FS_Subset, FS_CardinalityType, ListingAssumption DEF RowsHeld, kSubset
<1>5. \A c \in calls : c.calledAt \in Nat /\ c.calledAt \in 0 .. MaxNow + 1 /\ c.id \in CallIds
  <2> TAKE c \in calls
  <2>1. c.calledAt \in 1 .. now /\ now \in 1 .. MaxNow /\ c.id \in CallIds
    BY <1>1 DEF TypeOK
  <2> QED
    BY <1>4, <2>1
<1>6. walk.cursor \in [time : 0 .. MaxNow + 1, id : Nat]
  BY <1>2 DEF Cursor
<1>7. Ids(page) \cap walk.returned = {} /\ Ids(page) \subseteq CallIds
  <2>1. ASSUME NEW c \in page, c.id \in walk.returned PROVE FALSE
    <3>1. c \in calls /\ CalledBefore(c, walk.cursor.time)
      BY <1>4
    <3>2. PICK d \in calls : d.id = c.id /\ ~CalledBefore(d, walk.cursor.time)
      BY <1>1, <2>1 DEF CallsWalked
    <3> QED
      BY <1>1, <3>1, <3>2 DEF RowsHeld
  <2> QED
    BY <1>4, <1>5, <2>1 DEF Ids
<1>8. \A id \in walk.due : \E c \in calls :
         /\ c.id = id
         /\ \A d \in calls \union started : d.calledAt = c.calledAt => d = c
         /\ id \in walk.returned \union Ids(page) \/ c \in rest \ page
  BY <1>1 DEF CallsWalked, Ids
<1>9. CASE size = Limit
  <2>1. page # {}
    BY <1>4, <1>9, FS_EmptySet
  <2>2. PICK time : time = oldest(page)
    OBVIOUS
  <2>3. time \in times(page) /\ \A c \in page : time <= c.calledAt
    <3>1. times(page) \in SUBSET Nat /\ times(page) # {}
      BY <1>4, <1>5, <2>1
    <3>2. time = Min(times(page)) /\ \A c \in page : c.calledAt \in times(page)
      BY <2>1, <2>2
    <3> HIDE DEF times, oldest
    <3> QED
      BY <3>1, <3>2, LeastOfNaturals
  <2>4. time \in 0 .. MaxNow + 1
    BY <1>4, <1>5, <2>3
  <2> DEFINE cursor == [walk.cursor EXCEPT !.time = time]
  <2>5. cursor.time = time /\ cursor \in Cursor
    BY <1>6, <2>4 DEF Cursor
  <2>6. walk' = [walk EXCEPT !.returned = @ \union Ids(page), !.cursor = cursor]
    <3>1. next(page) = cursor
      BY <2>2
    <3> HIDE DEF next, cursor, size
    <3>2. Turn(page, cursor, TRUE)
      BY <1>3, <1>9, <3>1 DEF Turn
    <3> QED
      BY <1>1, <1>7, <3>2, TurnOfWalk
  <2> HIDE DEF cursor
  <2>7. /\ walk'.at = "calls" /\ walk'.cursor = cursor /\ walk'.due = walk.due
        /\ walk'.returned = walk.returned \union Ids(page)
    BY <1>1, <1>2, <2>6
  <2>8. walk' \in WalkStages
    BY <1>2, <1>7, <2>5, <2>6 DEF WalkStages
  <2>9. PICK o \in page : time = o.calledAt
    BY <2>3
  <2>10. o \in calls /\ o.calledAt < walk.cursor.time
    BY <1>4, <2>9 DEF CalledBefore
  <2>11. \A id \in walk'.returned : \E c \in calls : c.id = id /\ ~CalledBefore(c, time)
    <3> TAKE id \in walk'.returned
    <3>1. CASE id \in walk.returned
      <4>1. PICK c \in calls : c.id = id /\ ~CalledBefore(c, walk.cursor.time)
        BY <1>1, <3>1 DEF CallsWalked
      <4> QED
        BY <1>5, <1>6, <2>9, <2>10, <4>1 DEF CalledBefore
    <3>2. CASE id \in Ids(page)
      <4>1. PICK c \in page : c.id = id
        BY <3>2 DEF Ids
      <4> QED
        BY <1>4, <1>5, <2>3, <2>9, <2>10, <4>1 DEF CalledBefore
    <3> QED
      BY <2>7, <3>1, <3>2
  <2>12. \A id \in walk'.due : \E c \in calls :
            /\ c.id = id
            /\ \A d \in calls \union started : d.calledAt = c.calledAt => d = c
            /\ id \in walk'.returned \/ CalledBefore(c, time)
    <3> TAKE id \in walk'.due
    <3>1. PICK c \in calls :
             /\ c.id = id
             /\ \A d \in calls \union started : d.calledAt = c.calledAt => d = c
             /\ id \in walk.returned \union Ids(page) \/ c \in rest \ page
      BY <1>8, <2>7
    <3>2. ASSUME c \in rest \ page PROVE CalledBefore(c, time)
      <4>1. o.calledAt >= c.calledAt /\ o # c
        BY <1>3, <2>9, <3>2
      <4>2. o.calledAt # c.calledAt
        BY <2>10, <3>1, <4>1
      <4> QED
        BY <1>5, <2>9, <2>10, <4>1, <4>2 DEF CalledBefore
    <3> QED
      BY <2>7, <3>1, <3>2
  <2>13. CallsWalked'
    BY <1>1, <2>5, <2>7, <2>11, <2>12 DEF CallsWalked, CalledBefore
  <2>14. ThreadsWalked' /\ PagesMissNothing'
    BY <2>7 DEF ThreadsWalked, PagesMissNothing
  <2> QED
    BY <1>1, <2>8, <2>13, <2>14, WalkStepKeepsInv
<1>10. CASE size # Limit
  <2>1. page = rest
    <3>1. Cardinality(page) = Cardinality(rest)
      BY <1>4, <1>10
    <3> HIDE DEF rest, size
    <3> QED
      BY <1>4, <3>1, FS_Subset
  <2>2. PICK cursor : cursor = next(page)
    OBVIOUS
  <2>3. walk' = [walk EXCEPT !.returned = @ \union Ids(page), !.cursor = cursor, !.at = "end"]
    <3> HIDE DEF next, size
    <3>1. Turn(page, cursor, FALSE)
      BY <1>3, <1>10, <2>2 DEF Turn
    <3> QED
      BY <1>1, <1>7, <3>1, TurnOfWalk
  <2>4. cursor \in Cursor
    <3>1. oldest(page) \in 0 .. MaxNow + 1
      <4>1. CASE page = {}
        BY <1>4, <4>1
      <4>2. CASE page # {}
        <5>1. /\ times(page) \in SUBSET Nat /\ times(page) # {}
              /\ times(page) \subseteq 0 .. MaxNow + 1
          BY <1>4, <1>5, <4>2
        <5>2. Min(times(page)) \in times(page)
          <6> HIDE DEF times
          <6> QED
            BY <5>1, LeastOfNaturals
        <5> QED
          BY <4>2, <5>1, <5>2
      <4> QED
        BY <4>1, <4>2
    <3> QED
      BY <1>6, <2>2, <3>1 DEF Cursor
  <2>5. /\ walk'.at = "end" /\ walk'.due = walk.due
        /\ walk'.returned = walk.returned \union Ids(page)
    BY <1>2, <2>3
  <2>6. walk' \in WalkStages
    BY <1>2, <1>7, <2>3, <2>4 DEF WalkStages
  <2>7. walk.due \subseteq walk.returned \union Ids(page)
    BY <1>8, <2>1
  <2>8. ThreadsWalked' /\ CallsWalked' /\ PagesMissNothing'
    BY <2>5, <2>7 DEF ThreadsWalked, CallsWalked, PagesMissNothing
  <2> QED
    BY <1>1, <2>6, <2>8, WalkStepKeepsInv
<1> QED
  BY <1>9, <1>10

------------------------------------------------------------------------------
(* The theorems.                                                           *)

\* Empty tables, and nobody at work.
LEMMA InitEstablishesPaging == Init => PagingInv
<1> SUFFICES ASSUME Init PROVE PagingInv
  OBVIOUS
<1>1. Idle \in PosterStages /\ Idle \in WalkStages /\ Idle.at = "idle"
  BY DEF PosterStages, WalkStages, Idle
<1>2. TypeOK
  BY <1>1, ListingAssumption DEF Init, TypeOK
<1>3. RowsHeld
  BY <1>1, FS_EmptySet DEF Init, RowsHeld
<1> QED
  BY <1>1, <1>2, <1>3
  DEF Init, PagingInv, ListingInv, OneThreadPerExternalId, PostersHeld, Uncommitted,
      ThreadsWalked, CallsWalked, PagesMissNothing

\* Every step of a poster, a tool call, the clock or a reader keeps it.
LEMMA StepKeepsPaging == PagingInv /\ [Next]_vars => PagingInv'
<1> SUFFICES ASSUME PagingInv, [Next]_vars PROVE PagingInv'
  OBVIOUS
<1>1. CASE Tick
  BY <1>1, TickKeepsInv
<1>2. ASSUME NEW p \in Posters,
             \/ \E x \in ExternalIds \union {None} : Post(p, x)
             \/ Find(p) \/ FindFails(p) \/ Refused(p) \/ Rollback(p)
      PROVE  PagingInv'
  BY <1>2, PostingKeepsInv
<1>3. ASSUME NEW p \in Posters, Commit(p) PROVE PagingInv'
  BY <1>3, CommitKeepsInv
<1>4. ASSUME NEW p \in Posters, NEW id \in ThreadIds, Insert(p, id) PROVE PagingInv'
  BY <1>4, InsertKeepsInv
<1>5. ASSUME NEW id \in ThreadIds, NEW s \in {"open", "resolved"}, SetThreadStatus(id, s)
      PROVE  PagingInv'
  BY <1>5, SetThreadStatusKeepsInv
<1>6. ASSUME NEW id \in CallIds, StartCall(id) PROVE PagingInv'
  BY <1>6, StartCallKeepsInv
<1>7. ASSUME NEW row \in started, RecordCall(row) PROVE PagingInv'
  BY <1>7, RecordCallKeepsInv
<1>8. CASE WalkCalls \/ \E f \in Filters : WalkThreads(f)
  BY <1>8, WalkBeginsKeepsInv
<1>9. CASE NextPage
  BY <1>9, NextPageKeepsInv
<1>10. CASE NextCalls
  BY <1>10, NextCallsKeepsInv
<1>11. CASE EndWalk
  BY <1>11, EndWalkKeepsInv
<1>12. CASE UNCHANGED vars
  <2>1. /\ now' = now /\ threads' = threads /\ calls' = calls /\ started' = started
        /\ poster' = poster /\ walk' = walk /\ faults' = faults
    BY <1>12 DEF vars
  <2>2. walk' \in WalkStages
    BY <2>1, WalkLocals DEF PagingInv
  <2>3. ThreadsWalked' /\ CallsWalked' /\ PagesMissNothing'
    BY <2>1
    DEF PagingInv, ThreadsWalked, CallsWalked, PagesMissNothing, ThreadRow, Meets, CalledBefore
  <2> QED
    BY <2>1, <2>2, <2>3, WalkStepKeepsInv
<1> QED
  BY <1>1, <1>2, <1>3, <1>4, <1>5, <1>6, <1>7, <1>8, <1>9, <1>10, <1>11, <1>12 DEF Next

\* Every reachable state of the tables, posters and walks satisfies the invariant.
THEOREM PagingInvariant == Spec => []PagingInv
<1> QED
  BY InitEstablishesPaging, StepKeepsPaging, PTL DEF Spec

\* CreateThreadExt: rows keep their shape, and an external id opens one thread at
\* most, however posters race and fail.
THEOREM ThreadsStayUnique == Spec => []ListingInv
<1>1. PagingInv => ListingInv
  BY DEF PagingInv
<1> QED
  BY <1>1, PagingInvariant, PTL

\* ListThreads and the audit listing: no page repeats a row of an earlier one.
THEOREM WalksRepeatNothing == Spec => []PagesRepeatNothing
<1>1. PagingInv => PagesRepeatNothing
  BY WalkLocals DEF PagingInv, PagesRepeatNothing
<1> QED
  BY <1>1, PagingInvariant, PTL

\* A walk that came to its end has returned all it owed: the threads that met its
\* filter throughout, and the calls with a time of their own.
THEOREM WalksMissNothing == Spec => []PagesMissNothing
<1>1. PagingInv => PagesMissNothing
  BY DEF PagingInv
<1> QED
  BY <1>1, PagingInvariant, PTL

\* create_thread: the unique index refuses no call whose lookup could have found
\* the thread, and did not fail.
THEOREM OnlyRacersAreRefused == Spec => ExistingThreadIsReturned
<1>1. ASSUME PagingInv, NEW p \in Posters, Refused(p)
      PROVE  ~poster[p].existed \/ poster[p].failed
  BY <1>1 DEF PagingInv, PostersHeld, Refused
<1>2. PagingInv /\ [Next]_vars =>
         [\A p \in Posters : Refused(p) => ~poster[p].existed \/ poster[p].failed]_vars
  BY <1>1
<1> QED
  BY <1>2, PagingInvariant, PTL DEF Spec, ExistingThreadIsReturned
==============================================================================
