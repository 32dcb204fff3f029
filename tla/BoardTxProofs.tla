---------------------------- MODULE BoardTxProofs ----------------------------
(***************************************************************************)
(* Theorems about BoardTx.tla for any numbers of sessions, actors, threads *)
(* and posts: the committed tables keep their shape on either backend, and *)
(* cursors what they promise if no agent makes two calls at a time, which  *)
(* SQLite's single connection enforces.  On SQLite the statements implement*)
(* the storage calls of Board.tla.                                         *)
(***************************************************************************)
EXTENDS BoardTx, WellFoundedInduction, FiniteSetTheorems, TLAPS

Active(s) == txn[s].pc # "idle"

\* The calls of one actor do not overlap: SQLite has one connection, and on
\* Postgres every agent waits for the answer of its last call.
OneCallAtATime ==
    Backend = "sqlite" \/ \A s, o \in Sessions : ActorOf[s] = ActorOf[o] => s = o

------------------------------------------------------------------------------
(* The shape of the tables, the transactions and their writes.             *)

\* The locals of a transaction at each of its statements.
Stages ==
    [pc : {"idle", "markMentions", "commit"}]
    \union [pc : {"insertReply"}, thread : Threads, extra : SUBSET Actors,
            mentioned : SUBSET Actors]
    \union [pc : {"insertWatchers", "writeCursors"}, thread : Threads, at : 1 .. MaxPosts,
            extra : SUBSET Actors, mentioned : SUBSET Actors]
    \union [pc : {"ensureCursor", "deleteCursor"}, thread : Threads]
    \union [pc : {"selectReplies"}, todo : SUBSET (Pairs \X (0 .. MaxPosts))]
    \union [pc : {"updateCursor"}, todo : SUBSET (Pairs \X (0 .. MaxPosts)),
            watch : Pairs, news : SUBSET (1 .. MaxPosts)]

\* s has inserted the post stamped at, and not committed it.
Posting(s, at) == \E x \in writes[s] : x[1] = "post" /\ x[2].at = at

WriteOK(s, w) ==
    /\ w[1] = "post" => w[2] \in Post /\ w[2].at <= clock
    /\ w[1] \in {"watcher+", "watcher-", "cursor", "cursor-", "returned"} => w[2] \in Pairs
    /\ w[1] = "cursor" => w[3] \in 0 .. clock
    /\ w[1] = "returned" => w[3] \in SUBSET (1 .. clock)
    /\ w[1] = "mention" => w[2][2] \in Actors /\ Posting(s, w[2][1])
    /\ w[1] = "seen" => w[2] \in mentions

StageOK(s) ==
    /\ txn[s].pc = "insertReply" => writes[s] = {}
    /\ txn[s].pc \in {"insertWatchers", "writeCursors"} =>
          txn[s].at <= clock /\ Posting(s, txn[s].at)
    /\ txn[s].pc = "updateCursor" => txn[s].news # {} /\ txn[s].news \in SUBSET (1 .. clock)

OnePost(s) == \A w, x \in writes[s] : w[1] = "post" /\ x[1] = "post" => w = x

\* No time lies ahead, and SQLite runs one transaction.
ShapeInv ==
    /\ TypeOK
    /\ \A i \in DOMAIN rows : rows[i].at <= clock
    /\ \A p \in Pairs : lastReadAt[p] <= clock
    /\ returned \in [Pairs -> SUBSET (1 .. MaxPosts)]
    /\ txn \in [Sessions -> Stages]
    /\ DOMAIN writes = Sessions
    /\ \A s \in Sessions : StageOK(s) /\ OnePost(s) /\ \A w \in writes[s] : WriteOK(s, w)
    /\ Backend = "sqlite" => \A s, o \in Sessions : Active(s) /\ Active(o) => s = o

------------------------------------------------------------------------------
(* Cursors.                                                                *)

WritesRow(w) == w[1] = "cursor" \/ w[1] = "cursor-"

\* A pending cursor lies on a row of the session's own actor, or opens a row
\* nobody has at zero; it is not behind the committed one.
CursorOK(s, w) ==
    /\ w[1] = "cursor-" => w[2][1] = ActorOf[s]
    /\ w[1] = "cursor" => w[3] = 0 \/ w[2][1] = ActorOf[s]
    /\ w[1] = "cursor" /\ w[2] \in threadWatches =>
          w[2][1] = ActorOf[s] /\ lastReadAt[w[2]] <= w[3]
    /\ WritesRow(w) =>
          Exists(w[2][2]) \/ \E x \in writes[s] : x[1] = "post" /\ x[2].thread = w[2][2]

\* Replies about to be returned are behind the cursor written with them.
ReturnsOK(s, w) ==
    w[1] = "returned" =>
        /\ txn[s].pc \in {"selectReplies", "updateCursor", "markMentions", "commit"}
        /\ \E x \in writes[s] : x[1] = "cursor" /\ x[2] = w[2]
        /\ \A x \in writes[s] : x[1] = "cursor" /\ x[2] = w[2] => \A r \in w[3] : r <= x[3]

\* A watch that catch_up has still to look at is its actor's, and as it was read.
Unvisited(s, p) ==
    /\ p \in threadWatches /\ p[1] = ActorOf[s]
    /\ \A x \in writes[s] : ~(x[1] = "cursor" /\ x[2] = p)

CursorStageOK(s) ==
    /\ txn[s].pc \in {"insertReply", "insertWatchers", "writeCursors", "ensureCursor"} =>
          Exists(txn[s].thread)
    /\ txn[s].pc \in {"insertWatchers", "writeCursors"} =>
          lastReadAt[Own(s, txn[s].thread)] <= txn[s].at
    /\ txn[s].pc \in {"selectReplies", "updateCursor"} =>
          \A w \in txn[s].todo : Unvisited(s, w[1]) /\ w[2] = lastReadAt[w[1]]
    /\ txn[s].pc = "updateCursor" =>
          /\ Unvisited(s, txn[s].watch)
          /\ \A w \in txn[s].todo : w[1] # txn[s].watch
          /\ \A r \in txn[s].news : lastReadAt[txn[s].watch] < r

\* A locked row is locked by one transaction.
RowsLocked ==
    \A s, o \in Sessions : \A w \in writes[s], x \in writes[o] :
        WritesRow(w) /\ WritesRow(x) /\ w[2] = x[2] => s = o

ReturnedBehindCursor ==
    \A p \in Pairs : \A r \in returned[p] : p \in threadWatches /\ r <= lastReadAt[p]

CursorInv ==
    /\ ReturnedBehindCursor
    /\ \A p \in threadWatches : Exists(p[2])
    /\ RowsLocked
    /\ \A s \in Sessions :
          CursorStageOK(s) /\ \A w \in writes[s] : CursorOK(s, w) /\ ReturnsOK(s, w)

------------------------------------------------------------------------------
(* Mentions on SQLite.                                                     *)

SeenInv ==
    /\ SeenMentionsWereReturned
    /\ \A s \in Sessions :
          /\ Written(s, "seen") \subseteq Written(s, "gaveMention")
          /\ txn[s].pc = "markMentions" =>
                UnseenMentions(ActorOf[s]) \subseteq Written(s, "gaveMention")

------------------------------------------------------------------------------
(* What a step does to the transactions.                                   *)

\* The locals of a transaction, by its statement.
LEMMA StageLocals ==
    ASSUME NEW x \in Stages
    PROVE  /\ x.pc = "insertReply" =>
                 x \in [pc : {"insertReply"}, thread : Threads, extra : SUBSET Actors,
                       mentioned : SUBSET Actors]
           /\ x.pc \in {"insertWatchers", "writeCursors"} =>
                 x \in [pc : {"insertWatchers", "writeCursors"}, thread : Threads,
                       at : 1 .. MaxPosts, extra : SUBSET Actors, mentioned : SUBSET Actors]
           /\ x.pc \in {"ensureCursor", "deleteCursor"} =>
                 x \in [pc : {"ensureCursor", "deleteCursor"}, thread : Threads]
           /\ x.pc = "selectReplies" =>
                 x \in [pc : {"selectReplies"}, todo : SUBSET (Pairs \X (0 .. MaxPosts))]
           /\ x.pc = "updateCursor" =>
                 x \in [pc : {"updateCursor"}, todo : SUBSET (Pairs \X (0 .. MaxPosts)),
                       watch : Pairs, news : SUBSET (1 .. MaxPosts)]
  BY DEF Stages

\* A statement concerns its own session only.
LEMMA StatementEffect ==
    ASSUME ShapeInv, NEW s \in Sessions, NEW next, NEW W, Statement(s, next, W)
    PROVE  /\ txn'[s] = next /\ writes'[s] = writes[s] \union W
           /\ \A o \in Sessions \ {s} : txn'[o] = txn[o] /\ writes'[o] = writes[o]
           /\ next \in Stages => txn' \in [Sessions -> Stages]
           /\ DOMAIN writes' = Sessions
           /\ UNCHANGED <<rows, watchers, threadWatches, lastReadAt, mentions, seenMentions,
                         returned, returnedMentions>>
<1>1. /\ txn \in [Sessions -> Stages] /\ DOMAIN writes = Sessions
      /\ txn' = [txn EXCEPT ![s] = next]
      /\ writes' = [writes EXCEPT ![s] = @ \union W]
  BY DEF ShapeInv, Statement
<1>2. UNCHANGED <<rows, watchers, threadWatches, lastReadAt, mentions, seenMentions,
                  returned, returnedMentions>>
  BY DEF Statement, tables
<1> QED
  BY <1>1, <1>2

\* Committed posts are posts.
LEMMA RowsArePosts ==
    ASSUME ShapeInv, NEW i \in DOMAIN rows
    PROVE  rows[i] \in Post /\ rows[i].at \in 1 .. MaxPosts /\ rows[i].at <= clock
<1>1. rows \in Seq(Post)
  BY DEF ShapeInv, TypeOK
<1>2. rows[i] \in Post
  BY <1>1
<1>3. rows[i].at <= clock
  BY DEF ShapeInv
<1> QED
  BY <1>2, <1>3 DEF Post

\* It keeps the shape if what it writes has it.
LEMMA StatementKeepsShape ==
    ASSUME ShapeInv, NEW s \in Sessions, NEW next \in Stages, NEW W, Statement(s, next, W),
           clock' \in 0 .. MaxPosts, clock <= clock',
           next.pc # "idle",
           Active(s) \/ (Backend = "sqlite" => \A o \in Sessions : ~Active(o)),
           StageOK(s)', OnePost(s)', \A w \in W : WriteOK(s, w)'
    PROVE  ShapeInv'
<1>1. /\ txn'[s] = next /\ writes'[s] = writes[s] \union W
      /\ \A o \in Sessions \ {s} : txn'[o] = txn[o] /\ writes'[o] = writes[o]
      /\ txn' \in [Sessions -> Stages] /\ DOMAIN writes' = Sessions
      /\ UNCHANGED <<rows, watchers, threadWatches, lastReadAt, mentions, seenMentions,
                    returned, returnedMentions>>
  BY StatementEffect
<1>2. TypeOK'
  <2>1. \A o \in Sessions : txn'[o].pc = "idle" => writes'[o] = {}
    BY <1>1 DEF ShapeInv, TypeOK
  <2> QED
    BY <1>1, <2>1 DEF ShapeInv, TypeOK, Pairs
<1>3. (\A i \in DOMAIN rows : rows[i].at <= clock)'
  <2>1. \A i \in DOMAIN rows : rows[i].at \in Nat
    BY RowsArePosts, ConstantsAssumption
  <2> QED
    BY <1>1, <2>1 DEF ShapeInv, TypeOK
<1>4. (\A p \in Pairs : lastReadAt[p] <= clock)'
  <2>1. \A p \in Pairs : lastReadAt[p] \in Nat
    BY DEF ShapeInv, TypeOK
  <2> QED
    BY <1>1, <2>1 DEF ShapeInv, TypeOK, Pairs
<1>5. (returned \in [Pairs -> SUBSET (1 .. MaxPosts)])'
  BY <1>1 DEF ShapeInv, Pairs
<1>6. ASSUME NEW o \in Sessions, NEW w \in writes[o] PROVE WriteOK(o, w)'
  <2>1. WriteOK(o, w) /\ writes[o] \subseteq writes'[o] /\ mentions' = mentions
    BY <1>1, <1>6 DEF ShapeInv
  <2>2. clock \in Nat /\ clock' \in Nat
    BY DEF ShapeInv, TypeOK
  <2>3. \A at : Posting(o, at) => Posting(o, at)'
    BY <2>1 DEF Posting
  <2>4. w[1] = "post" => w[2] \in Post /\ w[2].at <= clock'
    <3> SUFFICES ASSUME w[1] = "post" PROVE w[2] \in Post /\ w[2].at <= clock'
      OBVIOUS
    <3>1. w[2] \in Post /\ w[2].at <= clock
      BY <2>1 DEF WriteOK
    <3>2. w[2].at \in Nat
      BY <3>1 DEF Post
    <3> QED
      BY <2>2, <3>1, <3>2
  <2>5. w[1] = "cursor" => w[3] \in 0 .. clock'
    BY <2>1, <2>2 DEF WriteOK
  <2>6. w[1] = "returned" => w[3] \in SUBSET (1 .. clock')
    BY <2>1, <2>2 DEF WriteOK
  <2>7. w[1] = "mention" => w[2][2] \in Actors /\ Posting(o, w[2][1])'
    BY <2>1, <2>3 DEF WriteOK
  <2> QED
    BY <2>1, <2>4, <2>5, <2>6, <2>7 DEF WriteOK, Pairs, Post
<1>7. ASSUME NEW o \in Sessions PROVE (StageOK(o) /\ OnePost(o))'
  <2>1. CASE o = s
    BY <2>1
  <2>2. CASE o # s
    <3>1. StageOK(o) /\ OnePost(o) /\ txn'[o] = txn[o] /\ writes'[o] = writes[o]
      BY <1>1, <2>2 DEF ShapeInv
    <3>2. txn[o].pc \in {"insertWatchers", "writeCursors"} => txn[o].at \in Nat
      <4>1. txn[o] \in Stages
        BY DEF ShapeInv
      <4> QED
        BY <4>1, StageLocals
    <3>3. clock \in Nat /\ clock' \in Nat
      BY DEF ShapeInv, TypeOK
    <3> QED
      BY <3>1, <3>2, <3>3 DEF StageOK, OnePost, Posting
  <2> QED
    BY <2>1, <2>2
<1>8. ASSUME NEW o \in Sessions, NEW w \in writes'[o] PROVE WriteOK(o, w)'
  <2>1. CASE w \in writes[o]
    BY <1>6, <2>1
  <2>2. CASE o = s /\ w \in W
    BY <2>2
  <2> QED
    BY <1>1, <1>8, <2>1, <2>2
<1>9. (Backend = "sqlite" => \A q, o \in Sessions : Active(q) /\ Active(o) => q = o)'
  BY <1>1 DEF ShapeInv, Active
<1> QED
  BY <1>1, <1>2, <1>3, <1>4, <1>5, <1>7, <1>8, <1>9 DEF ShapeInv

------------------------------------------------------------------------------
(* Each statement keeps the shape.                                         *)

\* The tables before the first call.
LEMMA InitShape == Init => ShapeInv
<1> SUFFICES ASSUME Init PROVE ShapeInv
  OBVIOUS
<1>1. TypeOK
  BY ConstantsAssumption DEF Init, TypeOK, Pairs, Idle
<1>2. txn \in [Sessions -> Stages]
  BY DEF Init, Idle, Stages
<1>3. \A s \in Sessions : StageOK(s) /\ OnePost(s) /\ \A w \in writes[s] : WriteOK(s, w)
  BY DEF Init, Idle, StageOK, OnePost
<1> QED
  BY <1>1, <1>2, <1>3 DEF Init, ShapeInv, Idle, Active, Pairs

\* What the pool says to a call that begins.
LEMMA BeginFacts ==
    ASSUME ShapeInv, NEW s \in Sessions, NEW call, CanBegin(s, call)
    PROVE  /\ ~Active(s) /\ writes[s] = {} /\ ActorOf[s] \in Actors
           /\ Backend = "sqlite" => \A o \in Sessions : ~Active(o)
  BY ConstantsAssumption DEF CanBegin, Active, ShapeInv, TypeOK

LEMMA CreateThreadKeepsShape ==
    ASSUME ShapeInv, NEW s \in Sessions, NEW t \in Threads, NEW M \in Handles,
           CreateThread(s, t, M)
    PROVE  ShapeInv'
<1> DEFINE a == ActorOf[s]
           post == [at |-> clock', thread |-> t, author |-> a, opens |-> TRUE]
           W == {<<"post", post>>, <<"watcher+", <<a, t>>>>, <<"cursor", <<a, t>>, clock'>>}
                   \union MentionRows(clock', a, M)
           next == [pc |-> "commit"]
<1>1. /\ Statement(s, next, W) /\ clock' = clock + 1 /\ clock < MaxPosts
      /\ CanBegin(s, "CreateThread")
  BY DEF CreateThread
<1>2. clock' \in 0 .. MaxPosts /\ clock <= clock' /\ clock' \in 1 .. MaxPosts
      /\ clock' \in 0 .. clock' /\ clock' <= clock'
  BY <1>1, ConstantsAssumption DEF ShapeInv, TypeOK
<1>3. next \in Stages /\ next.pc # "idle"
  BY DEF Stages
<1>4. writes'[s] = W /\ txn'[s] = next
  BY <1>1, BeginFacts, StatementEffect
<1>5. post \in Post /\ <<a, t>> \in Pairs /\ M \subseteq Actors
  BY <1>1, <1>2, BeginFacts, ConstantsAssumption DEF Post, Pairs
<1>6. <<"post", post>> \in writes'[s]
  BY <1>4
<1>7. ASSUME NEW w \in W PROVE WriteOK(s, w)'
  <2>1. CASE w = <<"post", post>>
    BY <2>1, <1>2, <1>5 DEF WriteOK, Post
  <2>2. CASE w = <<"watcher+", <<a, t>>>>
    BY <2>2, <1>5 DEF WriteOK, Pairs
  <2>3. CASE w = <<"cursor", <<a, t>>, clock'>>
    BY <2>3, <1>2, <1>5 DEF WriteOK, Pairs
  <2>4. CASE w \in MentionRows(clock', a, M)
    <3>1. PICK b \in M \ {a} : w = <<"mention", <<clock', b>>>>
      BY <2>4 DEF MentionRows
    <3>2. \E x \in writes'[s] : x[1] = "post" /\ x[2].at = clock'
      <4>1. <<"post", post>>[1] = "post" /\ <<"post", post>>[2].at = clock'
        OBVIOUS
      <4> QED
        BY <1>6, <4>1
    <3>3. w[1] = "mention" /\ w[2][1] = clock' /\ w[2][2] \in Actors
      BY <3>1, <1>5
    <3> QED
      BY <3>2, <3>3 DEF WriteOK, Posting
  <2> QED
    BY <1>7, <2>1, <2>2, <2>3, <2>4
<1>8. OnePost(s)'
  <2>1. \A w \in W : w[1] = "post" => w = <<"post", post>>
    BY DEF MentionRows
  <2> HIDE DEF W, post
  <2> QED
    BY <1>4, <2>1 DEF OnePost
<1>9. StageOK(s)'
  BY <1>4 DEF StageOK
<1> HIDE DEF W, next
<1> QED
  BY <1>1, <1>2, <1>3, <1>7, <1>8, <1>9, BeginFacts, StatementKeepsShape

\* The first statements of the other calls write nothing but a watcher row.
LEMMA BeginKeepsShape ==
    ASSUME ShapeInv, NEW s \in Sessions, NEW call, CanBegin(s, call), NEW next \in Stages,
           next.pc # "idle", next.pc \notin {"insertWatchers", "writeCursors", "updateCursor"},
           NEW W, Statement(s, next, W), UNCHANGED clock,
           \A w \in W : w[1] \in {"watcher+", "watcher-"} /\ w[2] \in Pairs,
           next.pc = "insertReply" => W = {}
    PROVE  ShapeInv'
<1>1. clock' \in 0 .. MaxPosts /\ clock <= clock'
  BY DEF ShapeInv, TypeOK
<1>2. writes'[s] = W /\ txn'[s] = next
  <2>1. writes[s] = {}
    BY BeginFacts
  <2>2. writes'[s] = writes[s] \union W /\ txn'[s] = next
    BY StatementEffect
  <2> QED
    BY <2>1, <2>2
<1>3. StageOK(s)' /\ OnePost(s)' /\ \A w \in W : WriteOK(s, w)'
  BY <1>2 DEF StageOK, OnePost, WriteOK, Pairs
<1> QED
  BY <1>1, <1>3, BeginFacts, StatementKeepsShape

LEMMA BeginsKeepShape ==
    ASSUME ShapeInv, NEW s \in Sessions,
           \/ \E t \in Threads, X \in Extras, M \in Handles : BeginAddReply(s, t, X, M)
           \/ \E t \in Threads : BeginWatchThread(s, t)
           \/ \E t \in Threads : BeginUnwatchThread(s, t)
           \/ BeginCatchUp(s)
    PROVE  ShapeInv'
<1>1. CASE \E t \in Threads, X \in Extras, M \in Handles : BeginAddReply(s, t, X, M)
  <2>1. PICK t \in Threads, X \in Extras, M \in Handles : BeginAddReply(s, t, X, M)
    BY <1>1
  <2> DEFINE next == [pc |-> "insertReply", thread |-> t, extra |-> X, mentioned |-> M]
  <2>2. /\ CanBegin(s, "AddReply") /\ Statement(s, next, {}) /\ UNCHANGED clock
    BY <2>1 DEF BeginAddReply
  <2>3. next \in Stages /\ next.pc = "insertReply"
    BY ConstantsAssumption DEF Stages
  <2> HIDE DEF next
  <2> QED
    BY <2>2, <2>3, BeginKeepsShape
<1>2. CASE \E t \in Threads : BeginWatchThread(s, t)
  <2>1. PICK t \in Threads : BeginWatchThread(s, t)
    BY <1>2
  <2> DEFINE next == [pc |-> "ensureCursor", thread |-> t]
             W == {<<"watcher+", p>> : p \in {Own(s, t)} \ watchers}
  <2>2. /\ CanBegin(s, "WatchThread") /\ Statement(s, next, W) /\ UNCHANGED clock
    BY <2>1 DEF BeginWatchThread
  <2>3. next \in Stages /\ next.pc = "ensureCursor"
    BY DEF Stages
  <2>4. \A w \in W : w[1] \in {"watcher+", "watcher-"} /\ w[2] \in Pairs
    BY ConstantsAssumption DEF Own, Pairs
  <2> HIDE DEF next, W
  <2> QED
    BY <2>2, <2>3, <2>4, BeginKeepsShape
<1>3. CASE \E t \in Threads : BeginUnwatchThread(s, t)
  <2>1. PICK t \in Threads : BeginUnwatchThread(s, t)
    BY <1>3
  <2> DEFINE next == [pc |-> "deleteCursor", thread |-> t]
             W == {<<"watcher-", p>> : p \in {Own(s, t)} \intersect watchers}
  <2>2. /\ CanBegin(s, "UnwatchThread") /\ Statement(s, next, W) /\ UNCHANGED clock
    BY <2>1 DEF BeginUnwatchThread
  <2>3. next \in Stages /\ next.pc = "deleteCursor"
    BY DEF Stages
  <2>4. \A w \in W : w[1] \in {"watcher+", "watcher-"} /\ w[2] \in Pairs
    BY ConstantsAssumption DEF Own, Pairs
  <2> HIDE DEF next, W
  <2> QED
    BY <2>2, <2>3, <2>4, BeginKeepsShape
<1>4. CASE BeginCatchUp(s)
  <2> DEFINE todo == {<<p, lastReadAt[p]>> : p \in {q \in threadWatches : q[1] = ActorOf[s]}}
             next == [pc |-> "selectReplies", todo |-> todo]
  <2>2. /\ CanBegin(s, "CatchUp") /\ Statement(s, next, {}) /\ UNCHANGED clock
    BY <1>4 DEF BeginCatchUp
  <2>3. todo \in SUBSET (Pairs \X (0 .. MaxPosts))
    BY DEF ShapeInv, TypeOK
  <2>4. next \in Stages /\ next.pc = "selectReplies"
    BY <2>3 DEF Stages
  <2> HIDE DEF next
  <2> QED
    BY <2>2, <2>4, BeginKeepsShape
<1> QED
  BY <1>1, <1>2, <1>3, <1>4

LEMMA InsertReplyKeepsShape ==
    ASSUME ShapeInv, NEW s \in Sessions, InsertReply(s)
    PROVE  ShapeInv'
<1> DEFINE t == txn[s].thread
           post == [at |-> clock', thread |-> t, author |-> ActorOf[s], opens |-> FALSE]
           W == {<<"post", post>>}
           next == [pc |-> "insertWatchers", thread |-> t, at |-> clock',
                    extra |-> txn[s].extra, mentioned |-> txn[s].mentioned]
<1>1. /\ Statement(s, next, W) /\ clock' = clock + 1 /\ clock < MaxPosts
      /\ txn[s].pc = "insertReply"
  BY DEF InsertReply
<1>2. clock' \in 0 .. MaxPosts /\ clock <= clock' /\ clock' \in 1 .. MaxPosts /\ clock' <= clock'
  BY <1>1, ConstantsAssumption DEF ShapeInv, TypeOK
<1>3. t \in Threads /\ txn[s].extra \in SUBSET Actors /\ txn[s].mentioned \in SUBSET Actors
  BY <1>1, StageLocals DEF ShapeInv
<1>4. next \in Stages /\ next.pc # "idle" /\ next.pc = "insertWatchers" /\ next.at = clock'
  BY <1>2, <1>3 DEF Stages
<1>5. writes[s] = {}
  BY <1>1 DEF ShapeInv, StageOK
<1>6. writes'[s] = W /\ txn'[s] = next
  <2> HIDE DEF W, next
  <2>1. writes'[s] = writes[s] \union W /\ txn'[s] = next
    BY <1>1, StatementEffect
  <2> QED
    BY <2>1, <1>5
<1>7. post \in Post /\ post.at = clock'
  BY <1>2, <1>3, ConstantsAssumption DEF Post
<1> HIDE DEF next, post
<1>8. \A w \in W : WriteOK(s, w)'
  BY <1>2, <1>7 DEF WriteOK, Post
<1>9. StageOK(s)'
  <2>1. \E x \in writes'[s] : x[1] = "post" /\ x[2].at = clock'
    BY <1>6, <1>7
  <2> QED
    BY <2>1, <1>2, <1>4, <1>6 DEF StageOK, Posting
<1>10. OnePost(s)'
  BY <1>6 DEF OnePost
<1>11. Active(s)
  BY <1>1 DEF Active
<1> HIDE DEF W
<1> QED
  BY <1>1, <1>2, <1>4, <1>8, <1>9, <1>10, <1>11, StatementKeepsShape

\* A later statement, which inserts no post.
LEMMA LaterKeepsShape ==
    ASSUME ShapeInv, NEW s \in Sessions, Active(s), NEW next \in Stages,
           next.pc \notin {"idle", "insertReply"},
           NEW W, Statement(s, next, W), UNCHANGED clock,
           \A w \in W : w[1] # "post" /\ WriteOK(s, w)',
           next.pc \in {"insertWatchers", "writeCursors"} =>
              next.at <= clock /\ Posting(s, next.at),
           next.pc = "updateCursor" => next.news # {} /\ next.news \in SUBSET (1 .. clock)
    PROVE  ShapeInv'
<1>1. clock' \in 0 .. MaxPosts /\ clock <= clock'
  BY DEF ShapeInv, TypeOK
<1>2. writes'[s] = writes[s] \union W /\ txn'[s] = next
  BY StatementEffect
<1>3. OnePost(s)'
  BY <1>2 DEF OnePost, ShapeInv
<1>4. StageOK(s)'
  BY <1>2 DEF StageOK, Posting
<1> QED
  BY <1>1, <1>3, <1>4, StatementKeepsShape

LEMMA InsertWatchersKeepsShape ==
    ASSUME ShapeInv, NEW s \in Sessions, InsertWatchers(s)
    PROVE  ShapeInv'
<1> DEFINE keys == (txn[s].extra \union {ActorOf[s]}) \X {txn[s].thread}
           W == {<<"watcher+", p>> : p \in keys \ watchers}
           next == [txn[s] EXCEPT !.pc = "writeCursors"]
<1>1. /\ Statement(s, next, W) /\ UNCHANGED clock
      /\ txn[s].pc = "insertWatchers"
  BY DEF InsertWatchers
<1>2. txn[s] \in [pc : {"insertWatchers", "writeCursors"}, thread : Threads, at : 1 .. MaxPosts,
                  extra : SUBSET Actors, mentioned : SUBSET Actors]
  BY <1>1, StageLocals DEF ShapeInv
<1>3. /\ next \in [pc : {"insertWatchers", "writeCursors"}, thread : Threads, at : 1 .. MaxPosts,
                   extra : SUBSET Actors, mentioned : SUBSET Actors]
      /\ next.pc = "writeCursors" /\ next.at = txn[s].at
  BY <1>2
<1>4. next \in Stages /\ next.pc \notin {"idle", "insertReply", "updateCursor"}
      /\ next.at <= clock /\ Posting(s, next.at)
  BY <1>1, <1>3 DEF Stages, ShapeInv, StageOK
<1>5. \A w \in W : w[1] # "post" /\ WriteOK(s, w)'
  <2>1. keys \subseteq Pairs
    BY <1>2, ConstantsAssumption DEF Pairs
  <2> HIDE DEF keys
  <2> QED
    BY <2>1 DEF WriteOK, Pairs
<1>6. Active(s)
  BY <1>1 DEF Active
<1> HIDE DEF W, next
<1> QED
  BY <1>1, <1>4, <1>5, <1>6, LaterKeepsShape

LEMMA UpsertCursorsKeepsShape ==
    ASSUME ShapeInv, NEW s \in Sessions, UpsertCursors(s)
    PROVE  ShapeInv'
<1> DEFINE own == Own(s, txn[s].thread)
           extras == (txn[s].extra \X {txn[s].thread}) \ {own}
           M == txn[s].mentioned
           at == txn[s].at
           W == {<<"cursor", own, at>>} \union {<<"cursor", p, 0>> : p \in extras \ threadWatches}
                \union MentionRows(at, ActorOf[s], M)
           next == [pc |-> "commit"]
<1>1. /\ Statement(s, next, W) /\ UNCHANGED clock
      /\ txn[s].pc = "writeCursors"
  BY DEF UpsertCursors
<1>2. txn[s] \in [pc : {"insertWatchers", "writeCursors"}, thread : Threads, at : 1 .. MaxPosts,
                  extra : SUBSET Actors, mentioned : SUBSET Actors]
  BY <1>1, StageLocals DEF ShapeInv
<1>3. next \in Stages /\ next.pc = "commit"
  BY DEF Stages
<1>4. own \in Pairs /\ extras \subseteq Pairs /\ M \subseteq Actors
  BY <1>2, ConstantsAssumption DEF Pairs, Own
<1>5. at \in 0 .. clock /\ Posting(s, at) /\ 0 \in 0 .. clock /\ clock' = clock
  BY <1>1, <1>2 DEF ShapeInv, StageOK, TypeOK
<1>6. \E x \in writes'[s] : x[1] = "post" /\ x[2].at = at
  <2>1. writes[s] \subseteq writes'[s]
    <3> HIDE DEF W, next
    <3> QED
      BY <1>1, StatementEffect
  <2> QED
    BY <1>5, <2>1 DEF Posting
<1> HIDE DEF own, extras, M, at
<1>7. ASSUME NEW w \in W PROVE w[1] # "post" /\ WriteOK(s, w)'
  <2>1. CASE w = <<"cursor", own, at>>
    BY <2>1, <1>4, <1>5 DEF WriteOK, Pairs
  <2>2. CASE w \in {<<"cursor", p, 0>> : p \in extras \ threadWatches}
    BY <2>2, <1>4, <1>5 DEF WriteOK, Pairs
  <2>3. CASE w \in MentionRows(at, ActorOf[s], M)
    <3>1. w[1] = "mention" /\ w[2][1] = at /\ w[2][2] \in Actors
      BY <2>3, <1>4 DEF MentionRows
    <3> QED
      BY <3>1, <1>6 DEF WriteOK, Posting
  <2> QED
    BY <1>7, <2>1, <2>2, <2>3
<1>8. Active(s)
  BY <1>1 DEF Active
<1> HIDE DEF W, next
<1> QED
  BY <1>1, <1>3, <1>7, <1>8, LaterKeepsShape

LEMMA WatchStatementsKeepShape ==
    ASSUME ShapeInv, NEW s \in Sessions, EnsureCursor(s) \/ DeleteCursor(s)
    PROVE  ShapeInv'
<1> DEFINE own == Own(s, txn[s].thread)
           next == [pc |-> "commit"]
<1>1. PICK W \in {{<<"cursor", p, 0>> : p \in {own} \ threadWatches},
                  {<<"cursor-", p>> : p \in {own} \intersect threadWatches}} :
          Statement(s, next, W)
  BY DEF EnsureCursor, DeleteCursor
<1>2. UNCHANGED clock /\ txn[s].pc \in {"ensureCursor", "deleteCursor"}
  BY DEF EnsureCursor, DeleteCursor
<1>3. next \in Stages /\ next.pc = "commit"
  BY DEF Stages
<1>4. own \in Pairs
  BY <1>2, StageLocals, ConstantsAssumption DEF ShapeInv, Pairs, Own
<1>5. 0 \in 0 .. clock'
  BY <1>2 DEF ShapeInv, TypeOK
<1> HIDE DEF own
<1>6. \A w \in W : w[1] # "post" /\ WriteOK(s, w)'
  BY <1>1, <1>4, <1>5 DEF WriteOK, Pairs
<1>7. Active(s)
  BY <1>2 DEF Active
<1> HIDE DEF next
<1> QED
  BY <1>1, <1>2, <1>3, <1>6, <1>7, LaterKeepsShape

LEMMA SelectRepliesKeepsShape ==
    ASSUME ShapeInv, NEW s \in Sessions, txn[s].pc = "selectReplies", NEW w \in txn[s].todo,
           SelectReplies(s, w)
    PROVE  ShapeInv'
<1> DEFINE news == RepliesAfter(w[1][2], w[2])
           rest == txn[s].todo \ {w}
<1>1. PICK next \in {[pc |-> "selectReplies", todo |-> rest],
                     [pc |-> "updateCursor", todo |-> rest, watch |-> w[1], news |-> news]} :
          Statement(s, next, {}) /\ (next.pc = "updateCursor" => news # {})
  BY DEF SelectReplies
<1>2. UNCHANGED clock
  BY DEF SelectReplies
<1>3. txn[s].todo \in SUBSET (Pairs \X (0 .. MaxPosts))
  BY StageLocals DEF ShapeInv
<1>4. news \in SUBSET (1 .. MaxPosts) /\ news \in SUBSET (1 .. clock)
  BY RowsArePosts, ConstantsAssumption DEF RepliesAfter, ShapeInv, TypeOK
<1>5. rest \in SUBSET (Pairs \X (0 .. MaxPosts)) /\ w[1] \in Pairs
  BY <1>3
<1> HIDE DEF news, rest
<1>6. /\ next \in Stages
      /\ next.pc \in {"selectReplies", "updateCursor"}
      /\ next.pc = "updateCursor" => next.news = news
  <2>1. CASE next = [pc |-> "selectReplies", todo |-> rest]
    BY <2>1, <1>5 DEF Stages
  <2>2. CASE next = [pc |-> "updateCursor", todo |-> rest, watch |-> w[1], news |-> news]
    BY <2>2, <1>4, <1>5 DEF Stages
  <2> QED
    BY <1>1, <2>1, <2>2
<1>7. Active(s)
  BY DEF Active
<1> QED
  BY <1>1, <1>2, <1>4, <1>6, <1>7, LaterKeepsShape

\* The latest of some times is one of them.
LEMMA LatestIsMaximum ==
    ASSUME NEW n \in Nat, NEW S \in SUBSET (1 .. n), S # {}
    PROVE  LET latest == CHOOSE x \in S : \A y \in S : y <= x
           IN  latest \in S /\ \A y \in S : y <= latest
<1> DEFINE back == {k \in Nat : n - k \in S}
<1>1. back \subseteq Nat /\ back # {}
  <2>1. PICK x \in S : TRUE
    OBVIOUS
  <2>2. n - x \in Nat /\ n - (n - x) = x
    BY <2>1
  <2> QED
    BY <2>1, <2>2
<1>2. PICK k \in back : \A j \in back : ~ (<<j, k>> \in OpToRel(<, Nat))
  <2> HIDE DEF back
  <2> QED
    BY <1>1, NatLessThanWellFounded, WFMin
<1>3. \A j \in back : ~ (j < k)
  BY <1>1, <1>2 DEF OpToRel
<1>4. \A y \in S : y <= n - k
  <2> TAKE y \in S
  <2>1. n - y \in Nat /\ n - (n - y) = y
    OBVIOUS
  <2> QED
    BY <2>1, <1>3
<1>5. \E x \in S : \A y \in S : y <= x
  BY <1>4
<1> QED
  BY <1>5

LEMMA UpdateCursorKeepsShape ==
    ASSUME ShapeInv, NEW s \in Sessions, UpdateCursor(s)
    PROVE  ShapeInv'
<1> DEFINE news == txn[s].news
           latest == CHOOSE x \in news : \A y \in news : y <= x
           next == [pc |-> "selectReplies", todo |-> txn[s].todo]
<1>1. PICK p, W :
          /\ Statement(s, next, W) /\ p = txn[s].watch
          /\ W \subseteq {<<"cursor", p, latest>>, <<"returned", p, news>>}
  BY DEF UpdateCursor
<1>2. UNCHANGED clock /\ txn[s].pc = "updateCursor"
  BY DEF UpdateCursor
<1>3. txn[s].todo \in SUBSET (Pairs \X (0 .. MaxPosts)) /\ p \in Pairs
  BY <1>1, <1>2, StageLocals DEF ShapeInv
<1>4. news # {} /\ news \in SUBSET (1 .. clock) /\ clock \in Nat
  BY <1>2 DEF ShapeInv, StageOK, TypeOK
<1>5. next \in Stages /\ next.pc = "selectReplies"
  BY <1>3 DEF Stages
<1>6. PICK v, R : v = latest /\ R = news
  OBVIOUS
<1>7. v \in 0 .. clock' /\ R \in SUBSET (1 .. clock')
  <2>1. latest \in news
    BY <1>4, LatestIsMaximum
  <2> QED
    BY <1>2, <1>4, <1>6, <2>1
<1>8. \A w \in W : w \in {<<"cursor", p, v>>, <<"returned", p, R>>}
  BY <1>1, <1>6
<1> HIDE DEF news, latest, next
<1>9. \A w \in W : w[1] # "post" /\ WriteOK(s, w)'
  <2> TAKE w \in W
  <2>1. CASE w = <<"cursor", p, v>>
    <3>1. w[1] = "cursor" /\ w[2] = p /\ w[3] = v
      BY <2>1
    <3> QED
      BY <3>1, <1>3, <1>7 DEF WriteOK, Pairs
  <2>2. CASE w = <<"returned", p, R>>
    <3>1. w[1] = "returned" /\ w[2] = p /\ w[3] = R
      BY <2>2
    <3> QED
      BY <3>1, <1>3, <1>7 DEF WriteOK, Pairs
  <2> QED
    BY <1>8, <2>1, <2>2
<1>10. Active(s)
  BY <1>2 DEF Active
<1> QED
  BY <1>1, <1>2, <1>5, <1>9, <1>10, LaterKeepsShape

LEMMA MentionStatementsKeepShape ==
    ASSUME ShapeInv, NEW s \in Sessions, SelectMentions(s) \/ MarkMentions(s)
    PROVE  ShapeInv'
<1> DEFINE unseen == UnseenMentions(ActorOf[s])
           gave == {<<"gaveMention", m>> : m \in unseen}
           seen == {<<"seen", m>> : m \in unseen}
<1>1. UNCHANGED clock /\ Active(s)
  BY DEF SelectMentions, MarkMentions, Active
<1>2. ASSUME NEW pc \in {"commit", "markMentions"}, NEW W, Statement(s, [pc |-> pc], W),
             \A w \in W : w[1] = "gaveMention" \/ (w[1] = "seen" /\ w[2] \in mentions)
      PROVE  ShapeInv'
  <2> DEFINE next == [pc |-> pc]
  <2>1. next \in Stages /\ next.pc \in {"commit", "markMentions"} /\ Statement(s, next, W)
    BY <1>2 DEF Stages
  <2> HIDE DEF next
  <2>2. mentions' = mentions
    BY <2>1, StatementEffect
  <2>3. \A w \in W : w[1] # "post" /\ WriteOK(s, w)'
    BY <1>2, <2>2 DEF WriteOK
  <2> QED
    BY <1>1, <2>1, <2>3, LaterKeepsShape
<1>3. \A w \in gave : w[1] = "gaveMention"
  OBVIOUS
<1>4. \A w \in seen : w[1] = "seen" /\ w[2] \in mentions
  BY DEF UnseenMentions
<1>5. CASE SelectMentions(s)
  <2>1. PICK pc \in {"commit", "markMentions"} : Statement(s, [pc |-> pc], gave)
    BY <1>5 DEF SelectMentions
  <2> HIDE DEF gave
  <2> QED
    BY <1>2, <1>3, <2>1
<1>6. CASE MarkMentions(s)
  <2>1. Statement(s, [pc |-> "commit"], seen)
    BY <1>6 DEF MarkMentions
  <2> HIDE DEF seen
  <2> QED
    BY <1>2, <1>4, <2>1
<1> QED
  BY <1>5, <1>6

\* A transaction that is undone leaves the tables as they were.
LEMMA RollbackKeepsShape ==
    ASSUME ShapeInv, NEW s \in Sessions, Rollback(s)
    PROVE  ShapeInv'
<1>1. /\ txn' = [txn EXCEPT ![s] = Idle] /\ writes' = [writes EXCEPT ![s] = {}]
      /\ UNCHANGED <<clock, rows, watchers, threadWatches, lastReadAt, mentions, seenMentions,
                     returned>>
  BY DEF Rollback, tables
<1>2. txn \in [Sessions -> Stages] /\ DOMAIN writes = Sessions
  BY DEF ShapeInv
<1>3. /\ txn'[s] = Idle /\ writes'[s] = {}
      /\ \A o \in Sessions \ {s} : txn'[o] = txn[o] /\ writes'[o] = writes[o]
      /\ DOMAIN writes' = Sessions
  BY <1>1, <1>2
<1>4. txn' \in [Sessions -> Stages]
  <2>1. Idle \in Stages
    BY DEF Idle, Stages
  <2> QED
    BY <1>1, <1>2, <2>1
<1>5. TypeOK'
  BY <1>1, <1>3 DEF ShapeInv, TypeOK, Pairs, Post
<1>6. \A o \in Sessions : (StageOK(o) /\ OnePost(o))' /\ \A w \in writes'[o] : WriteOK(o, w)'
  <2> TAKE o \in Sessions
  <2>1. CASE o = s
    BY <2>1, <1>3 DEF Idle, StageOK, OnePost
  <2>2. CASE o # s
    <3>1. StageOK(o) /\ OnePost(o) /\ \A w \in writes[o] : WriteOK(o, w)
      BY DEF ShapeInv
    <3>2. txn'[o] = txn[o] /\ writes'[o] = writes[o]
      BY <1>3, <2>2
    <3>3. (StageOK(o) /\ OnePost(o))'
      BY <1>1, <3>1, <3>2 DEF StageOK, OnePost, Posting
    <3>4. \A w \in writes'[o] : WriteOK(o, w)'
      BY <1>1, <3>1, <3>2 DEF WriteOK, Posting, Pairs, Post
    <3> QED
      BY <3>3, <3>4
  <2> QED
    BY <2>1, <2>2
<1>7. (Backend = "sqlite" => \A q, o \in Sessions : Active(q) /\ Active(o) => q = o)'
  BY <1>3 DEF ShapeInv, Active, Idle
<1> QED
  BY <1>1, <1>3, <1>4, <1>5, <1>6, <1>7 DEF ShapeInv, Pairs

------------------------------------------------------------------------------
(* COMMIT.                                                                 *)

\* What is written of a kind, spelled out.
LEMMA WrittenMeans ==
    ASSUME NEW s, NEW kind, NEW p
    PROVE  p \in Written(s, kind) <=> \E w \in writes[s] : w[1] = kind /\ w[2] = p
  BY DEF Written

\* The pending post of s, if any, becomes the last row.
LEMMA CommitRows ==
    ASSUME ShapeInv, NEW s \in Sessions, Commit(s)
    PROVE  /\ rows' \in Seq(Post)
           /\ DOMAIN rows \subseteq DOMAIN rows'
           /\ \A i \in DOMAIN rows : rows'[i] = rows[i]
           /\ \A i \in DOMAIN rows' \ DOMAIN rows :
                 \E w \in writes[s] : w[1] = "post" /\ w[2] = rows'[i]
           /\ \A w \in writes[s] : w[1] = "post" => \E i \in DOMAIN rows' : rows'[i] = w[2]
<1>1. rows \in Seq(Post) /\ OnePost(s) /\ \A w \in writes[s] : WriteOK(s, w)
  BY DEF ShapeInv, TypeOK
<1>2. CASE Written(s, "post") = {}
  <2>1. rows' = rows
    BY <1>2 DEF Commit
  <2>2. \A w \in writes[s] : w[1] # "post"
    BY <1>2 DEF Written
  <2> QED
    BY <1>1, <2>1, <2>2
<1>3. CASE Written(s, "post") # {}
  <2> DEFINE post == CHOOSE p \in Written(s, "post") : TRUE
  <2>1. rows' = Append(rows, post)
    BY <1>3 DEF Commit
  <2>2. post \in Written(s, "post")
    BY <1>3
  <2> HIDE DEF post
  <2>3. PICK w \in writes[s] : w[1] = "post" /\ w[2] = post
    BY <2>2, WrittenMeans
  <2>4. \A x \in writes[s] : x[1] = "post" => x[2] = post
    BY <1>1, <2>3 DEF OnePost
  <2>5. post \in Post
    BY <1>1, <2>3 DEF WriteOK
  <2>6. /\ rows' \in Seq(Post) /\ Len(rows') = Len(rows) + 1
        /\ DOMAIN rows = 1 .. Len(rows) /\ DOMAIN rows' = 1 .. Len(rows')
        /\ \A i \in DOMAIN rows : rows'[i] = rows[i]
        /\ rows'[Len(rows')] = post
    BY <1>1, <2>1, <2>5
  <2>7. DOMAIN rows' = DOMAIN rows \union {Len(rows')} /\ Len(rows') \in DOMAIN rows'
    <3>1. Len(rows) \in Nat
      BY <1>1
    <3> QED
      BY <2>6, <3>1
  <2> QED
    BY <2>3, <2>4, <2>6, <2>7
<1> QED
  BY <1>2, <1>3

\* What else it does.
LEMMA CommitEffect ==
    ASSUME ShapeInv, NEW s \in Sessions, Commit(s)
    PROVE  /\ txn[s].pc = "commit" /\ clock' = clock
           /\ txn'[s] = Idle /\ writes'[s] = {}
           /\ \A o \in Sessions \ {s} : txn'[o] = txn[o] /\ writes'[o] = writes[o]
           /\ txn' \in [Sessions -> Stages] /\ DOMAIN writes' = Sessions
           /\ mentions \subseteq mentions'
           /\ \A p \in Pairs :
                 /\ p \in threadWatches' <=>
                       /\ p \in threadWatches \/ \E w \in writes[s] : w[1] = "cursor" /\ w[2] = p
                       /\ ~ \E w \in writes[s] : w[1] = "cursor-" /\ w[2] = p
                 /\ \/ /\ \E w \in writes[s] : w[1] = "cursor-" /\ w[2] = p
                       /\ lastReadAt'[p] = 0 /\ returned'[p] = {}
                    \/ /\ ~ \E w \in writes[s] : w[1] = "cursor-" /\ w[2] = p
                       /\ \/ lastReadAt'[p] = lastReadAt[p]
                             /\ ~ \E w \in writes[s] : w[1] = "cursor" /\ w[2] = p
                          \/ \E w \in writes[s] :
                                w[1] = "cursor" /\ w[2] = p /\ lastReadAt'[p] = w[3]
                       /\ \A r : r \in returned'[p] <=>
                             \/ r \in returned[p]
                             \/ \E w \in writes[s] : w[1] = "returned" /\ w[2] = p /\ r \in w[3]
<1>1. /\ txn' = [txn EXCEPT ![s] = Idle] /\ writes' = [writes EXCEPT ![s] = {}]
      /\ clock' = clock /\ txn[s].pc = "commit"
  BY DEF Commit
<1>2. txn \in [Sessions -> Stages] /\ DOMAIN writes = Sessions
  BY DEF ShapeInv
<1>3. Idle \in Stages
  BY DEF Idle, Stages
<1>4. mentions \subseteq mentions'
  BY DEF Commit
<1>5. ASSUME NEW p \in Pairs
      PROVE  p \in threadWatches' <=>
                /\ p \in threadWatches \/ \E w \in writes[s] : w[1] = "cursor" /\ w[2] = p
                /\ ~ \E w \in writes[s] : w[1] = "cursor-" /\ w[2] = p
  <2>1. threadWatches' = (threadWatches \union Written(s, "cursor")) \ Written(s, "cursor-")
    BY DEF Commit
  <2> QED
    BY <2>1, WrittenMeans
<1>6. ASSUME NEW p \in Pairs, \E w \in writes[s] : w[1] = "cursor-" /\ w[2] = p
      PROVE  lastReadAt'[p] = 0 /\ returned'[p] = {}
  <2>1. p \in Written(s, "cursor-")
    BY <1>6, WrittenMeans
  <2> QED
    BY <2>1 DEF Commit
<1>7. ASSUME NEW p \in Pairs, ~ \E w \in writes[s] : w[1] = "cursor-" /\ w[2] = p
      PROVE  /\ \/ lastReadAt'[p] = lastReadAt[p]
                   /\ ~ \E w \in writes[s] : w[1] = "cursor" /\ w[2] = p
                \/ \E w \in writes[s] : w[1] = "cursor" /\ w[2] = p /\ lastReadAt'[p] = w[3]
             /\ \A r : r \in returned'[p] <=>
                   \/ r \in returned[p]
                   \/ \E w \in writes[s] : w[1] = "returned" /\ w[2] = p /\ r \in w[3]
  <2> DEFINE cursorWrites == {w \in writes[s] : w[1] = "cursor"}
             chosen == CHOOSE w \in cursorWrites : w[2] = p
             gave == {w \in writes[s] : w[1] = "returned"}
  <2>1. p \notin Written(s, "cursor-")
    BY <1>7, WrittenMeans
  <2>2. lastReadAt'[p] = IF p \in Written(s, "cursor") THEN chosen[3] ELSE lastReadAt[p]
    BY <2>1 DEF Commit
  <2>3. returned'[p] = returned[p] \union UNION {w[3] : w \in {x \in gave : x[2] = p}}
    BY <2>1 DEF Commit
  <2>4. CASE p \in Written(s, "cursor")
    <3>1. PICK w \in cursorWrites : w[2] = p
      BY <2>4, WrittenMeans
    <3>2. chosen \in cursorWrites /\ chosen[2] = p
      BY <3>1
    <3> HIDE DEF chosen
    <3>3. \E x \in writes[s] : x[1] = "cursor" /\ x[2] = p /\ lastReadAt'[p] = x[3]
      BY <2>2, <2>4, <3>2
    <3> QED
      BY <2>3, <3>3
  <2>5. CASE p \notin Written(s, "cursor")
    BY <2>2, <2>3, <2>5, WrittenMeans
  <2> QED
    BY <2>4, <2>5
<1> QED
  BY <1>1, <1>2, <1>3, <1>4, <1>5, <1>6, <1>7

LEMMA CommitKeepsShape ==
    ASSUME ShapeInv, NEW s \in Sessions, Commit(s)
    PROVE  ShapeInv'
<1>1. /\ clock' = clock /\ clock \in 0 .. MaxPosts
      /\ txn'[s] = Idle /\ writes'[s] = {}
      /\ \A o \in Sessions \ {s} : txn'[o] = txn[o] /\ writes'[o] = writes[o]
      /\ txn' \in [Sessions -> Stages] /\ DOMAIN writes' = Sessions
      /\ mentions \subseteq mentions'
  BY CommitEffect DEF ShapeInv, TypeOK
<1>2. \A w \in writes[s] : WriteOK(s, w)
  BY DEF ShapeInv
<1>3. \A p \in Pairs : lastReadAt'[p] \in 0 .. clock
  <2> TAKE p \in Pairs
  <2>1. lastReadAt[p] \in 0 .. clock /\ 0 \in 0 .. clock
    BY DEF ShapeInv, TypeOK
  <2> QED
    BY <1>2, <2>1, CommitEffect DEF WriteOK
<1>4. lastReadAt' \in [Pairs -> 0 .. MaxPosts]
  <2>1. DOMAIN lastReadAt' = Pairs /\ lastReadAt' = [p \in Pairs |-> lastReadAt'[p]]
    BY DEF Commit
  <2>2. \A p \in Pairs : lastReadAt'[p] \in 0 .. MaxPosts
    BY <1>1, <1>3, ConstantsAssumption
  <2> QED
    BY <2>1, <2>2
<1>5. returned' \in [Pairs -> SUBSET (1 .. MaxPosts)]
  <2>1. returned' = [p \in Pairs |-> returned'[p]]
    BY DEF Commit
  <2>2. ASSUME NEW p \in Pairs PROVE returned'[p] \in SUBSET (1 .. MaxPosts)
    <3>1. returned[p] \in SUBSET (1 .. MaxPosts)
      BY DEF ShapeInv
    <3>2. \A w \in writes[s] : w[1] = "returned" => w[3] \in SUBSET (1 .. MaxPosts)
      BY <1>1, <1>2, ConstantsAssumption DEF WriteOK
    <3> QED
      BY <3>1, <3>2, CommitEffect
  <2> QED
    BY <2>1, <2>2
<1>6. watchers' \subseteq Pairs /\ threadWatches' \subseteq Pairs
  <2>1. /\ watchers' = (watchers \union Written(s, "watcher+")) \ Written(s, "watcher-")
        /\ threadWatches' = (threadWatches \union Written(s, "cursor")) \ Written(s, "cursor-")
    BY DEF Commit
  <2>2. Written(s, "watcher+") \subseteq Pairs /\ Written(s, "cursor") \subseteq Pairs
    BY <1>2 DEF Written, WriteOK
  <2> QED
    BY <2>1, <2>2 DEF ShapeInv, TypeOK
<1>7. \A m \in mentions' : (\E i \in DOMAIN rows' : rows'[i].at = m[1]) /\ m[2] \in Actors
  <2> TAKE m \in mentions'
  <2>1. CASE m \in mentions
    <3>1. PICK i \in DOMAIN rows : rows[i].at = m[1]
      BY <2>1 DEF ShapeInv, TypeOK
    <3> QED
      BY <2>1, <3>1, CommitRows DEF ShapeInv, TypeOK
  <2>2. CASE m \in Written(s, "mention")
    <3>1. PICK w \in writes[s] : w[1] = "mention" /\ w[2] = m
      BY <2>2, WrittenMeans
    <3>2. m[2] \in Actors /\ \E x \in writes[s] : x[1] = "post" /\ x[2].at = m[1]
      BY <1>2, <3>1 DEF WriteOK, Posting
    <3> QED
      BY <3>2, CommitRows
  <2> QED
    BY <2>1, <2>2 DEF Commit
<1>8. seenMentions' \subseteq mentions'
  <2>1. seenMentions' = seenMentions \union Written(s, "seen")
    BY DEF Commit
  <2>2. Written(s, "seen") \subseteq mentions
    BY <1>2 DEF Written, WriteOK
  <2> QED
    BY <1>1, <2>1, <2>2 DEF ShapeInv, TypeOK
<1>9. \A i \in DOMAIN rows' : rows'[i].at <= clock'
  <2> TAKE i \in DOMAIN rows'
  <2>1. CASE i \in DOMAIN rows
    BY <1>1, <2>1, CommitRows DEF ShapeInv
  <2>2. CASE i \notin DOMAIN rows
    BY <1>1, <1>2, <2>2, CommitRows DEF WriteOK
  <2> QED
    BY <2>1, <2>2
<1>10. TypeOK'
  <2>1. \A o \in Sessions : txn'[o].pc = "idle" => writes'[o] = {}
    BY <1>1 DEF ShapeInv, TypeOK
  <2>2. rows' \in Seq(Post)
    BY CommitRows
  <2> QED
    BY <1>1, <1>4, <1>6, <1>7, <1>8, <2>1, <2>2 DEF TypeOK, Pairs, Post
<1>11. \A o \in Sessions : (StageOK(o) /\ OnePost(o))' /\ \A w \in writes'[o] : WriteOK(o, w)'
  <2> TAKE o \in Sessions
  <2>1. CASE o = s
    BY <2>1, <1>1 DEF Idle, StageOK, OnePost
  <2>2. CASE o # s
    <3>1. StageOK(o) /\ OnePost(o) /\ \A w \in writes[o] : WriteOK(o, w)
      BY DEF ShapeInv
    <3>2. txn'[o] = txn[o] /\ writes'[o] = writes[o]
      BY <1>1, <2>2
    <3>3. (StageOK(o) /\ OnePost(o))'
      BY <1>1, <3>1, <3>2 DEF StageOK, OnePost, Posting
    <3>4. \A w \in writes'[o] : WriteOK(o, w)'
      BY <1>1, <3>1, <3>2 DEF WriteOK, Posting, Pairs, Post
    <3> QED
      BY <3>3, <3>4
  <2> QED
    BY <2>1, <2>2
<1>12. (Backend = "sqlite" => \A q, o \in Sessions : Active(q) /\ Active(o) => q = o)'
  BY <1>1 DEF ShapeInv, Active, Idle
<1>13. \A p \in Pairs : lastReadAt'[p] <= clock'
  BY <1>1, <1>3
<1> QED
  BY <1>1, <1>5, <1>9, <1>10, <1>11, <1>12, <1>13 DEF ShapeInv, Pairs

\* Every step keeps the shape.
LEMMA StepKeepsShape == ShapeInv /\ [Next]_vars => ShapeInv'
<1> SUFFICES ASSUME ShapeInv, [Next]_vars PROVE ShapeInv'
  OBVIOUS
<1>1. ASSUME NEW s \in Sessions,
             \/ \E t \in Threads, M \in Handles : CreateThread(s, t, M)
             \/ \E t \in Threads, X \in Extras, M \in Handles : BeginAddReply(s, t, X, M)
             \/ \E t \in Threads : BeginWatchThread(s, t)
             \/ \E t \in Threads : BeginUnwatchThread(s, t)
             \/ BeginCatchUp(s)
      PROVE  ShapeInv'
  BY <1>1, CreateThreadKeepsShape, BeginsKeepShape
<1>2. ASSUME NEW s \in Sessions,
             \/ InsertReply(s) \/ InsertWatchers(s) \/ UpsertCursors(s)
             \/ EnsureCursor(s) \/ DeleteCursor(s)
      PROVE  ShapeInv'
  BY <1>2, InsertReplyKeepsShape, InsertWatchersKeepsShape, UpsertCursorsKeepsShape,
     WatchStatementsKeepShape
<1>3. ASSUME NEW s \in Sessions,
             \/ txn[s].pc = "selectReplies" /\ \E w \in txn[s].todo : SelectReplies(s, w)
             \/ UpdateCursor(s) \/ SelectMentions(s) \/ MarkMentions(s)
             \/ Commit(s) \/ Rollback(s)
      PROVE  ShapeInv'
  BY <1>3, SelectRepliesKeepsShape, UpdateCursorKeepsShape, MentionStatementsKeepShape,
     CommitKeepsShape, RollbackKeepsShape
<1>4. CASE UNCHANGED vars
  BY <1>4 DEF vars, tables, ShapeInv, TypeOK, StageOK, OnePost, WriteOK, Posting, Active,
              Pairs, Post
<1> QED
  BY <1>1, <1>2, <1>3, <1>4 DEF Next

\* On either backend, however transactions overlap and wherever they are undone, the
\* committed tables are well formed: every mention belongs to a committed post, only
\* mentions are marked seen, and only an open transaction holds writes.
THEOREM TablesKeepTheirShape == Spec => []ShapeInv
  BY InitShape, StepKeepsShape, PTL DEF Spec

------------------------------------------------------------------------------
(* Cursors, statement by statement.                                        *)

LEMMA InitCursors == Init => CursorInv
  BY DEF Init, CursorInv, ReturnedBehindCursor, RowsLocked, CursorStageOK, Idle

\* A statement keeps the cursors if its writes are in order, and lock rows nobody
\* else has locked.
LEMMA StatementKeepsCursors ==
    ASSUME ShapeInv, CursorInv, NEW s \in Sessions, NEW next, NEW W, Statement(s, next, W),
           \A w \in W : CursorOK(s, w)' /\ ReturnsOK(s, w)',
           \A w \in writes[s] : ReturnsOK(s, w)',
           \A w \in W : WritesRow(w) => ~CursorLocked(s, w[2]),
           CursorStageOK(s)'
    PROVE  CursorInv'
<1>1. /\ txn'[s] = next /\ writes'[s] = writes[s] \union W
      /\ \A o \in Sessions \ {s} : txn'[o] = txn[o] /\ writes'[o] = writes[o]
      /\ UNCHANGED <<rows, watchers, threadWatches, lastReadAt, mentions, seenMentions,
                    returned, returnedMentions>>
  BY StatementEffect
<1>2. ReturnedBehindCursor' /\ (\A p \in threadWatches : Exists(p[2]))'
  BY <1>1 DEF CursorInv, ReturnedBehindCursor, Exists, Pairs
<1>3. ASSUME NEW q \in Sessions, NEW o \in Sessions, NEW w \in writes'[q], NEW x \in writes'[o],
             WritesRow(w), WritesRow(x), w[2] = x[2]
      PROVE  q = o
  <2>1. CASE w \in writes[q] /\ x \in writes[o]
    BY <1>3, <2>1 DEF CursorInv, RowsLocked
  <2>2. ASSUME NEW y \in W, WritesRow(y), NEW r \in Sessions \ {s}, NEW z \in writes[r],
               WritesRow(z)
        PROVE  y[2] # z[2]
    BY <2>2, WrittenMeans DEF CursorLocked, WritesRow
  <2>3. CASE w \notin writes[q] \/ x \notin writes[o]
    BY <1>1, <1>3, <2>2, <2>3
  <2> QED
    BY <2>1, <2>3
<1>4. RowsLocked'
  BY <1>3 DEF RowsLocked, WritesRow
<1>5. ASSUME NEW w \in writes[s] PROVE CursorOK(s, w)'
  <2>1. CursorOK(s, w) /\ writes[s] \subseteq writes'[s]
    BY <1>1 DEF CursorInv
  <2> QED
    BY <1>1, <2>1 DEF CursorOK, Exists, WritesRow
<1>6. ASSUME NEW o \in Sessions
      PROVE  CursorStageOK(o)' /\ \A w \in writes'[o] : CursorOK(o, w)' /\ ReturnsOK(o, w)'
  <2>1. CASE o = s
    BY <1>1, <1>5, <2>1
  <2>2. CASE o # s
    <3>1. txn'[o] = txn[o] /\ writes'[o] = writes[o]
      BY <1>1, <2>2
    <3>2. CursorStageOK(o) /\ \A w \in writes[o] : CursorOK(o, w) /\ ReturnsOK(o, w)
      BY DEF CursorInv
    <3>3. CursorStageOK(o)'
      BY <1>1, <3>1, <3>2 DEF CursorStageOK, Unvisited, Own, Exists
    <3>4. \A w \in writes'[o] : CursorOK(o, w)' /\ ReturnsOK(o, w)'
      BY <1>1, <3>1, <3>2 DEF CursorOK, ReturnsOK, Exists, WritesRow
    <3> QED
      BY <3>3, <3>4
  <2> QED
    BY <2>1, <2>2
<1> QED
  BY <1>2, <1>4, <1>6 DEF CursorInv

Returning == {"selectReplies", "updateCursor", "markMentions", "commit"}

\* Replies are pending for a catch_up only.
LEMMA NothingReturned ==
    ASSUME ShapeInv, CursorInv, NEW s \in Sessions, txn[s].pc \notin Returning \/ ~Active(s),
           NEW w \in writes[s]
    PROVE  w[1] # "returned"
  BY DEF CursorInv, ReturnsOK, Returning, Active

\* A statement that writes no cursor has only its next stage to answer for.
LEMMA QuietKeepsCursors ==
    ASSUME ShapeInv, CursorInv, NEW s \in Sessions, NEW next, NEW W, Statement(s, next, W),
           \A w \in W : ~WritesRow(w) /\ w[1] # "returned",
           txn[s].pc \notin Returning \/ next.pc \in Returning,
           CursorStageOK(s)'
    PROVE  CursorInv'
<1>1. /\ txn'[s] = next /\ writes'[s] = writes[s] \union W
      /\ UNCHANGED <<rows, threadWatches, lastReadAt>>
  BY StatementEffect
<1>2. \A w \in W : CursorOK(s, w)' /\ ReturnsOK(s, w)'
  BY DEF CursorOK, ReturnsOK, WritesRow
<1>3. \A w \in writes[s] : ReturnsOK(s, w)'
  <2> TAKE w \in writes[s]
  <2>1. SUFFICES ASSUME w[1] = "returned" PROVE ReturnsOK(s, w)'
    BY DEF ReturnsOK
  <2>2. ReturnsOK(s, w) /\ txn[s].pc \in Returning
    BY <2>1, NothingReturned DEF CursorInv
  <2>3. next.pc \in Returning
    BY <2>2
  <2> QED
    BY <1>1, <2>1, <2>2, <2>3 DEF ReturnsOK, WritesRow, Returning
<1> QED
  BY <1>2, <1>3, StatementKeepsCursors

LEMMA BeginsKeepCursors ==
    ASSUME ShapeInv, CursorInv, NEW s \in Sessions,
           \/ \E t \in Threads, X \in Extras, M \in Handles : BeginAddReply(s, t, X, M)
           \/ \E t \in Threads : BeginWatchThread(s, t)
           \/ \E t \in Threads : BeginUnwatchThread(s, t)
    PROVE  CursorInv'
<1>1. PICK t \in Threads :
          \/ \E X \in Extras, M \in Handles : BeginAddReply(s, t, X, M)
          \/ BeginWatchThread(s, t)
          \/ BeginUnwatchThread(s, t)
  OBVIOUS
<1>2. txn[s].pc = "idle"
  BY <1>1 DEF BeginAddReply, BeginWatchThread, BeginUnwatchThread, CanBegin
<1>3. ASSUME NEW next, NEW W, Statement(s, next, W),
             \/ next.pc = "deleteCursor"
             \/ next.pc \in {"insertReply", "ensureCursor"} /\ next.thread = t /\ Exists(t),
             \A w \in W : w[1] \in {"watcher+", "watcher-"}
      PROVE  CursorInv'
  <2>1. txn'[s] = next /\ rows' = rows
    BY <1>3, StatementEffect
  <2>2. CursorStageOK(s)'
    BY <1>3, <2>1 DEF CursorStageOK, Exists
  <2> QED
    BY <1>2, <1>3, <2>2, QuietKeepsCursors DEF Returning, WritesRow
<1>4. CASE \E X \in Extras, M \in Handles : BeginAddReply(s, t, X, M)
  <2>1. PICK X \in Extras, M \in Handles : BeginAddReply(s, t, X, M)
    BY <1>4
  <2> DEFINE next == [pc |-> "insertReply", thread |-> t, extra |-> X, mentioned |-> M]
  <2>2. Statement(s, next, {}) /\ Exists(t)
    BY <2>1 DEF BeginAddReply
  <2>3. next.pc = "insertReply" /\ next.thread = t
    OBVIOUS
  <2> HIDE DEF next
  <2> QED
    BY <1>3, <2>2, <2>3
<1>5. CASE BeginWatchThread(s, t)
  <2> DEFINE next == [pc |-> "ensureCursor", thread |-> t]
             W == {<<"watcher+", p>> : p \in {Own(s, t)} \ watchers}
  <2>1. Statement(s, next, W) /\ Exists(t)
    BY <1>5 DEF BeginWatchThread
  <2>2. next.pc = "ensureCursor" /\ next.thread = t /\ \A w \in W : w[1] = "watcher+"
    OBVIOUS
  <2> HIDE DEF next, W
  <2> QED
    BY <1>3, <2>1, <2>2
<1>6. CASE BeginUnwatchThread(s, t)
  <2> DEFINE next == [pc |-> "deleteCursor", thread |-> t]
             W == {<<"watcher-", p>> : p \in {Own(s, t)} \intersect watchers}
  <2>1. Statement(s, next, W)
    BY <1>6 DEF BeginUnwatchThread
  <2>2. next.pc = "deleteCursor" /\ \A w \in W : w[1] = "watcher-"
    OBVIOUS
  <2> HIDE DEF next, W
  <2> QED
    BY <1>3, <2>1, <2>2
<1> QED
  BY <1>1, <1>4, <1>5, <1>6

\* The reply is stamped later than everything its author has read.
LEMMA ReplyKeepsCursors ==
    ASSUME ShapeInv, CursorInv, NEW s \in Sessions, InsertReply(s) \/ InsertWatchers(s)
    PROVE  CursorInv'
<1>1. ASSUME NEW t \in Threads, NEW next, NEW W, Statement(s, next, W), t = txn[s].thread,
             txn[s].pc \in {"insertReply", "insertWatchers"},
             next.pc \in {"insertWatchers", "writeCursors"}, next.thread = t,
             lastReadAt[Own(s, t)] <= next.at,
             \A w \in W : w[1] \in {"post", "watcher+"}
      PROVE  CursorInv'
  <2>1. txn'[s] = next /\ rows' = rows /\ lastReadAt' = lastReadAt
    BY <1>1, StatementEffect
  <2>2. Exists(t)
    BY <1>1 DEF CursorInv, CursorStageOK
  <2>3. CursorStageOK(s)'
    BY <1>1, <2>1, <2>2 DEF CursorStageOK, Exists, Own
  <2> QED
    BY <1>1, <2>3, QuietKeepsCursors DEF Returning, WritesRow
<1>2. txn[s].pc \in {"insertReply", "insertWatchers"} /\ txn[s] \in Stages
  BY DEF InsertReply, InsertWatchers, ShapeInv
<1>3. PICK t \in Threads : t = txn[s].thread
  BY <1>2, StageLocals
<1>4. Own(s, t) \in Pairs
  BY ConstantsAssumption DEF Own, Pairs
<1>5. CASE InsertReply(s)
  <2> DEFINE next == [pc |-> "insertWatchers", thread |-> txn[s].thread, at |-> clock',
                      extra |-> txn[s].extra, mentioned |-> txn[s].mentioned]
             W == {<<"post", [at |-> clock', thread |-> txn[s].thread, author |-> ActorOf[s],
                              opens |-> FALSE]>>}
  <2>1. Statement(s, next, W) /\ clock' = clock + 1
    BY <1>5 DEF InsertReply
  <2>2. lastReadAt[Own(s, t)] <= clock'
    BY <1>4, <2>1 DEF ShapeInv, TypeOK
  <2>3. next.pc = "insertWatchers" /\ next.thread = t /\ next.at = clock'
        /\ \A w \in W : w[1] = "post"
    BY <1>3
  <2> HIDE DEF next, W
  <2> QED
    BY <1>1, <1>2, <1>3, <2>1, <2>2, <2>3
<1>6. CASE InsertWatchers(s)
  <2> DEFINE next == [txn[s] EXCEPT !.pc = "writeCursors"]
             keys == (txn[s].extra \union {ActorOf[s]}) \X {txn[s].thread}
             W == {<<"watcher+", p>> : p \in keys \ watchers}
  <2>1. Statement(s, next, W) /\ txn[s].pc = "insertWatchers"
    BY <1>6 DEF InsertWatchers
  <2>2. txn[s] \in [pc : {"insertWatchers", "writeCursors"}, thread : Threads,
                    at : 1 .. MaxPosts, extra : SUBSET Actors, mentioned : SUBSET Actors]
    BY <1>2, <2>1, StageLocals
  <2>3. next.pc = "writeCursors" /\ next.thread = t /\ next.at = txn[s].at
        /\ \A w \in W : w[1] = "watcher+"
    BY <1>3, <2>2
  <2>4. lastReadAt[Own(s, t)] <= next.at
    BY <1>3, <2>1, <2>3 DEF CursorInv, CursorStageOK
  <2> HIDE DEF next, W
  <2> QED
    BY <1>1, <1>2, <1>3, <2>1, <2>3, <2>4
<1> QED
  BY <1>5, <1>6

\* catch_up sees its actor's watches as they are.
LEMMA BeginCatchUpKeepsCursors ==
    ASSUME ShapeInv, CursorInv, NEW s \in Sessions, BeginCatchUp(s)
    PROVE  CursorInv'
<1> DEFINE todo == {<<p, lastReadAt[p]>> : p \in {q \in threadWatches : q[1] = ActorOf[s]}}
           next == [pc |-> "selectReplies", todo |-> todo]
<1>1. Statement(s, next, {}) /\ CanBegin(s, "CatchUp")
  BY DEF BeginCatchUp
<1>2. txn[s].pc = "idle" /\ writes[s] = {}
  BY <1>1 DEF CanBegin, ShapeInv, TypeOK
<1>3. next.pc = "selectReplies" /\ next.todo = todo
  OBVIOUS
<1>4. \A w \in todo : w[1] \in threadWatches /\ w[1][1] = ActorOf[s] /\ w[2] = lastReadAt[w[1]]
  OBVIOUS
<1> HIDE DEF next, todo
<1>5. txn'[s] = next /\ writes'[s] = {} /\ UNCHANGED <<rows, threadWatches, lastReadAt>>
  BY <1>1, <1>2, StatementEffect
<1>6. CursorStageOK(s)'
  BY <1>3, <1>4, <1>5 DEF CursorStageOK, Unvisited
<1> QED
  BY <1>1, <1>2, <1>6, QuietKeepsCursors DEF Returning

LEMMA SelectRepliesKeepsCursors ==
    ASSUME ShapeInv, CursorInv, NEW s \in Sessions, txn[s].pc = "selectReplies",
           NEW w \in txn[s].todo, SelectReplies(s, w)
    PROVE  CursorInv'
<1> DEFINE news == RepliesAfter(w[1][2], w[2])
           rest == txn[s].todo \ {w}
<1>1. PICK next \in {[pc |-> "selectReplies", todo |-> rest],
                     [pc |-> "updateCursor", todo |-> rest, watch |-> w[1], news |-> news]} :
          Statement(s, next, {})
  BY DEF SelectReplies
<1>2. txn[s].todo \in SUBSET (Pairs \X (0 .. MaxPosts))
  BY StageLocals DEF ShapeInv
<1>3. \A v \in txn[s].todo : Unvisited(s, v[1]) /\ v[2] = lastReadAt[v[1]]
  BY DEF CursorInv, CursorStageOK
<1>4. \A v \in rest : v[1] # w[1]
  BY <1>2, <1>3
<1>5. \A r \in news : lastReadAt[w[1]] < r
  <2>1. \A r \in news : r > w[2] /\ r \in Nat
    BY RowsArePosts, ConstantsAssumption DEF RepliesAfter
  <2>2. w[2] = lastReadAt[w[1]] /\ w[2] \in Nat
    BY <1>2, <1>3
  <2> QED
    BY <2>1, <2>2
<1>6. txn'[s] = next /\ writes'[s] = writes[s] /\ UNCHANGED <<rows, threadWatches, lastReadAt>>
  <2>1. /\ txn'[s] = next /\ writes'[s] = writes[s] \union {}
        /\ UNCHANGED <<rows, threadWatches, lastReadAt>>
    BY <1>1, StatementEffect
  <2> QED
    BY <2>1
<1>7. PICK R : R = rest
  OBVIOUS
<1>8. PICK N : N = news
  OBVIOUS
<1>9. next \in {[pc |-> "selectReplies", todo |-> R],
                [pc |-> "updateCursor", todo |-> R, watch |-> w[1], news |-> N]}
  BY <1>1, <1>7, <1>8
<1>10. /\ \A v \in R : Unvisited(s, v[1]) /\ v[2] = lastReadAt[v[1]] /\ v[1] # w[1]
       /\ Unvisited(s, w[1]) /\ \A r \in N : lastReadAt[w[1]] < r
  BY <1>3, <1>4, <1>5, <1>7, <1>8
<1> HIDE DEF rest, news
<1>11. CursorStageOK(s)'
  <2>1. CASE next = [pc |-> "selectReplies", todo |-> R]
    BY <1>6, <1>10, <2>1 DEF CursorStageOK, Unvisited
  <2>2. CASE next = [pc |-> "updateCursor", todo |-> R, watch |-> w[1], news |-> N]
    BY <1>6, <1>10, <2>2 DEF CursorStageOK, Unvisited
  <2> QED
    BY <1>9, <2>1, <2>2
<1>12. next.pc \in Returning
  BY <1>9 DEF Returning
<1> QED
  BY <1>1, <1>11, <1>12, QuietKeepsCursors

LEMMA MentionStatementsKeepCursors ==
    ASSUME ShapeInv, CursorInv, NEW s \in Sessions, SelectMentions(s) \/ MarkMentions(s)
    PROVE  CursorInv'
<1> DEFINE unseen == UnseenMentions(ActorOf[s])
           gave == {<<"gaveMention", m>> : m \in unseen}
           seen == {<<"seen", m>> : m \in unseen}
<1>1. ASSUME NEW pc \in {"commit", "markMentions"}, NEW W, Statement(s, [pc |-> pc], W),
             \A w \in W : w[1] \in {"gaveMention", "seen"}
      PROVE  CursorInv'
  <2> DEFINE next == [pc |-> pc]
  <2>1. next.pc \in {"commit", "markMentions"} /\ Statement(s, next, W)
    BY <1>1
  <2> HIDE DEF next
  <2>2. txn'[s] = next
    BY <2>1, StatementEffect
  <2>3. CursorStageOK(s)'
    BY <2>1, <2>2 DEF CursorStageOK
  <2> QED
    BY <1>1, <2>1, <2>3, QuietKeepsCursors DEF Returning, WritesRow
<1>2. /\ \A w \in gave : w[1] \in {"gaveMention", "seen"}
      /\ \A w \in seen : w[1] \in {"gaveMention", "seen"}
  OBVIOUS
<1>3. CASE SelectMentions(s)
  <2>1. PICK pc \in {"commit", "markMentions"} : Statement(s, [pc |-> pc], gave)
    BY <1>3 DEF SelectMentions
  <2> HIDE DEF gave
  <2> QED
    BY <1>1, <1>2, <2>1
<1>4. CASE MarkMentions(s)
  <2>1. Statement(s, [pc |-> "commit"], seen)
    BY <1>4 DEF MarkMentions
  <2> HIDE DEF seen
  <2> QED
    BY <1>1, <1>2, <2>1
<1> QED
  BY <1>3, <1>4

\* The last statement of a call that writes rows: what it may write.
LEMMA RowsKeepCursors ==
    ASSUME ShapeInv, CursorInv, NEW s \in Sessions, NEW W, Statement(s, [pc |-> "commit"], W),
           txn[s].pc \notin Returning,
           \A w \in W :
              /\ w[1] # "returned"
              /\ w[1] = "cursor-" => w[2][1] = ActorOf[s]
              /\ w[1] = "cursor" => w[3] = 0 \/ w[2][1] = ActorOf[s]
              /\ w[1] = "cursor" /\ w[2] \in threadWatches =>
                    w[2][1] = ActorOf[s] /\ lastReadAt[w[2]] <= w[3]
              /\ WritesRow(w) =>
                    /\ ~CursorLocked(s, w[2])
                    /\ Exists(w[2][2]) \/ \E x \in W : x[1] = "post" /\ x[2].thread = w[2][2]
    PROVE  CursorInv'
<1> DEFINE next == [pc |-> "commit"]
<1>1. Statement(s, next, W) /\ next.pc = "commit"
  OBVIOUS
<1> HIDE DEF next
<1>2. /\ txn'[s] = next /\ writes'[s] = writes[s] \union W
      /\ UNCHANGED <<rows, threadWatches, lastReadAt>>
  BY <1>1, StatementEffect
<1>3. \A w \in W : CursorOK(s, w)' /\ ReturnsOK(s, w)'
  BY <1>2 DEF CursorOK, ReturnsOK, WritesRow, Exists
<1>4. \A w \in writes[s] : ReturnsOK(s, w)'
  BY NothingReturned DEF ReturnsOK
<1>5. CursorStageOK(s)'
  BY <1>1, <1>2 DEF CursorStageOK
<1> QED
  BY <1>1, <1>3, <1>4, <1>5, StatementKeepsCursors

\* Nobody else has a row of a thread that does not exist.
LEMMA CreateThreadKeepsCursors ==
    ASSUME ShapeInv, CursorInv, NEW s \in Sessions, NEW t \in Threads, NEW M \in Handles,
           CreateThread(s, t, M)
    PROVE  CursorInv'
<1> DEFINE a == ActorOf[s]
           post == [at |-> clock', thread |-> t, author |-> a, opens |-> TRUE]
           W == {<<"post", post>>, <<"watcher+", <<a, t>>>>, <<"cursor", <<a, t>>, clock'>>}
                   \union MentionRows(clock', a, M)
<1>1. /\ Statement(s, [pc |-> "commit"], W) /\ clock' = clock + 1
      /\ txn[s].pc = "idle" /\ ~Exists(t)
      /\ \A o \in Sessions : \A p \in Written(o, "post") : p.thread # t
  BY DEF CreateThread, CanBegin
<1>2. ~CursorLocked(s, <<a, t>>)
  <2> SUFFICES ASSUME CursorLocked(s, <<a, t>>) PROVE FALSE
    OBVIOUS
  <2>1. PICK o \in Sessions \ {s} : \E w \in writes[o] : WritesRow(w) /\ w[2] = <<a, t>>
    BY WrittenMeans DEF CursorLocked, WritesRow
  <2>2. PICK w \in writes[o] : WritesRow(w) /\ w[2] = <<a, t>>
    BY <2>1
  <2>3. Exists(t) \/ \E x \in writes[o] : x[1] = "post" /\ x[2].thread = t
    BY <2>2 DEF CursorInv, CursorOK
  <2> QED
    BY <1>1, <2>3, WrittenMeans
<1>3. <<a, t>> \in Pairs /\ lastReadAt[<<a, t>>] <= clock'
  <2>1. <<a, t>> \in Pairs
    BY ConstantsAssumption DEF Pairs
  <2> QED
    BY <1>1, <2>1 DEF ShapeInv, TypeOK
<1>4. <<"post", post>> \in W /\ <<"post", post>>[1] = "post" /\ <<"post", post>>[2].thread = t
  OBVIOUS
<1> HIDE DEF post
<1>5. ASSUME NEW w \in W
      PROVE  /\ w[1] # "returned" /\ w[1] # "cursor-"
             /\ WritesRow(w) => w[1] = "cursor" /\ w[2] = <<a, t>> /\ w[3] = clock'
  BY DEF MentionRows, WritesRow
<1> HIDE DEF W
<1>6. \A w \in W :
          /\ w[1] # "returned"
          /\ w[1] = "cursor-" => w[2][1] = ActorOf[s]
          /\ w[1] = "cursor" => w[3] = 0 \/ w[2][1] = ActorOf[s]
          /\ w[1] = "cursor" /\ w[2] \in threadWatches =>
                w[2][1] = ActorOf[s] /\ lastReadAt[w[2]] <= w[3]
          /\ WritesRow(w) =>
                /\ ~CursorLocked(s, w[2])
                /\ Exists(w[2][2]) \/ \E x \in W : x[1] = "post" /\ x[2].thread = w[2][2]
  BY <1>2, <1>3, <1>4, <1>5 DEF WritesRow
<1>7. txn[s].pc \notin Returning
  BY <1>1 DEF Returning
<1> QED
  BY <1>1, <1>6, <1>7, RowsKeepCursors

LEMMA UpsertCursorsKeepsCursors ==
    ASSUME ShapeInv, CursorInv, NEW s \in Sessions, UpsertCursors(s)
    PROVE  CursorInv'
<1> DEFINE t == txn[s].thread
           own == Own(s, t)
           extras == (txn[s].extra \X {t}) \ {own}
           at == txn[s].at
           news == MentionRows(at, ActorOf[s], txn[s].mentioned)
           W == {<<"cursor", own, at>>} \union {<<"cursor", p, 0>> : p \in extras \ threadWatches}
                \union news
<1>1. /\ Statement(s, [pc |-> "commit"], W) /\ txn[s].pc = "writeCursors"
      /\ \A p \in extras \union {own} : ~CursorLocked(s, p)
  BY DEF UpsertCursors
<1>2. own = <<ActorOf[s], t>> /\ \A p \in extras : p[2] = t
  BY DEF Own
<1>3. Exists(t) /\ lastReadAt[own] <= at
  BY <1>1 DEF CursorInv, CursorStageOK
<1>4. \A w \in news : w[1] = "mention"
  BY DEF MentionRows
<1> HIDE DEF own, extras, at, news, t
<1>5. \A w \in W :
          /\ w[1] # "returned"
          /\ w[1] = "cursor-" => w[2][1] = ActorOf[s]
          /\ w[1] = "cursor" => w[3] = 0 \/ w[2][1] = ActorOf[s]
          /\ w[1] = "cursor" /\ w[2] \in threadWatches =>
                w[2][1] = ActorOf[s] /\ lastReadAt[w[2]] <= w[3]
          /\ WritesRow(w) =>
                /\ ~CursorLocked(s, w[2])
                /\ Exists(w[2][2]) \/ \E x \in W : x[1] = "post" /\ x[2].thread = w[2][2]
  <2> TAKE w \in W
  <2>1. CASE w = <<"cursor", own, at>>
    <3>1. w[1] = "cursor" /\ w[2] = own /\ w[3] = at /\ own[1] = ActorOf[s] /\ own[2] = t
      BY <1>2, <2>1
    <3> QED
      BY <1>1, <1>3, <3>1
  <2>2. CASE w \in {<<"cursor", p, 0>> : p \in extras \ threadWatches}
    <3>1. PICK p \in extras \ threadWatches : w[1] = "cursor" /\ w[2] = p /\ w[3] = 0
      BY <2>2
    <3> QED
      BY <1>1, <1>2, <1>3, <3>1
  <2>3. CASE w \in news
    BY <1>4, <2>3 DEF WritesRow
  <2> QED
    BY <2>1, <2>2, <2>3
<1> HIDE DEF W
<1>6. txn[s].pc \notin Returning
  BY <1>1 DEF Returning
<1> QED
  BY <1>1, <1>5, <1>6, RowsKeepCursors

LEMMA WatchStatementsKeepCursors ==
    ASSUME ShapeInv, CursorInv, NEW s \in Sessions, EnsureCursor(s) \/ DeleteCursor(s)
    PROVE  CursorInv'
<1> DEFINE own == Own(s, txn[s].thread)
<1>1. own[1] = ActorOf[s] /\ own[2] = txn[s].thread
  BY DEF Own
<1>2. txn[s].pc \in {"ensureCursor", "deleteCursor"}
  BY DEF EnsureCursor, DeleteCursor
<1>3. txn[s].pc \notin Returning
  BY <1>2 DEF Returning
<1>4. CASE EnsureCursor(s)
  <2> DEFINE W == {<<"cursor", p, 0>> : p \in {own} \ threadWatches}
  <2>1. /\ Statement(s, [pc |-> "commit"], W) /\ ~CursorLocked(s, own)
        /\ txn[s].pc = "ensureCursor"
    BY <1>4 DEF EnsureCursor
  <2>2. Exists(own[2])
    BY <1>1, <2>1 DEF CursorInv, CursorStageOK
  <2> HIDE DEF own
  <2>3. \A w \in W : w[1] = "cursor" /\ w[2] = own /\ w[3] = 0 /\ w[2] \notin threadWatches
    OBVIOUS
  <2> HIDE DEF W
  <2> QED
    BY <1>3, <2>1, <2>2, <2>3, RowsKeepCursors
<1>5. CASE DeleteCursor(s)
  <2> DEFINE W == {<<"cursor-", p>> : p \in {own} \intersect threadWatches}
  <2>1. /\ Statement(s, [pc |-> "commit"], W)
        /\ own \in threadWatches => ~CursorLocked(s, own)
    BY <1>5 DEF DeleteCursor
  <2>2. own \in threadWatches => Exists(own[2])
    BY DEF CursorInv
  <2> HIDE DEF own
  <2>3. \A w \in W : w[1] = "cursor-" /\ w[2] = own /\ w[2] \in threadWatches
    OBVIOUS
  <2> HIDE DEF W
  <2> QED
    BY <1>1, <1>3, <2>1, <2>2, <2>3, RowsKeepCursors
<1> QED
  BY <1>4, <1>5

\* catch_up moves a cursor to the latest of what it is about to return.
LEMMA UpdateCursorKeepsCursors ==
    ASSUME ShapeInv, CursorInv, NEW s \in Sessions, UpdateCursor(s)
    PROVE  CursorInv'
<1> DEFINE news == txn[s].news
           latest == CHOOSE x \in news : \A y \in news : y <= x
           next == [pc |-> "selectReplies", todo |-> txn[s].todo]
<1>1. PICK p, W :
          /\ Statement(s, next, W) /\ p = txn[s].watch /\ ~CursorLocked(s, p)
          /\ W = IF p \in threadWatches
                 THEN {<<"cursor", p, latest>>, <<"returned", p, news>>}
                 ELSE {}
  BY DEF UpdateCursor
<1>2. txn[s].pc = "updateCursor"
  BY DEF UpdateCursor
<1>3. /\ Unvisited(s, p) /\ \A r \in news : lastReadAt[p] < r
      /\ \A w \in txn[s].todo : Unvisited(s, w[1]) /\ w[2] = lastReadAt[w[1]] /\ w[1] # p
  BY <1>1, <1>2 DEF CursorInv, CursorStageOK
<1>4. news # {} /\ news \in SUBSET (1 .. clock) /\ clock \in Nat /\ p \in Pairs
  BY <1>1, <1>2, StageLocals DEF ShapeInv, StageOK, TypeOK
<1>5. PICK v, R, T : v = latest /\ R = news /\ T = txn[s].todo
  OBVIOUS
<1>6. v \in R /\ \A y \in R : y <= v
  BY <1>4, <1>5, LatestIsMaximum
<1>7. W = {<<"cursor", p, v>>, <<"returned", p, R>>}
  BY <1>1, <1>3, <1>5 DEF Unvisited
<1>8. next.pc = "selectReplies" /\ next.todo = T
  BY <1>5
<1>9. lastReadAt[p] \in Nat /\ \A y \in R : y \in Nat /\ lastReadAt[p] < y
  BY <1>3, <1>4, <1>5 DEF ShapeInv, TypeOK
<1>10. \A w \in T : Unvisited(s, w[1]) /\ w[2] = lastReadAt[w[1]] /\ w[1] # p
  BY <1>3, <1>5
<1> HIDE DEF news, latest, next
<1>11. /\ txn'[s] = next /\ writes'[s] = writes[s] \union W
       /\ UNCHANGED <<rows, threadWatches, lastReadAt>>
  BY <1>1, StatementEffect
<1>12. /\ <<"cursor", p, v>> \in writes'[s]
       /\ \A w \in W : w = <<"cursor", p, v>> \/ w = <<"returned", p, R>>
  BY <1>7, <1>11
<1>13. CursorStageOK(s)'
  <2>1. \A w \in W : w[1] = "cursor" => w[2] = p
    BY <1>12
  <2>2. \A w \in T : Unvisited(s, w[1])'
    BY <1>10, <1>11, <2>1 DEF Unvisited
  <2> QED
    BY <1>8, <1>10, <1>11, <2>2 DEF CursorStageOK, Unvisited
<1>14. \A x \in writes'[s] : x[1] = "cursor" /\ x[2] = p => x[3] = v
  BY <1>3, <1>11, <1>12 DEF Unvisited
<1>15. \A w \in W : CursorOK(s, w)' /\ ReturnsOK(s, w)'
  <2> TAKE w \in W
  <2>1. CASE w = <<"cursor", p, v>>
    <3>1. w[1] = "cursor" /\ w[2] = p /\ w[3] = v
      BY <2>1
    <3>2. lastReadAt[p] <= v /\ p[1] = ActorOf[s] /\ Exists(p[2])
      BY <1>3, <1>6, <1>9 DEF Unvisited, CursorInv
    <3> QED
      BY <1>11, <3>1, <3>2 DEF CursorOK, ReturnsOK, WritesRow, Exists
  <2>2. CASE w = <<"returned", p, R>>
    <3>1. w[1] = "returned" /\ w[2] = p /\ w[3] = R
      BY <2>2
    <3>2. \E x \in writes'[s] : x[1] = "cursor" /\ x[2] = p
      <4>1. <<"cursor", p, v>>[1] = "cursor" /\ <<"cursor", p, v>>[2] = p
        OBVIOUS
      <4> QED
        BY <1>12, <4>1
    <3> QED
      BY <1>6, <1>8, <1>11, <1>14, <3>1, <3>2 DEF CursorOK, ReturnsOK, WritesRow
  <2> QED
    BY <1>12, <2>1, <2>2
<1>16. \A w \in writes[s] : ReturnsOK(s, w)'
  <2> TAKE w \in writes[s]
  <2> SUFFICES ASSUME w[1] = "returned" PROVE ReturnsOK(s, w)'
    BY DEF ReturnsOK
  <2>1. /\ \E x \in writes[s] : x[1] = "cursor" /\ x[2] = w[2]
        /\ \A x \in writes[s] : x[1] = "cursor" /\ x[2] = w[2] => \A r \in w[3] : r <= x[3]
    BY DEF CursorInv, ReturnsOK
  <2>2. w[2] # p
    BY <1>3, <2>1 DEF Unvisited
  <2>3. \A x \in W : x[1] = "cursor" => x[2] = p
    BY <1>12
  <2> QED
    BY <1>8, <1>11, <2>1, <2>2, <2>3 DEF ReturnsOK
<1>17. \A w \in W : WritesRow(w) => ~CursorLocked(s, w[2])
  <2>1. \A w \in W : w[2] = p
    BY <1>12
  <2> QED
    BY <1>1, <2>1
<1> QED
  BY <1>1, <1>13, <1>15, <1>16, <1>17, StatementKeepsCursors

LEMMA RollbackKeepsCursors ==
    ASSUME ShapeInv, CursorInv, NEW s \in Sessions, Rollback(s)
    PROVE  CursorInv'
<1>1. /\ txn'[s] = Idle /\ writes'[s] = {}
      /\ \A o \in Sessions \ {s} : txn'[o] = txn[o] /\ writes'[o] = writes[o]
      /\ UNCHANGED <<rows, threadWatches, lastReadAt, returned>>
  BY DEF Rollback, tables, ShapeInv
<1>2. ReturnedBehindCursor' /\ (\A p \in threadWatches : Exists(p[2]))'
  BY <1>1 DEF CursorInv, ReturnedBehindCursor, Exists, Pairs
<1>3. RowsLocked'
  BY <1>1 DEF CursorInv, RowsLocked, WritesRow
<1>4. ASSUME NEW o \in Sessions
      PROVE  CursorStageOK(o)' /\ \A w \in writes'[o] : CursorOK(o, w)' /\ ReturnsOK(o, w)'
  <2>1. CASE o = s
    BY <1>1, <2>1 DEF Idle, CursorStageOK
  <2>2. CASE o # s
    <3>1. /\ txn'[o] = txn[o] /\ writes'[o] = writes[o] /\ CursorStageOK(o)
          /\ \A w \in writes[o] : CursorOK(o, w) /\ ReturnsOK(o, w)
      BY <1>1, <2>2 DEF CursorInv
    <3>2. CursorStageOK(o)'
      BY <1>1, <3>1 DEF CursorStageOK, Unvisited, Own, Exists
    <3>3. \A w \in writes'[o] : CursorOK(o, w)' /\ ReturnsOK(o, w)'
      BY <1>1, <3>1 DEF CursorOK, ReturnsOK, Exists, WritesRow
    <3> QED
      BY <3>2, <3>3
  <2> QED
    BY <2>1, <2>2
<1> QED
  BY <1>2, <1>3, <1>4 DEF CursorInv

\* What a commit does to a row of an actor whose call it is not: nothing, if the
\* actor has the row, and at most open it at zero if not.
LEMMA CommitElsewhere ==
    ASSUME ShapeInv, CursorInv, NEW s \in Sessions, Commit(s), NEW p \in Pairs,
           p[1] # ActorOf[s]
    PROVE  /\ p \in threadWatches => p \in threadWatches' /\ lastReadAt'[p] = lastReadAt[p]
           /\ lastReadAt'[p] = lastReadAt[p] \/ lastReadAt'[p] = 0
<1>1. \A w \in writes[s] : CursorOK(s, w)
  BY DEF CursorInv
<1>2. ~ \E w \in writes[s] : w[1] = "cursor-" /\ w[2] = p
  BY <1>1 DEF CursorOK
<1>3. \A w \in writes[s] : w[1] = "cursor" /\ w[2] = p => w[3] = 0 /\ p \notin threadWatches
  BY <1>1 DEF CursorOK
<1> QED
  BY <1>2, <1>3, CommitEffect

\* A commit keeps a cursor that stays or moves it forward.
LEMMA CommitMovesOn ==
    ASSUME ShapeInv, CursorInv, NEW s \in Sessions, Commit(s), NEW p \in Pairs,
           p \in threadWatches, p \in threadWatches'
    PROVE  lastReadAt[p] <= lastReadAt'[p]
<1>1. \A w \in writes[s] : CursorOK(s, w)
  BY DEF CursorInv
<1>2. ~ \E w \in writes[s] : w[1] = "cursor-" /\ w[2] = p
  BY CommitEffect
<1>3. \A w \in writes[s] : w[1] = "cursor" /\ w[2] = p => lastReadAt[p] <= w[3]
  BY <1>1 DEF CursorOK
<1>4. lastReadAt[p] <= lastReadAt[p]
  BY DEF ShapeInv, TypeOK
<1> QED
  BY <1>2, <1>3, <1>4, CommitEffect

LEMMA CommitKeepsCursors ==
    ASSUME ShapeInv, CursorInv, OneCallAtATime, NEW s \in Sessions, Commit(s)
    PROVE  CursorInv'
<1>1. /\ txn'[s] = Idle /\ writes'[s] = {} /\ Active(s)
      /\ \A o \in Sessions \ {s} : txn'[o] = txn[o] /\ writes'[o] = writes[o]
  BY CommitEffect DEF Active
<1>2. \A w \in writes[s] : WriteOK(s, w) /\ CursorOK(s, w) /\ ReturnsOK(s, w)
  BY DEF ShapeInv, CursorInv
<1>3. \A t : Exists(t) => Exists(t)'
  BY CommitRows DEF Exists
<1>4. ReturnedBehindCursor'
  <2> SUFFICES ASSUME NEW p \in Pairs, NEW r \in returned'[p]
               PROVE  p \in threadWatches' /\ r <= lastReadAt'[p]
    BY DEF ReturnedBehindCursor, Pairs
  <2>1. ~ \E w \in writes[s] : w[1] = "cursor-" /\ w[2] = p
    BY CommitEffect
  <2>2. r \in returned[p] \/ \E w \in writes[s] : w[1] = "returned" /\ w[2] = p /\ r \in w[3]
    BY <2>1, CommitEffect
  <2>3. CASE r \in returned[p]
    <3>1. p \in threadWatches /\ r <= lastReadAt[p]
      BY <2>3 DEF CursorInv, ReturnedBehindCursor
    <3>2. p \in threadWatches'
      BY <2>1, <3>1, CommitEffect
    <3>3. lastReadAt[p] <= lastReadAt'[p]
      BY <3>1, <3>2, CommitMovesOn
    <3>4. r \in Int /\ lastReadAt[p] \in Int /\ lastReadAt'[p] \in Int
      BY <2>3, CommitKeepsShape DEF ShapeInv, TypeOK
    <3> QED
      BY <3>1, <3>2, <3>3, <3>4
  <2>4. CASE \E w \in writes[s] : w[1] = "returned" /\ w[2] = p /\ r \in w[3]
    <3>1. PICK w \in writes[s] : w[1] = "returned" /\ w[2] = p /\ r \in w[3]
      BY <2>4
    <3>2. /\ \E x \in writes[s] : x[1] = "cursor" /\ x[2] = p
          /\ \A x \in writes[s] : x[1] = "cursor" /\ x[2] = p => r <= x[3]
      BY <1>2, <3>1 DEF ReturnsOK
    <3> QED
      BY <2>1, <3>2, CommitEffect
  <2> QED
    BY <2>2, <2>3, <2>4
<1>5. \A p \in threadWatches' : Exists(p[2])'
  <2> TAKE p \in threadWatches'
  <2>1. p \in Pairs
    BY CommitKeepsShape DEF ShapeInv, TypeOK, Pairs
  <2>2. CASE p \in threadWatches
    BY <1>3, <2>2 DEF CursorInv
  <2>3. CASE p \notin threadWatches
    <3>1. PICK w \in writes[s] : w[1] = "cursor" /\ w[2] = p
      BY <2>1, <2>3, CommitEffect
    <3>2. Exists(p[2]) \/ \E x \in writes[s] : x[1] = "post" /\ x[2].thread = p[2]
      BY <1>2, <3>1 DEF CursorOK, WritesRow
    <3>3. (\E x \in writes[s] : x[1] = "post" /\ x[2].thread = p[2]) => Exists(p[2])'
      BY CommitRows DEF Exists
    <3> QED
      BY <1>3, <3>2, <3>3
  <2> QED
    BY <2>2, <2>3
<1>6. RowsLocked'
  BY <1>1 DEF CursorInv, RowsLocked, WritesRow
<1>7. ASSUME NEW o \in Sessions
      PROVE  CursorStageOK(o)' /\ \A w \in writes'[o] : CursorOK(o, w)' /\ ReturnsOK(o, w)'
  <2>1. CASE o = s
    BY <1>1, <2>1 DEF Idle, CursorStageOK
  <2>2. CASE o # s
    <3>1. /\ txn'[o] = txn[o] /\ writes'[o] = writes[o] /\ CursorStageOK(o)
          /\ \A w \in writes[o] : WriteOK(o, w) /\ CursorOK(o, w) /\ ReturnsOK(o, w)
      BY <1>1, <2>2 DEF CursorInv, ShapeInv
    <3>2. ASSUME NEW w \in writes[o], WritesRow(w)
          PROVE  /\ w[2] \in Pairs
                 /\ \A x \in writes[s] : ~(WritesRow(x) /\ x[2] = w[2])
                 /\ w[2] \in threadWatches' <=> w[2] \in threadWatches
                 /\ w[2] \in threadWatches => lastReadAt'[w[2]] = lastReadAt[w[2]]
      <4>1. w[2] \in Pairs
        BY <3>1, <3>2 DEF WriteOK, WritesRow
      <4>2. \A x \in writes[s] : ~(WritesRow(x) /\ x[2] = w[2])
        BY <2>2, <3>2 DEF CursorInv, RowsLocked
      <4> QED
        BY <4>1, <4>2, CommitEffect DEF WritesRow
    <3>3. \A w \in writes'[o] : CursorOK(o, w)' /\ ReturnsOK(o, w)'
      BY <1>3, <3>1, <3>2 DEF CursorOK, ReturnsOK, WritesRow
    <3>4. CASE ~Active(o)
      BY <3>1, <3>3, <3>4 DEF Active, CursorStageOK
    <3>5. CASE Active(o)
      <4>1. ActorOf[o] # ActorOf[s] /\ txn[o] \in Stages /\ ActorOf[o] \in Actors
        BY <1>1, <2>2, <3>5, ConstantsAssumption DEF OneCallAtATime, ShapeInv
      <4>2. ASSUME txn[o].pc \in {"insertWatchers", "writeCursors"}
            PROVE  lastReadAt'[Own(o, txn[o].thread)] <= txn[o].at
        <5>1. txn[o].thread \in Threads /\ txn[o].at \in 1 .. MaxPosts
          BY <4>1, <4>2, StageLocals
        <5>2. PICK p \in Pairs : p = Own(o, txn[o].thread) /\ p[1] = ActorOf[o]
          <6>1. Own(o, txn[o].thread) \in Pairs
            BY <4>1, <5>1 DEF Own, Pairs
          <6>2. Own(o, txn[o].thread)[1] = ActorOf[o]
            BY DEF Own
          <6> QED
            BY <6>1, <6>2
        <5>3. lastReadAt[p] <= txn[o].at
          BY <3>1, <4>2, <5>2 DEF CursorStageOK
        <5>4. lastReadAt'[p] = lastReadAt[p] \/ lastReadAt'[p] = 0
          BY <4>1, <5>2, CommitElsewhere
        <5>5. 0 <= txn[o].at
          BY <5>1, ConstantsAssumption
        <5> QED
          BY <5>2, <5>3, <5>4, <5>5
      <4>3. ASSUME NEW p \in Pairs, Unvisited(o, p)
            PROVE  Unvisited(o, p)' /\ lastReadAt'[p] = lastReadAt[p]
        BY <3>1, <4>1, <4>3, CommitElsewhere DEF Unvisited
      <4>4. /\ txn[o].pc \in {"selectReplies", "updateCursor"} =>
                  \A w \in txn[o].todo : w[1] \in Pairs
            /\ txn[o].pc = "updateCursor" => txn[o].watch \in Pairs
        BY <4>1, StageLocals
      <4>5. txn[o].pc \in {"selectReplies", "updateCursor"} =>
               \A w \in txn[o].todo : Unvisited(o, w[1])' /\ w[2] = lastReadAt'[w[1]]
        BY <3>1, <4>3, <4>4 DEF CursorStageOK
      <4>6. txn[o].pc = "updateCursor" =>
               /\ Unvisited(o, txn[o].watch)
               /\ lastReadAt'[txn[o].watch] = lastReadAt[txn[o].watch]
               /\ txn[o].watch \in threadWatches'
        BY <3>1, <4>1, <4>4, CommitElsewhere DEF CursorStageOK, Unvisited
      <4>7. CursorStageOK(o)'
        BY <1>3, <3>1, <4>2, <4>5, <4>6 DEF CursorStageOK, Unvisited, Own
      <4> QED
        BY <3>3, <4>7
    <3> QED
      BY <3>4, <3>5
  <2> QED
    BY <2>1, <2>2
<1> QED
  BY <1>4, <1>5, <1>6, <1>7 DEF CursorInv

LEMMA StepKeepsCursors ==
    ASSUME ShapeInv, CursorInv, OneCallAtATime, [Next]_vars
    PROVE  CursorInv'
<1>1. ASSUME NEW s \in Sessions,
             \/ \E t \in Threads, M \in Handles : CreateThread(s, t, M)
             \/ \E t \in Threads, X \in Extras, M \in Handles : BeginAddReply(s, t, X, M)
             \/ \E t \in Threads : BeginWatchThread(s, t)
             \/ \E t \in Threads : BeginUnwatchThread(s, t)
             \/ BeginCatchUp(s)
      PROVE  CursorInv'
  BY <1>1, CreateThreadKeepsCursors, BeginsKeepCursors, BeginCatchUpKeepsCursors
<1>2. ASSUME NEW s \in Sessions,
             \/ InsertReply(s) \/ InsertWatchers(s) \/ UpsertCursors(s)
             \/ EnsureCursor(s) \/ DeleteCursor(s)
      PROVE  CursorInv'
  BY <1>2, ReplyKeepsCursors, UpsertCursorsKeepsCursors, WatchStatementsKeepCursors
<1>3. ASSUME NEW s \in Sessions,
             \/ txn[s].pc = "selectReplies" /\ \E w \in txn[s].todo : SelectReplies(s, w)
             \/ UpdateCursor(s) \/ SelectMentions(s) \/ MarkMentions(s)
             \/ Commit(s) \/ Rollback(s)
      PROVE  CursorInv'
  BY <1>3, SelectRepliesKeepsCursors, UpdateCursorKeepsCursors, MentionStatementsKeepCursors,
     CommitKeepsCursors, RollbackKeepsCursors
<1>4. CASE UNCHANGED vars
  BY <1>4 DEF vars, tables, CursorInv, ReturnedBehindCursor, RowsLocked, CursorStageOK, CursorOK,
              ReturnsOK, Unvisited, WritesRow, Exists, Own, Pairs
<1> QED
  BY <1>1, <1>2, <1>3, <1>4 DEF Next

\* If no agent makes two calls at a time, what a subscription was given stays behind
\* its cursor, however the statements of different agents' calls interleave.
THEOREM CursorInvariant ==
    ASSUME OneCallAtATime
    PROVE  Spec => []CursorInv
<1> QED
  BY InitCursors, StepKeepsCursors, TablesKeepTheirShape, PTL DEF Spec

\* catch_up returns no reply twice to a subscription (catchup.go:25-43), statement by
\* statement as well.
THEOREM ReturnedOnceByStatements ==
    ASSUME OneCallAtATime
    PROVE  Spec => []NeverReturnedTwice
<1>1. ShapeInv /\ CursorInv => NeverReturnedTwice
  <2> SUFFICES ASSUME ShapeInv, CursorInv, NEW p \in threadWatches,
                      NEW r \in RepliesAfter(p[2], lastReadAt[p]) \intersect returned[p]
               PROVE  FALSE
    BY DEF NeverReturnedTwice
  <2>1. p \in Pairs
    BY DEF ShapeInv, TypeOK
  <2>2. r <= lastReadAt[p] /\ r \in Nat /\ lastReadAt[p] \in Nat
    BY <2>1, ConstantsAssumption DEF CursorInv, ReturnedBehindCursor, ShapeInv, TypeOK
  <2>3. r > lastReadAt[p]
    BY DEF RepliesAfter
  <2> QED
    BY <2>2, <2>3
<1> QED
  BY <1>1, CursorInvariant, TablesKeepTheirShape, PTL

\* No statement moves the cursor of an existing row back (catchup.go:33-39,
\* thread_watch.go:54-70).
THEOREM CursorNeverMovesBackByStatements ==
    ASSUME OneCallAtATime
    PROVE  Spec => CursorMonotone
<1>1. ASSUME ShapeInv, CursorInv, [Next]_vars
      PROVE  [\A p \in Pairs : p \in threadWatches /\ p \in threadWatches' =>
                 lastReadAt[p] <= lastReadAt'[p]]_vars
  <2> SUFFICES ASSUME NEW p \in Pairs, p \in threadWatches, p \in threadWatches', Next
               PROVE  lastReadAt[p] <= lastReadAt'[p]
    BY <1>1
  <2>1. PICK s \in Sessions :
            \/ UNCHANGED lastReadAt
            \/ Commit(s)
    BY DEF Next, CreateThread, BeginAddReply, InsertReply, InsertWatchers, UpsertCursors,
           BeginWatchThread, EnsureCursor, BeginUnwatchThread, DeleteCursor, BeginCatchUp,
           SelectReplies, UpdateCursor, SelectMentions, MarkMentions, Rollback, Statement, tables
  <2>2. lastReadAt[p] <= lastReadAt[p]
    BY <1>1 DEF ShapeInv, TypeOK
  <2> QED
    BY <1>1, <2>1, <2>2, CommitMovesOn
<1> QED
  BY <1>1, CursorInvariant, TablesKeepTheirShape, PTL DEF Spec, CursorMonotone

------------------------------------------------------------------------------
(* Mentions on SQLite.                                                     *)

LEMMA InitSeen == Init => SeenInv
  BY DEF Init, SeenInv, SeenMentionsWereReturned, Written, Idle

\* What a statement adds of each kind.
LEMMA WrittenBy ==
    ASSUME ShapeInv, NEW s \in Sessions, NEW next, NEW W, Statement(s, next, W), NEW kind
    PROVE  Written(s, kind)' = Written(s, kind) \union {w[2] : w \in {x \in W : x[1] = kind}}
<1>1. writes'[s] = writes[s] \union W
  BY StatementEffect
<1> QED
  BY <1>1 DEF Written

\* A statement that marks no mention.
LEMMA StatementKeepsSeen ==
    ASSUME ShapeInv, SeenInv, NEW s \in Sessions, NEW next, NEW W, Statement(s, next, W),
           \A w \in W : w[1] = "seen" => w[2] \in Written(s, "gaveMention"),
           next.pc = "markMentions" =>
              UnseenMentions(ActorOf[s]) \subseteq {w[2] : w \in {x \in W : x[1] = "gaveMention"}}
    PROVE  SeenInv'
<1>1. /\ txn'[s] = next
      /\ \A o \in Sessions \ {s} : txn'[o] = txn[o] /\ writes'[o] = writes[o]
      /\ UNCHANGED <<mentions, seenMentions, returnedMentions>>
  BY StatementEffect
<1>2. SeenMentionsWereReturned'
  BY <1>1 DEF SeenInv, SeenMentionsWereReturned
<1>3. PICK G : G = {w[2] : w \in {x \in W : x[1] = "gaveMention"}}
  OBVIOUS
<1>4. PICK S : S = {w[2] : w \in {x \in W : x[1] = "seen"}} /\ S \subseteq Written(s, "gaveMention")
  <2> DEFINE seen == {w[2] : w \in {x \in W : x[1] = "seen"}}
  <2>1. seen \subseteq Written(s, "gaveMention")
    OBVIOUS
  <2> QED
    BY <2>1
<1>5. /\ Written(s, "gaveMention")' = Written(s, "gaveMention") \union G
      /\ Written(s, "seen")' = Written(s, "seen") \union S
  BY <1>3, <1>4, WrittenBy
<1>6. UnseenMentions(ActorOf[s])' = UnseenMentions(ActorOf[s])
  BY <1>1 DEF UnseenMentions
<1>7. ASSUME NEW o \in Sessions
      PROVE  /\ (Written(o, "seen") \subseteq Written(o, "gaveMention"))'
             /\ (txn[o].pc = "markMentions" =>
                    UnseenMentions(ActorOf[o]) \subseteq Written(o, "gaveMention"))'
  <2>1. CASE o = s
    BY <1>1, <1>3, <1>4, <1>5, <1>6, <2>1 DEF SeenInv
  <2>2. CASE o # s
    <3>1. txn'[o] = txn[o] /\ writes'[o] = writes[o]
      BY <1>1, <2>2
    <3> QED
      BY <1>1, <3>1 DEF SeenInv, Written, UnseenMentions
  <2> QED
    BY <2>1, <2>2
<1> QED
  BY <1>2, <1>7 DEF SeenInv

\* The statements before catch_up comes to the mentions have nothing to do with them.
LEMMA OtherStatementsKeepSeen ==
    ASSUME ShapeInv, SeenInv, NEW s \in Sessions,
           \/ \E t \in Threads, M \in Handles : CreateThread(s, t, M)
           \/ \E t \in Threads, X \in Extras, M \in Handles : BeginAddReply(s, t, X, M)
           \/ InsertReply(s) \/ InsertWatchers(s) \/ UpsertCursors(s)
           \/ \E t \in Threads : BeginWatchThread(s, t)
           \/ EnsureCursor(s)
           \/ \E t \in Threads : BeginUnwatchThread(s, t)
           \/ DeleteCursor(s) \/ BeginCatchUp(s)
           \/ \E w \in txn[s].todo : txn[s].pc = "selectReplies" /\ SelectReplies(s, w)
           \/ UpdateCursor(s)
    PROVE  SeenInv'
<1>1. ASSUME NEW next, NEW W, Statement(s, next, W), next.pc # "markMentions",
             \A w \in W : w[1] # "seen"
      PROVE  SeenInv'
  BY <1>1, StatementKeepsSeen
<1>2. ASSUME NEW t \in Threads, NEW M \in Handles, CreateThread(s, t, M) PROVE SeenInv'
  <2> DEFINE post == [at |-> clock', thread |-> t, author |-> ActorOf[s], opens |-> TRUE]
             W == {<<"post", post>>, <<"watcher+", <<ActorOf[s], t>>>>,
                   <<"cursor", <<ActorOf[s], t>>, clock'>>}
                  \union MentionRows(clock', ActorOf[s], M)
             next == [pc |-> "commit"]
  <2>1. Statement(s, next, W)
    BY <1>2 DEF CreateThread
  <2>2. next.pc # "markMentions" /\ \A w \in W : w[1] # "seen"
    BY DEF MentionRows
  <2> HIDE DEF W, next
  <2> QED
    BY <1>1, <2>1, <2>2
<1>3. ASSUME NEW t \in Threads, NEW X \in Extras, NEW M \in Handles, BeginAddReply(s, t, X, M)
      PROVE  SeenInv'
  <2> DEFINE next == [pc |-> "insertReply", thread |-> t, extra |-> X, mentioned |-> M]
  <2>1. Statement(s, next, {}) /\ next.pc # "markMentions"
    BY <1>3 DEF BeginAddReply
  <2> HIDE DEF next
  <2> QED
    BY <1>1, <2>1
<1>4. CASE InsertReply(s)
  <2> DEFINE next == [pc |-> "insertWatchers", thread |-> txn[s].thread, at |-> clock',
                      extra |-> txn[s].extra, mentioned |-> txn[s].mentioned]
             W == {<<"post", [at |-> clock', thread |-> txn[s].thread, author |-> ActorOf[s],
                              opens |-> FALSE]>>}
  <2>1. Statement(s, next, W)
    BY <1>4 DEF InsertReply
  <2>2. next.pc # "markMentions" /\ \A w \in W : w[1] # "seen"
    OBVIOUS
  <2> HIDE DEF W, next
  <2> QED
    BY <1>1, <2>1, <2>2
<1>5. CASE InsertWatchers(s)
  <2> DEFINE next == [txn[s] EXCEPT !.pc = "writeCursors"]
             keys == (txn[s].extra \union {ActorOf[s]}) \X {txn[s].thread}
             W == {<<"watcher+", p>> : p \in keys \ watchers}
  <2>1. Statement(s, next, W) /\ txn[s].pc = "insertWatchers"
    BY <1>5 DEF InsertWatchers
  <2>2. txn[s] \in [pc : {"insertWatchers", "writeCursors"}, thread : Threads,
                    at : 1 .. MaxPosts, extra : SUBSET Actors, mentioned : SUBSET Actors]
    BY <2>1, StageLocals DEF ShapeInv
  <2>3. next.pc # "markMentions" /\ \A w \in W : w[1] # "seen"
    BY <2>2
  <2> HIDE DEF W, next
  <2> QED
    BY <1>1, <2>1, <2>3
<1>6. CASE UpsertCursors(s)
  <2> DEFINE own == Own(s, txn[s].thread)
             extras == (txn[s].extra \X {txn[s].thread}) \ {own}
             W == {<<"cursor", own, txn[s].at>>}
                  \union {<<"cursor", p, 0>> : p \in extras \ threadWatches}
                  \union MentionRows(txn[s].at, ActorOf[s], txn[s].mentioned)
             next == [pc |-> "commit"]
  <2>1. Statement(s, next, W)
    BY <1>6 DEF UpsertCursors
  <2>2. next.pc # "markMentions" /\ \A w \in W : w[1] # "seen"
    BY DEF MentionRows
  <2> HIDE DEF W, next
  <2> QED
    BY <1>1, <2>1, <2>2
<1>7. ASSUME NEW t \in Threads, BeginWatchThread(s, t) \/ BeginUnwatchThread(s, t)
      PROVE  SeenInv'
  <2>1. PICK pc \in {"ensureCursor", "deleteCursor"}, kind \in {"watcher+", "watcher-"},
             P \in {{Own(s, t)} \ watchers, {Own(s, t)} \intersect watchers} :
            Statement(s, [pc |-> pc, thread |-> t], {<<kind, p>> : p \in P})
    BY <1>7 DEF BeginWatchThread, BeginUnwatchThread
  <2> DEFINE next == [pc |-> pc, thread |-> t]
             W == {<<kind, p>> : p \in P}
  <2>2. next.pc # "markMentions" /\ (\A w \in W : w[1] # "seen") /\ Statement(s, next, W)
    BY <2>1
  <2> HIDE DEF W, next
  <2> QED
    BY <1>1, <2>2
<1>8. CASE EnsureCursor(s)
  <2> DEFINE next == [pc |-> "commit"]
             W == {<<"cursor", p, 0>> : p \in {Own(s, txn[s].thread)} \ threadWatches}
  <2>1. Statement(s, next, W)
    BY <1>8 DEF EnsureCursor
  <2>2. next.pc # "markMentions" /\ \A w \in W : w[1] # "seen"
    OBVIOUS
  <2> HIDE DEF W, next
  <2> QED
    BY <1>1, <2>1, <2>2
<1>9. CASE DeleteCursor(s)
  <2> DEFINE next == [pc |-> "commit"]
             W == {<<"cursor-", p>> : p \in {Own(s, txn[s].thread)} \intersect threadWatches}
  <2>1. Statement(s, next, W)
    BY <1>9 DEF DeleteCursor
  <2>2. next.pc # "markMentions" /\ \A w \in W : w[1] # "seen"
    OBVIOUS
  <2> HIDE DEF W, next
  <2> QED
    BY <1>1, <2>1, <2>2
<1>10. CASE BeginCatchUp(s)
  <2> DEFINE next == [pc |-> "selectReplies",
                      todo |-> {<<p, lastReadAt[p]>> : p \in
                                   {q \in threadWatches : q[1] = ActorOf[s]}}]
  <2>1. Statement(s, next, {}) /\ next.pc # "markMentions"
    BY <1>10 DEF BeginCatchUp
  <2> HIDE DEF next
  <2> QED
    BY <1>1, <2>1
<1>11. ASSUME NEW w \in txn[s].todo, SelectReplies(s, w) PROVE SeenInv'
  <2> DEFINE rest == txn[s].todo \ {w}
             news == RepliesAfter(w[1][2], w[2])
  <2>1. PICK next \in {[pc |-> "selectReplies", todo |-> rest],
                       [pc |-> "updateCursor", todo |-> rest, watch |-> w[1], news |-> news]} :
            Statement(s, next, {})
    BY <1>11 DEF SelectReplies
  <2>2. next.pc # "markMentions"
    BY <2>1
  <2> QED
    BY <1>1, <2>1, <2>2
<1>12. CASE UpdateCursor(s)
  <2> DEFINE latest == CHOOSE x \in txn[s].news : \A y \in txn[s].news : y <= x
             next == [pc |-> "selectReplies", todo |-> txn[s].todo]
  <2>1. PICK p, W :
            /\ Statement(s, next, W)
            /\ W \subseteq {<<"cursor", p, latest>>, <<"returned", p, txn[s].news>>}
    BY <1>12 DEF UpdateCursor
  <2>2. next.pc # "markMentions" /\ \A w \in W : w[1] # "seen"
    BY <2>1
  <2> HIDE DEF next
  <2> QED
    BY <1>1, <2>1, <2>2
<1> QED
  BY <1>2, <1>3, <1>4, <1>5, <1>6, <1>7, <1>8, <1>9, <1>10, <1>11, <1>12

\* On one connection nothing commits between catch_up's SELECT and its UPDATE.
LEMMA MentionStatementsKeepSeen ==
    ASSUME ShapeInv, SeenInv, NEW s \in Sessions, SelectMentions(s) \/ MarkMentions(s)
    PROVE  SeenInv'
<1>1. PICK unseen : unseen = UnseenMentions(ActorOf[s])
  OBVIOUS
<1> DEFINE gave == {<<"gaveMention", m>> : m \in unseen}
           seen == {<<"seen", m>> : m \in unseen}
<1>2. /\ \A w \in gave : w[1] = "gaveMention"
      /\ unseen \subseteq {w[2] : w \in {x \in gave : x[1] = "gaveMention"}}
      /\ \A w \in seen : w[1] = "seen" /\ w[2] \in unseen
  <2>1. ASSUME NEW m \in unseen
        PROVE  m \in {w[2] : w \in {x \in gave : x[1] = "gaveMention"}}
    <3>1. <<"gaveMention", m>> \in gave
      OBVIOUS
    <3>2. <<"gaveMention", m>>[1] = "gaveMention" /\ <<"gaveMention", m>>[2] = m
      OBVIOUS
    <3> HIDE DEF gave
    <3> QED
      BY <3>1, <3>2
  <2> QED
    BY <2>1
<1>3. CASE SelectMentions(s)
  <2>1. PICK pc \in {"commit", "markMentions"} : Statement(s, [pc |-> pc], gave)
    BY <1>1, <1>3 DEF SelectMentions
  <2> DEFINE next == [pc |-> pc]
  <2>2. Statement(s, next, gave)
    BY <2>1
  <2> HIDE DEF gave, next
  <2> QED
    BY <1>1, <1>2, <2>2, StatementKeepsSeen
<1>4. CASE MarkMentions(s)
  <2> DEFINE next == [pc |-> "commit"]
  <2>1. Statement(s, next, seen) /\ txn[s].pc = "markMentions" /\ next.pc # "markMentions"
    BY <1>1, <1>4 DEF MarkMentions
  <2>2. unseen \subseteq Written(s, "gaveMention")
    BY <1>1, <2>1 DEF SeenInv
  <2> HIDE DEF seen, next
  <2> QED
    BY <1>2, <2>1, <2>2, StatementKeepsSeen
<1> QED
  BY <1>3, <1>4

LEMMA EndsKeepSeen ==
    ASSUME ShapeInv, SeenInv, Backend = "sqlite", NEW s \in Sessions, Commit(s) \/ Rollback(s)
    PROVE  SeenInv'
<1>1. /\ txn' = [txn EXCEPT ![s] = Idle] /\ writes' = [writes EXCEPT ![s] = {}] /\ Active(s)
  BY DEF Commit, Rollback, Active
<1>2. \A o \in Sessions : txn'[o].pc = "idle" /\ writes'[o] = {}
  <2> TAKE o \in Sessions
  <2>1. CASE o = s
    BY <1>1, <2>1 DEF ShapeInv, Idle
  <2>2. CASE o # s
    BY <1>1, <2>2 DEF ShapeInv, TypeOK, Active
  <2> QED
    BY <2>1, <2>2
<1>3. SeenMentionsWereReturned'
  <2>1. CASE Commit(s)
    BY <2>1 DEF Commit, SeenInv, SeenMentionsWereReturned
  <2>2. CASE Rollback(s)
    BY <2>2 DEF Rollback, tables, SeenInv, SeenMentionsWereReturned
  <2> QED
    BY <2>1, <2>2
<1> QED
  BY <1>2, <1>3 DEF SeenInv, Written

LEMMA StepKeepsSeen ==
    ASSUME ShapeInv, SeenInv, Backend = "sqlite", [Next]_vars
    PROVE  SeenInv'
<1>1. CASE UNCHANGED vars
  BY <1>1 DEF vars, tables, SeenInv, SeenMentionsWereReturned, Written, UnseenMentions
<1> QED
  BY <1>1, OtherStatementsKeepSeen, MentionStatementsKeepSeen, EndsKeepSeen DEF Next

\* On SQLite catch_up marks no mention as seen that it has not returned
\* (catchup.go:45-60), and the tables keep their shape.
THEOREM MentionsMarkedWereReturned ==
    ASSUME Backend = "sqlite"
    PROVE  Spec => []TablesInv
<1>1. ShapeInv /\ SeenInv => TablesInv
  BY DEF ShapeInv, SeenInv, TablesInv
<1> QED
  BY <1>1, InitSeen, StepKeepsSeen, TablesKeepTheirShape, PTL DEF Spec

------------------------------------------------------------------------------
(* On SQLite the statements amount to the calls of Board.tla.              *)

\* Rows are committed in the order of their stamps; a cursor and whatever has been
\* returned carry stamps of rows.
Stamped(R, at) == \E i \in DOMAIN R : R[i].at = at
StampsInv ==
    /\ \A i, j \in DOMAIN rows : i < j => rows[i].at < rows[j].at
    /\ Len(rows) <= clock
    /\ \A p \in Pairs : lastReadAt[p] = 0 \/ Stamped(rows, lastReadAt[p])
    /\ \A p \in Pairs : \A r \in returned[p] : Stamped(rows, r)
    /\ mentions \subseteq (1 .. MaxPosts) \X Actors
    /\ WatchTablesAgree
    /\ \A p \in Pairs \ threadWatches : lastReadAt[p] = 0 /\ returned[p] = {}

\* A stamp for the next row.
Fresh(at) == at \in 1 .. MaxPosts /\ Len(rows) < at /\ \A i \in DOMAIN rows : rows[i].at < at

\* The writes of each call.
PostWrite(a, t, at, opens) ==
    {<<"post", [at |-> at, thread |-> t, author |-> a, opens |-> opens]>>}
WatcherWrites(P) == {<<"watcher+", p>> : p \in P \ watchers}
CursorWrites(P) == {<<"cursor", p, 0>> : p \in P \ threadWatches}

PostWrites(a, t, X, M, at, opens) ==
    PostWrite(a, t, at, opens) \union WatcherWrites((X \union {a}) \X {t})
    \union {<<"cursor", <<a, t>>, at>>} \union CursorWrites((X \X {t}) \ {<<a, t>>})
    \union MentionRows(at, a, M)

WatchWrites(p) == WatcherWrites({p}) \union CursorWrites({p})

UnwatchWrites(p) ==
    {<<"watcher-", q>> : q \in {p} \intersect watchers}
    \union {<<"cursor-", q>> : q \in {p} \intersect threadWatches}

News(p) == RepliesAfter(p[2], lastReadAt[p])
LatestOf(S) == CHOOSE x \in S : \A y \in S : y <= x
WithNews(a) == {p \in threadWatches : p[1] = a /\ News(p) # {}}
ReturnWrites(P) ==
    {<<"cursor", p, LatestOf(News(p))>> : p \in P} \union {<<"returned", p, News(p)>> : p \in P}
GaveWrites(a) == {<<"gaveMention", m>> : m \in UnseenMentions(a)}
SeenWrites(a) == {<<"seen", m>> : m \in UnseenMentions(a)}

CatchUpWrites(a) == ReturnWrites(WithNews(a)) \union GaveWrites(a) \union SeenWrites(a)

\* The watches a catch_up has yet to move.
Left(s) ==
    {w[1] : w \in txn[s].todo} \union
    (IF txn[s].pc = "updateCursor" THEN {txn[s].watch} ELSE {})

\* What a transaction has written when it comes to each of its statements.
JournalCommit(s) ==
    LET a == ActorOf[s]
    IN  \/ \E t \in Threads, M \in SUBSET Actors, at \in 1 .. MaxPosts :
              ~Exists(t) /\ Fresh(at) /\ writes[s] = PostWrites(a, t, {}, M, at, TRUE)
        \/ \E t \in Threads, X, M \in SUBSET Actors, at \in 1 .. MaxPosts :
              Exists(t) /\ Fresh(at) /\ writes[s] = PostWrites(a, t, X, M, at, FALSE)
        \/ \E t \in Threads :
              Exists(t) /\ writes[s] = WatchWrites(<<a, t>>)
        \/ \E t \in Threads : writes[s] = UnwatchWrites(<<a, t>>)
        \/ writes[s] = CatchUpWrites(a)

JournalPost(s) ==
    PostWrite(ActorOf[s], txn[s].thread, txn[s].at, FALSE)

Journal(s) ==
    /\ txn[s].pc = "insertWatchers" => Fresh(txn[s].at) /\ writes[s] = JournalPost(s)
    /\ txn[s].pc = "writeCursors" =>
          /\ Fresh(txn[s].at)
          /\ writes[s] = JournalPost(s)
                \union WatcherWrites((txn[s].extra \union {ActorOf[s]}) \X {txn[s].thread})
    /\ txn[s].pc = "ensureCursor" => writes[s] = WatcherWrites({Own(s, txn[s].thread)})
    /\ txn[s].pc = "deleteCursor" =>
          writes[s] = {<<"watcher-", q>> : q \in {Own(s, txn[s].thread)} \intersect watchers}
    /\ txn[s].pc \in {"selectReplies", "updateCursor"} =>
          writes[s] = ReturnWrites(WithNews(ActorOf[s]) \ Left(s))
    /\ txn[s].pc = "updateCursor" => txn[s].news = News(txn[s].watch)
    /\ txn[s].pc = "markMentions" =>
          writes[s] = ReturnWrites(WithNews(ActorOf[s])) \union GaveWrites(ActorOf[s])
    /\ txn[s].pc = "commit" => JournalCommit(s)

JournalInv == StampsInv /\ \A s \in Sessions : Journal(s)

------------------------------------------------------------------------------
(* Each statement keeps the journal.                                       *)

LEMMA InitJournal == Init => JournalInv
  BY DEF Init, JournalInv, StampsInv, Journal, Idle, WatchTablesAgree, Pairs

\* While a transaction runs the tables stand still, and no other one has written.
LEMMA StatementKeepsJournal ==
    ASSUME ShapeInv, JournalInv, Backend = "sqlite", NEW s \in Sessions, NEW next, NEW W,
           Statement(s, next, W), clock' \in Nat, clock <= clock',
           Active(s) \/ \A o \in Sessions : ~Active(o),
           Journal(s)'
    PROVE  JournalInv'
<1>1. /\ \A o \in Sessions \ {s} : txn'[o] = txn[o]
      /\ UNCHANGED <<rows, watchers, threadWatches, lastReadAt, mentions, seenMentions,
                    returned, returnedMentions>>
  BY StatementEffect
<1>2. StampsInv'
  <2>1. rows \in Seq(Post) /\ clock \in Nat
    BY DEF ShapeInv, TypeOK
  <2>2. Len(rows) \in Nat /\ Len(rows) <= clock
    BY <2>1 DEF JournalInv, StampsInv
  <2>3. Len(rows) <= clock'
    BY <2>1, <2>2
  <2> QED
    BY <1>1, <2>3 DEF JournalInv, StampsInv, Stamped, WatchTablesAgree, Pairs
<1>3. \A o \in Sessions \ {s} : txn'[o].pc = "idle"
  BY <1>1 DEF ShapeInv, Active
<1>4. \A o \in Sessions \ {s} : Journal(o)'
  BY <1>3 DEF Journal
<1> QED
  BY <1>2, <1>4 DEF JournalInv

\* The time of the next row.
LEMMA ClockIsFresh ==
    ASSUME ShapeInv, StampsInv, clock < MaxPosts, NEW at, at = clock + 1, UNCHANGED rows
    PROVE  at \in Nat /\ clock <= at /\ Fresh(at)'
<1>1. rows \in Seq(Post) /\ clock \in Nat /\ MaxPosts \in Nat /\ Len(rows) \in Nat
  BY ConstantsAssumption DEF ShapeInv, TypeOK
<1>2. at \in 1 .. MaxPosts /\ Len(rows) < at /\ clock <= at
  BY <1>1 DEF StampsInv
<1>3. \A i \in DOMAIN rows : rows[i].at < at
  BY <1>1, RowsArePosts
<1> QED
  BY <1>2, <1>3 DEF Fresh

LEMMA CreateThreadKeepsJournal ==
    ASSUME ShapeInv, CursorInv, JournalInv, Backend = "sqlite", NEW s \in Sessions,
           NEW t \in Threads, NEW M \in Handles, CreateThread(s, t, M)
    PROVE  JournalInv'
<1> DEFINE a == ActorOf[s]
           next == [pc |-> "commit"]
<1>1. PICK at : at = clock'
  OBVIOUS
<1> DEFINE W == {<<"post", [at |-> at, thread |-> t, author |-> a, opens |-> TRUE]>>,
                 <<"watcher+", <<a, t>>>>, <<"cursor", <<a, t>>, at>>}
                   \union MentionRows(at, a, M)
<1>2. /\ Statement(s, next, W) /\ at = clock + 1 /\ clock < MaxPosts
      /\ CanBegin(s, "CreateThread") /\ ~Exists(t)
  BY <1>1 DEF CreateThread
<1>3. M \in SUBSET Actors
  BY ConstantsAssumption
<1>4. writes'[s] = W /\ txn'[s] = next /\ UNCHANGED <<rows, watchers, threadWatches>>
  BY <1>2, BeginFacts, StatementEffect
<1>5. at \in Nat /\ clock <= at /\ Fresh(at)'
  BY <1>2, <1>4, ClockIsFresh DEF JournalInv
<1>6. W = PostWrites(a, t, {}, M, at, TRUE)
  <2>1. <<a, t>> \notin watchers
    BY <1>2 DEF JournalInv, StampsInv, WatchTablesAgree, CursorInv
  <2>2. ({} \union {a}) \X {t} = {<<a, t>>}
    OBVIOUS
  <2> QED
    BY <2>1, <2>2 DEF PostWrites, PostWrite, WatcherWrites, CursorWrites
<1> HIDE DEF W
<1>7. ~Exists(t)' /\ at \in 1 .. MaxPosts
  BY <1>2, <1>4, <1>5 DEF Exists, Fresh
<1>8. JournalCommit(s)'
  <2>1. PostWrites(a, t, {}, M, at, TRUE)' = PostWrites(a, t, {}, M, at, TRUE)
    BY <1>4 DEF PostWrites, PostWrite, WatcherWrites, CursorWrites, MentionRows
  <2>2. writes'[s] = PostWrites(a, t, {}, M, at, TRUE)'
    BY <1>4, <1>6, <2>1
  <2> QED
    BY <1>3, <1>5, <1>7, <2>2 DEF JournalCommit
<1>9. Journal(s)'
  BY <1>4, <1>8 DEF Journal
<1> HIDE DEF next
<1> QED
  BY <1>1, <1>2, <1>5, <1>9, BeginFacts, StatementKeepsJournal

\* The first statements of the other calls.
LEMMA BeginsKeepJournal ==
    ASSUME ShapeInv, JournalInv, Backend = "sqlite", NEW s \in Sessions,
           \/ \E t \in Threads, X \in Extras, M \in Handles : BeginAddReply(s, t, X, M)
           \/ \E t \in Threads : BeginWatchThread(s, t)
           \/ \E t \in Threads : BeginUnwatchThread(s, t)
           \/ BeginCatchUp(s)
    PROVE  JournalInv'
<1>1. clock \in Nat /\ clock <= clock
  BY DEF ShapeInv, TypeOK
<1>2. CASE \E t \in Threads, X \in Extras, M \in Handles : BeginAddReply(s, t, X, M)
  <2>1. PICK t \in Threads, X \in Extras, M \in Handles : BeginAddReply(s, t, X, M)
    BY <1>2
  <2> DEFINE next == [pc |-> "insertReply", thread |-> t, extra |-> X, mentioned |-> M]
  <2>2. /\ CanBegin(s, "AddReply") /\ Statement(s, next, {}) /\ UNCHANGED clock
    BY <2>1 DEF BeginAddReply
  <2>3. Journal(s)'
    <3>1. txn'[s] = next
      BY <2>2, StatementEffect
    <3> QED
      BY <3>1 DEF Journal
  <2> HIDE DEF next
  <2> QED
    BY <1>1, <2>2, <2>3, BeginFacts, StatementKeepsJournal
<1>3. CASE \E t \in Threads : BeginWatchThread(s, t)
  <2>1. PICK t \in Threads : BeginWatchThread(s, t)
    BY <1>3
  <2> DEFINE next == [pc |-> "ensureCursor", thread |-> t]
             W == {<<"watcher+", p>> : p \in {Own(s, t)} \ watchers}
  <2>2. /\ CanBegin(s, "WatchThread") /\ Statement(s, next, W) /\ UNCHANGED clock
    BY <2>1 DEF BeginWatchThread
  <2>3. Journal(s)'
    <3>1. txn'[s] = next /\ writes'[s] = W /\ UNCHANGED watchers
      BY <2>2, BeginFacts, StatementEffect
    <3> QED
      BY <3>1 DEF Journal, WatcherWrites, Own
  <2> HIDE DEF next, W
  <2> QED
    BY <1>1, <2>2, <2>3, BeginFacts, StatementKeepsJournal
<1>4. CASE \E t \in Threads : BeginUnwatchThread(s, t)
  <2>1. PICK t \in Threads : BeginUnwatchThread(s, t)
    BY <1>4
  <2> DEFINE next == [pc |-> "deleteCursor", thread |-> t]
             W == {<<"watcher-", p>> : p \in {Own(s, t)} \intersect watchers}
  <2>2. /\ CanBegin(s, "UnwatchThread") /\ Statement(s, next, W) /\ UNCHANGED clock
    BY <2>1 DEF BeginUnwatchThread
  <2>3. Journal(s)'
    <3>1. txn'[s] = next /\ writes'[s] = W /\ UNCHANGED watchers
      BY <2>2, BeginFacts, StatementEffect
    <3> QED
      BY <3>1 DEF Journal, Own
  <2> HIDE DEF next, W
  <2> QED
    BY <1>1, <2>2, <2>3, BeginFacts, StatementKeepsJournal
<1>5. CASE BeginCatchUp(s)
  <2> DEFINE a == ActorOf[s]
             todo == {<<p, lastReadAt[p]>> : p \in {q \in threadWatches : q[1] = a}}
             next == [pc |-> "selectReplies", todo |-> todo]
  <2>1. /\ CanBegin(s, "CatchUp") /\ Statement(s, next, {}) /\ UNCHANGED clock
    BY <1>5 DEF BeginCatchUp
  <2>2. txn'[s] = next /\ writes'[s] = {} /\ UNCHANGED threadWatches
    BY <2>1, BeginFacts, StatementEffect
  <2>3. \A p \in threadWatches : p[1] = a => p \in {w[1] : w \in todo}
    <3> TAKE p \in threadWatches
    <3> HAVE p[1] = a
    <3>1. <<p, lastReadAt[p]>> \in todo /\ <<p, lastReadAt[p]>>[1] = p
      OBVIOUS
    <3> QED
      BY <3>1
  <2>4. (WithNews(a) \ Left(s))' = {}
    BY <2>2, <2>3 DEF WithNews, Left
  <2>5. Journal(s)'
    <3>1. txn'[s].pc = "selectReplies"
      BY <2>2
    <3>2. writes'[s] = ReturnWrites(WithNews(a) \ Left(s))'
      BY <2>2, <2>4 DEF ReturnWrites
    <3> QED
      BY <3>1, <3>2 DEF Journal
  <2> HIDE DEF next
  <2> QED
    BY <1>1, <2>1, <2>5, BeginFacts, StatementKeepsJournal
<1> QED
  BY <1>2, <1>3, <1>4, <1>5

\* The statements of AddReply after the first.
LEMMA InsertReplyKeepsJournal ==
    ASSUME ShapeInv, JournalInv, Backend = "sqlite", NEW s \in Sessions, InsertReply(s)
    PROVE  JournalInv'
<1>1. PICK at, x : at = clock' /\ x = txn[s]
  OBVIOUS
<1> DEFINE next == [pc |-> "insertWatchers", thread |-> x.thread, at |-> at,
                    extra |-> x.extra, mentioned |-> x.mentioned]
           W == PostWrite(ActorOf[s], x.thread, at, FALSE)
<1>2. /\ x.pc = "insertReply" /\ Statement(s, next, W) /\ at = clock + 1 /\ clock < MaxPosts
  BY <1>1 DEF InsertReply, PostWrite
<1>3. writes[s] = {} /\ Active(s)
  BY <1>1, <1>2 DEF ShapeInv, StageOK, Active
<1> HIDE DEF next, W
<1>4. writes'[s] = W /\ txn'[s] = next /\ UNCHANGED rows
  <2>1. ShapeInv /\ s \in Sessions /\ Statement(s, next, W)
    BY <1>2
  <2>2. writes'[s] = writes[s] \union W /\ txn'[s] = next /\ UNCHANGED rows
    BY ONLY <2>1, StatementEffect
  <2> QED
    BY <1>3, <2>2
<1>5. at \in Nat /\ clock <= at /\ Fresh(at)'
  BY <1>2, <1>4, ClockIsFresh DEF JournalInv
<1>6. Journal(s)'
  BY <1>4, <1>5 DEF Journal, JournalPost, PostWrite, next, W
<1> QED
  BY <1>1, <1>2, <1>3, <1>5, <1>6, StatementKeepsJournal

LEMMA InsertWatchersKeepsJournal ==
    ASSUME ShapeInv, JournalInv, Backend = "sqlite", NEW s \in Sessions, InsertWatchers(s)
    PROVE  JournalInv'
<1> DEFINE next == [txn[s] EXCEPT !.pc = "writeCursors"]
           keys == (txn[s].extra \union {ActorOf[s]}) \X {txn[s].thread}
           W == {<<"watcher+", p>> : p \in keys \ watchers}
<1>1. /\ txn[s].pc = "insertWatchers" /\ Statement(s, next, W) /\ UNCHANGED clock
      /\ clock \in Nat /\ clock <= clock /\ Active(s)
  BY DEF InsertWatchers, ShapeInv, TypeOK, Active
<1>2. txn[s] \in [pc : {"insertWatchers", "writeCursors"}, thread : Threads,
                  at : 1 .. MaxPosts, extra : SUBSET Actors, mentioned : SUBSET Actors]
  BY <1>1, StageLocals DEF ShapeInv
<1>3. /\ next.pc = "writeCursors" /\ next.thread = txn[s].thread /\ next.at = txn[s].at
      /\ next.extra = txn[s].extra
  BY <1>2
<1>4. Fresh(txn[s].at) /\ writes[s] = JournalPost(s)
  BY <1>1 DEF JournalInv, Journal
<1>5. W = WatcherWrites(keys)
  BY DEF WatcherWrites
<1> HIDE DEF next, W
<1>6. /\ writes'[s] = writes[s] \union W /\ txn'[s] = next
      /\ UNCHANGED <<rows, watchers>>
  BY <1>1, StatementEffect
<1>7. Fresh(txn[s].at)' /\ JournalPost(s)' = JournalPost(s)
  BY <1>3, <1>4, <1>6 DEF Fresh, JournalPost, PostWrite
<1>8. Journal(s)'
  BY <1>3, <1>4, <1>5, <1>6, <1>7 DEF Journal, WatcherWrites
<1> QED
  BY <1>1, <1>8, StatementKeepsJournal

LEMMA UpsertCursorsKeepsJournal ==
    ASSUME ShapeInv, CursorInv, JournalInv, Backend = "sqlite", NEW s \in Sessions,
           UpsertCursors(s)
    PROVE  JournalInv'
<1>1. PICK a, t, at, X, M : /\ a = ActorOf[s] /\ t = txn[s].thread /\ at = txn[s].at
                            /\ X = txn[s].extra /\ M = txn[s].mentioned
  OBVIOUS
<1> DEFINE next == [pc |-> "commit"]
           W == {<<"cursor", <<a, t>>, at>>}
                \union {<<"cursor", p, 0>> : p \in ((X \X {t}) \ {<<a, t>>}) \ threadWatches}
                \union MentionRows(at, a, M)
<1>2. /\ txn[s].pc = "writeCursors" /\ Statement(s, next, W) /\ UNCHANGED clock
      /\ clock \in Nat /\ clock <= clock /\ Active(s)
  BY <1>1 DEF UpsertCursors, Own, ShapeInv, TypeOK, Active
<1>3. txn[s] \in [pc : {"insertWatchers", "writeCursors"}, thread : Threads,
                  at : 1 .. MaxPosts, extra : SUBSET Actors, mentioned : SUBSET Actors]
  BY <1>2, StageLocals DEF ShapeInv
<1>4. t \in Threads /\ at \in 1 .. MaxPosts /\ X \in SUBSET Actors /\ M \in SUBSET Actors
  BY <1>1, <1>3
<1>5. /\ Fresh(at) /\ Exists(t)
      /\ writes[s] = PostWrite(a, t, at, FALSE) \union WatcherWrites((X \union {a}) \X {t})
  BY <1>1, <1>2 DEF JournalInv, Journal, JournalPost, CursorInv, CursorStageOK
<1>6. writes[s] \union W = PostWrites(a, t, X, M, at, FALSE)
  BY <1>5 DEF PostWrites, CursorWrites
<1> HIDE DEF W
<1>7. /\ writes'[s] = writes[s] \union W /\ txn'[s] = next
      /\ UNCHANGED <<rows, watchers, threadWatches>>
  BY <1>2, StatementEffect
<1>8. /\ Fresh(at)'
      /\ Exists(t)'
      /\ PostWrites(a, t, X, M, at, FALSE)' = PostWrites(a, t, X, M, at, FALSE)
  BY <1>5, <1>7 DEF Fresh, Exists, PostWrites, PostWrite, WatcherWrites, CursorWrites, MentionRows
<1>9. JournalCommit(s)'
  BY <1>1, <1>4, <1>6, <1>7, <1>8 DEF JournalCommit
<1>10. Journal(s)'
  BY <1>7, <1>9 DEF Journal
<1> HIDE DEF next
<1> QED
  BY <1>2, <1>10, StatementKeepsJournal

\* The second statements of WatchThread and UnwatchThread.
LEMMA WatchStatementsKeepJournal ==
    ASSUME ShapeInv, CursorInv, JournalInv, Backend = "sqlite", NEW s \in Sessions,
           EnsureCursor(s) \/ DeleteCursor(s)
    PROVE  JournalInv'
<1>1. PICK a, t : a = ActorOf[s] /\ t = txn[s].thread
  OBVIOUS
<1> DEFINE next == [pc |-> "commit"]
<1>2. clock \in Nat /\ clock <= clock
  BY DEF ShapeInv, TypeOK
<1>3. CASE EnsureCursor(s)
  <2> DEFINE W == {<<"cursor", p, 0>> : p \in {<<a, t>>} \ threadWatches}
  <2>1. /\ txn[s].pc = "ensureCursor" /\ Statement(s, next, W) /\ UNCHANGED clock /\ Active(s)
    BY <1>1, <1>3 DEF EnsureCursor, Own, Active
  <2>2. t \in Threads /\ Exists(t)
    BY <1>1, <2>1, StageLocals DEF ShapeInv, CursorInv, CursorStageOK
  <2>3. writes[s] = WatcherWrites({<<a, t>>}) /\ W = CursorWrites({<<a, t>>})
    BY <1>1, <2>1 DEF JournalInv, Journal, Own, CursorWrites
  <2> HIDE DEF W
  <2>4. /\ writes'[s] = writes[s] \union W /\ txn'[s] = next
        /\ UNCHANGED <<rows, watchers, threadWatches>>
    BY <2>1, StatementEffect
  <2>5. Exists(t)' /\ writes'[s] = WatchWrites(<<a, t>>)'
    BY <2>2, <2>3, <2>4 DEF Exists, WatchWrites, WatcherWrites, CursorWrites
  <2>6. JournalCommit(s)'
    BY <1>1, <2>2, <2>5 DEF JournalCommit
  <2>7. Journal(s)'
    BY <2>4, <2>6 DEF Journal
  <2> HIDE DEF next
  <2> QED
    BY <1>2, <2>1, <2>7, StatementKeepsJournal
<1>4. CASE DeleteCursor(s)
  <2> DEFINE W == {<<"cursor-", p>> : p \in {<<a, t>>} \intersect threadWatches}
  <2>1. /\ txn[s].pc = "deleteCursor" /\ Statement(s, next, W) /\ UNCHANGED clock /\ Active(s)
    BY <1>1, <1>4 DEF DeleteCursor, Own, Active
  <2>2. t \in Threads
    BY <1>1, <2>1, StageLocals DEF ShapeInv
  <2>3. writes[s] \union W = UnwatchWrites(<<a, t>>)
    BY <1>1, <2>1 DEF JournalInv, Journal, Own, UnwatchWrites
  <2> HIDE DEF W
  <2>4. /\ writes'[s] = writes[s] \union W /\ txn'[s] = next
        /\ UNCHANGED <<rows, watchers, threadWatches>>
    BY <2>1, StatementEffect
  <2>5. writes'[s] = UnwatchWrites(<<a, t>>)'
    BY <2>3, <2>4 DEF UnwatchWrites
  <2>6. JournalCommit(s)'
    BY <1>1, <2>2, <2>5 DEF JournalCommit
  <2>7. Journal(s)'
    BY <2>4, <2>6 DEF Journal
  <2> HIDE DEF next
  <2> QED
    BY <1>2, <2>1, <2>7, StatementKeepsJournal
<1> QED
  BY <1>3, <1>4

\* CatchUp.  What the journal of a catch_up is made of stands still.
LEMMA CatchUpTablesStand ==
    ASSUME UNCHANGED <<rows, threadWatches, lastReadAt, mentions, seenMentions>>, NEW a, NEW P
    PROVE  /\ WithNews(a)' = WithNews(a) /\ ReturnWrites(P)' = ReturnWrites(P)
           /\ GaveWrites(a)' = GaveWrites(a) /\ SeenWrites(a)' = SeenWrites(a)
           /\ \A p : News(p)' = News(p)
  BY DEF WithNews, ReturnWrites, GaveWrites, SeenWrites, UnseenMentions, News, RepliesAfter,
         LatestOf

LEMMA SelectRepliesKeepsJournal ==
    ASSUME ShapeInv, CursorInv, JournalInv, Backend = "sqlite", NEW s \in Sessions,
           txn[s].pc = "selectReplies", NEW w \in txn[s].todo, SelectReplies(s, w)
    PROVE  JournalInv'
<1>1. PICK a, todo : a = ActorOf[s] /\ todo = txn[s].todo
  OBVIOUS
<1> DEFINE rest == todo \ {w}
<1>2. clock \in Nat /\ clock <= clock /\ UNCHANGED clock /\ Active(s)
  BY DEF SelectReplies, ShapeInv, TypeOK, Active
<1>3. w[2] = lastReadAt[w[1]] /\ News(w[1]) = RepliesAfter(w[1][2], w[2])
  BY DEF CursorInv, CursorStageOK, News
<1>4. writes[s] = ReturnWrites(WithNews(a) \ {x[1] : x \in todo})
  <2>1. Left(s) = {x[1] : x \in todo}
    BY <1>1 DEF Left
  <2> QED
    BY <1>1, <2>1 DEF JournalInv, Journal
<1>5. {x[1] : x \in todo} = {x[1] : x \in rest} \union {w[1]}
  BY <1>1
<1>6. CASE News(w[1]) = {}
  <2> DEFINE next == [pc |-> "selectReplies", todo |-> rest]
  <2>1. Statement(s, next, {})
    BY <1>1, <1>3, <1>6 DEF SelectReplies
  <2> HIDE DEF next
  <2>2. /\ writes'[s] = writes[s] /\ txn'[s] = next
        /\ UNCHANGED <<rows, threadWatches, lastReadAt, mentions, seenMentions>>
    <3>1. ShapeInv /\ s \in Sessions /\ Statement(s, next, {})
      BY <2>1
    <3>2. /\ writes'[s] = writes[s] \union {} /\ txn'[s] = next
          /\ UNCHANGED <<rows, threadWatches, lastReadAt, mentions, seenMentions>>
      BY ONLY <3>1, StatementEffect
    <3> QED
      BY <3>2
  <2>3. WithNews(a) \ {x[1] : x \in todo} = WithNews(a) \ {x[1] : x \in rest}
    BY <1>5, <1>6 DEF WithNews
  <2>4. Left(s)' = {x[1] : x \in rest}
    BY <2>2 DEF Left, next
  <2>5. writes'[s] = ReturnWrites(WithNews(a) \ Left(s))'
    BY <1>4, <2>2, <2>3, <2>4, CatchUpTablesStand
  <2>6. Journal(s)'
    BY <1>1, <2>2, <2>5 DEF Journal, next
  <2> QED
    BY <1>2, <2>1, <2>6, StatementKeepsJournal
<1>7. CASE News(w[1]) # {}
  <2>1. PICK news : news = News(w[1])
    OBVIOUS
  <2> DEFINE next == [pc |-> "updateCursor", todo |-> rest, watch |-> w[1], news |-> news]
  <2>2. Statement(s, next, {})
    BY <1>1, <1>3, <1>7, <2>1 DEF SelectReplies
  <2>3. /\ writes'[s] = writes[s] /\ txn'[s] = next
        /\ UNCHANGED <<rows, threadWatches, lastReadAt, mentions, seenMentions>>
    BY <2>2, StatementEffect
  <2>4. Left(s)' = {x[1] : x \in todo}
    BY <1>5, <2>3 DEF Left
  <2>5. writes'[s] = ReturnWrites(WithNews(a) \ Left(s))' /\ news = News(w[1])'
    BY <1>4, <2>1, <2>3, <2>4, CatchUpTablesStand
  <2>6. Journal(s)'
    BY <1>1, <2>3, <2>5 DEF Journal
  <2> HIDE DEF next
  <2> QED
    BY <1>2, <2>2, <2>6, StatementKeepsJournal
<1> QED
  BY <1>6, <1>7

LEMMA UpdateCursorKeepsJournal ==
    ASSUME ShapeInv, CursorInv, JournalInv, Backend = "sqlite", NEW s \in Sessions,
           UpdateCursor(s)
    PROVE  JournalInv'
<1>1. PICK a, todo, p, latest :
         a = ActorOf[s] /\ todo = txn[s].todo /\ p = txn[s].watch /\ latest = LatestOf(txn[s].news)
  OBVIOUS
<1> DEFINE next == [pc |-> "selectReplies", todo |-> todo]
           W == {<<"cursor", p, latest>>, <<"returned", p, txn[s].news>>}
           visited == WithNews(a) \ ({x[1] : x \in todo} \union {p})
<1>2. /\ txn[s].pc = "updateCursor" /\ UNCHANGED clock /\ Active(s)
      /\ clock \in Nat /\ clock <= clock
  BY DEF UpdateCursor, ShapeInv, TypeOK, Active
<1>3. /\ p \in threadWatches /\ p[1] = a /\ p \notin {x[1] : x \in todo}
      /\ txn[s].news # {}
  BY <1>1, <1>2 DEF CursorInv, CursorStageOK, Unvisited, ShapeInv, StageOK
<1>4. Statement(s, next, W)
  BY <1>1, <1>3 DEF UpdateCursor, LatestOf
<1>5. txn[s].news = News(p) /\ writes[s] = ReturnWrites(visited)
  <2>1. Left(s) = {x[1] : x \in todo} \union {p}
    BY <1>1, <1>2 DEF Left
  <2> QED
    BY <1>1, <1>2, <2>1 DEF JournalInv, Journal
<1>6. WithNews(a) \ {x[1] : x \in todo} = visited \union {p}
  BY <1>3, <1>5 DEF WithNews
<1>7. writes[s] \union W = ReturnWrites(visited \union {p})
  <2>1. W = {<<"cursor", p, LatestOf(News(p))>>, <<"returned", p, News(p)>>}
    BY <1>1, <1>5
  <2> HIDE DEF W, visited
  <2> QED
    BY <1>5, <2>1 DEF ReturnWrites
<1> HIDE DEF W
<1>8. /\ writes'[s] = writes[s] \union W /\ txn'[s] = next
      /\ UNCHANGED <<rows, threadWatches, lastReadAt, mentions, seenMentions>>
  BY <1>4, StatementEffect
<1>9. Left(s)' = {x[1] : x \in todo}
  BY <1>8 DEF Left
<1>10. writes'[s] = ReturnWrites(WithNews(a) \ Left(s))'
  BY <1>6, <1>7, <1>8, <1>9, CatchUpTablesStand
<1>11. Journal(s)'
  BY <1>1, <1>8, <1>10 DEF Journal
<1> HIDE DEF next
<1> QED
  BY <1>2, <1>4, <1>11, StatementKeepsJournal

LEMMA MentionStatementsKeepJournal ==
    ASSUME ShapeInv, JournalInv, Backend = "sqlite", NEW s \in Sessions,
           SelectMentions(s) \/ MarkMentions(s)
    PROVE  JournalInv'
<1> DEFINE a == ActorOf[s]
<1>2. clock \in Nat /\ clock <= clock
  BY DEF ShapeInv, TypeOK
<1>3. CASE SelectMentions(s)
  <2> DEFINE next == [pc |-> IF UnseenMentions(a) = {} THEN "commit" ELSE "markMentions"]
  <2>1. /\ txn[s].pc = "selectReplies" /\ Statement(s, next, GaveWrites(a))
        /\ UNCHANGED clock /\ Active(s)
    BY <1>3 DEF SelectMentions, GaveWrites, Active
  <2>2. writes[s] = ReturnWrites(WithNews(a))
    <3>1. Left(s) = {}
      BY <1>3, <2>1 DEF SelectMentions, Left
    <3> QED
      BY <2>1, <3>1 DEF JournalInv, Journal
  <2>3. /\ writes'[s] = writes[s] \union GaveWrites(a) /\ txn'[s] = next
        /\ UNCHANGED <<rows, threadWatches, lastReadAt, mentions, seenMentions>>
    BY <2>1, StatementEffect
  <2>4. writes'[s] = (ReturnWrites(WithNews(a)) \union GaveWrites(a))'
    BY <2>2, <2>3, CatchUpTablesStand
  <2>5. UnseenMentions(a) = {} => SeenWrites(a)' = {}
    BY <2>3 DEF SeenWrites, UnseenMentions
  <2>6. UnseenMentions(a) = {} => writes'[s] = CatchUpWrites(a)'
    BY <2>4, <2>5 DEF CatchUpWrites
  <2>7. UnseenMentions(a) = {} => JournalCommit(s)'
    BY <2>6 DEF JournalCommit
  <2>8. Journal(s)'
    BY <2>3, <2>4, <2>7 DEF Journal
  <2> HIDE DEF next
  <2> QED
    BY <1>2, <2>1, <2>8, StatementKeepsJournal
<1>4. CASE MarkMentions(s)
  <2> DEFINE next == [pc |-> "commit"]
  <2>1. /\ txn[s].pc = "markMentions" /\ Statement(s, next, SeenWrites(a))
        /\ UNCHANGED clock /\ Active(s)
    BY <1>4 DEF MarkMentions, SeenWrites, Active
  <2>2. writes[s] = ReturnWrites(WithNews(a)) \union GaveWrites(a)
    BY <2>1 DEF JournalInv, Journal
  <2>3. /\ writes'[s] = writes[s] \union SeenWrites(a) /\ txn'[s] = next
        /\ UNCHANGED <<rows, threadWatches, lastReadAt, mentions, seenMentions>>
    BY <2>1, StatementEffect
  <2>4. writes'[s] = CatchUpWrites(a)'
    BY <2>2, <2>3, CatchUpTablesStand DEF CatchUpWrites
  <2>5. JournalCommit(s)'
    BY <2>4 DEF JournalCommit
  <2>6. Journal(s)'
    BY <2>3, <2>5 DEF Journal
  <2> HIDE DEF next
  <2> QED
    BY <1>2, <2>1, <2>6, StatementKeepsJournal
<1> QED
  BY <1>3, <1>4

------------------------------------------------------------------------------
(* What a COMMIT does to the tables.                                       *)

\* The calls, on the tables of BoardTx.
Posted(a, t, X, M, at, opens) ==
    /\ Fresh(at) /\ at <= clock
    /\ rows' = Append(rows, [at |-> at, thread |-> t, author |-> a, opens |-> opens])
    /\ watchers' = watchers \union ((X \union {a}) \X {t})
    /\ threadWatches' = threadWatches \union ((X \union {a}) \X {t})
    /\ lastReadAt' = [lastReadAt EXCEPT ![<<a, t>>] = at]
    /\ mentions' = mentions \union ({at} \X (M \ {a}))
    /\ UNCHANGED <<seenMentions, returned>>

Watched(p) ==
    /\ watchers' = watchers \union {p}
    /\ threadWatches' = threadWatches \union {p}
    /\ UNCHANGED <<rows, lastReadAt, mentions, seenMentions, returned>>

Unwatched(p) ==
    /\ watchers' = watchers \ {p}
    /\ threadWatches' = threadWatches \ {p}
    /\ lastReadAt' = [lastReadAt EXCEPT ![p] = 0]
    /\ returned' = [returned EXCEPT ![p] = {}]
    /\ UNCHANGED <<rows, mentions, seenMentions>>

CaughtUp(a) ==
    /\ lastReadAt' = [p \in Pairs |->
          IF p \in WithNews(a) THEN LatestOf(News(p)) ELSE lastReadAt[p]]
    /\ returned' = [p \in Pairs |->
          IF p \in WithNews(a) THEN returned[p] \union News(p) ELSE returned[p]]
    /\ seenMentions' = seenMentions \union UnseenMentions(a)
    /\ UNCHANGED <<rows, watchers, threadWatches, mentions>>

Called(a) ==
    \/ \E t \in Threads, M \in SUBSET Actors, at \in 1 .. MaxPosts :
          ~Exists(t) /\ Posted(a, t, {}, M, at, TRUE)
    \/ \E t \in Threads, X, M \in SUBSET Actors, at \in 1 .. MaxPosts :
          Exists(t) /\ Posted(a, t, X, M, at, FALSE)
    \/ \E t \in Threads : Exists(t) /\ Watched(<<a, t>>)
    \/ \E t \in Threads : Unwatched(<<a, t>>)
    \/ CaughtUp(a)

\* What is written of a kind.
LEMMA Wrote ==
    ASSUME NEW s, NEW kind, NEW p, NEW v,
           <<kind, p>> \in writes[s] \/ <<kind, p, v>> \in writes[s]
    PROVE  p \in Written(s, kind)
<1>1. CASE <<kind, p>> \in writes[s]
  <2>1. <<kind, p>>[1] = kind /\ <<kind, p>>[2] = p
    OBVIOUS
  <2> QED
    BY <1>1, <2>1, WrittenMeans
<1>2. CASE <<kind, p, v>> \in writes[s]
  <2>1. <<kind, p, v>>[1] = kind /\ <<kind, p, v>>[2] = p
    OBVIOUS
  <2> QED
    BY <1>2, <2>1, WrittenMeans
<1> QED
  BY <1>1, <1>2

LEMMA WrittenIs ==
    ASSUME NEW s, NEW kind, NEW S,
           \A w \in writes[s] : w[1] = kind => w[2] \in S,
           S \subseteq Written(s, kind)
    PROVE  Written(s, kind) = S
  BY DEF Written

\* The writes of a post by their kinds.
PostWritesByKind(W, post, own, at, A, E, B) ==
    /\ <<"post", post>> \in W /\ <<"cursor", own, at>> \in W
    /\ \A p \in A : <<"watcher+", p>> \in W
    /\ \A p \in E : <<"cursor", p, 0>> \in W
    /\ \A b \in B : <<"mention", <<at, b>>>> \in W
    /\ \A w \in W :
          /\ w[1] = "post" => w[2] = post
          /\ w[1] = "watcher+" => w[2] \in A
          /\ w[1] = "cursor" => (w[2] = own /\ w[3] = at) \/ (w[2] \in E /\ w[3] = 0)
          /\ w[1] = "mention" => w[2] \in {at} \X B
          /\ w[1] \in {"post", "watcher+", "cursor", "mention"}

LEMMA PostWritesAre ==
    ASSUME NEW a, NEW t, NEW X, NEW M, NEW at, NEW opens, NEW W, NEW post, NEW own, NEW A, NEW E,
           NEW B, W = PostWrites(a, t, X, M, at, opens),
           post = [at |-> at, thread |-> t, author |-> a, opens |-> opens],
           own = <<a, t>>, A = ((X \union {a}) \X {t}) \ watchers,
           E = ((X \X {t}) \ {own}) \ threadWatches, B = M \ {a}
    PROVE  PostWritesByKind(W, post, own, at, A, E, B)
<1>3. W = {<<"post", post>>} \union {<<"watcher+", p>> : p \in A}
               \union {<<"cursor", own, at>>} \union {<<"cursor", p, 0>> : p \in E}
               \union {<<"mention", <<at, b>>>> : b \in B}
  BY DEF PostWrites, PostWrite, WatcherWrites, CursorWrites, MentionRows
<1>4. /\ <<"post", post>> \in W /\ <<"cursor", own, at>> \in W
      /\ \A p \in A : <<"watcher+", p>> \in W
      /\ \A p \in E : <<"cursor", p, 0>> \in W
      /\ \A b \in B : <<"mention", <<at, b>>>> \in W
  BY <1>3
<1>1. \A w \in W : \/ w = <<"post", post>> \/ \E p \in A : w = <<"watcher+", p>>
                   \/ w = <<"cursor", own, at>> \/ \E p \in E : w = <<"cursor", p, 0>>
                   \/ \E b \in B : w = <<"mention", <<at, b>>>>
  BY <1>3
<1>2. ASSUME NEW w, \/ w = <<"post", post>> \/ \E p \in A : w = <<"watcher+", p>>
                    \/ w = <<"cursor", own, at>> \/ \E p \in E : w = <<"cursor", p, 0>>
                    \/ \E b \in B : w = <<"mention", <<at, b>>>>
      PROVE  /\ w[1] = "post" => w[2] = post
             /\ w[1] = "watcher+" => w[2] \in A
             /\ w[1] = "cursor" => (w[2] = own /\ w[3] = at) \/ (w[2] \in E /\ w[3] = 0)
             /\ w[1] = "mention" => w[2] \in {at} \X B
             /\ w[1] \in {"post", "watcher+", "cursor", "mention"}
  BY <1>2
<1> QED
  BY <1>1, <1>2, <1>4 DEF PostWritesByKind

\* A post commits together with its thread's watches and its mentions.
LEMMA PostCommits ==
    ASSUME ShapeInv, StampsInv, NEW s \in Sessions, Commit(s), NEW a \in Actors,
           NEW t \in Threads, NEW X \in SUBSET Actors, NEW M \in SUBSET Actors,
           NEW at \in 1 .. MaxPosts, NEW opens \in BOOLEAN, Fresh(at),
           writes[s] = PostWrites(a, t, X, M, at, opens)
    PROVE  Posted(a, t, X, M, at, opens)
<1>1. PICK own, post, A, E, B :
         /\ own = <<a, t>>
         /\ post = [at |-> at, thread |-> t, author |-> a, opens |-> opens]
         /\ A = ((X \union {a}) \X {t}) \ watchers
         /\ E = ((X \X {t}) \ {own}) \ threadWatches
         /\ B = M \ {a}
  OBVIOUS
<1>2. PICK W : W = writes[s] /\ W = PostWrites(a, t, X, M, at, opens)
  OBVIOUS
<1>3. PostWritesByKind(W, post, own, at, A, E, B)
  BY ONLY <1>1, <1>2, PostWritesAre
<1>4. /\ <<"post", post>> \in writes[s] /\ <<"cursor", own, at>> \in writes[s]
      /\ \A p \in A : <<"watcher+", p>> \in writes[s]
      /\ \A p \in E : <<"cursor", p, 0>> \in writes[s]
      /\ \A b \in B : <<"mention", <<at, b>>>> \in writes[s]
      /\ \A w \in writes[s] :
            /\ w[1] = "post" => w[2] = post
            /\ w[1] = "watcher+" => w[2] \in A
            /\ w[1] = "cursor" => (w[2] = own /\ w[3] = at) \/ (w[2] \in E /\ w[3] = 0)
            /\ w[1] = "mention" => w[2] \in {at} \X B
            /\ w[1] \in {"post", "watcher+", "cursor", "mention"}
  BY ONLY <1>2, <1>3 DEF PostWritesByKind
<1>5. Written(s, "post") = {post} /\ at <= clock
  <2>1. post \in Written(s, "post")
    BY <1>4, Wrote
  <2>2. {post} \subseteq Written(s, "post")
    BY <2>1
  <2>3. \E w \in writes[s] : w[1] = "post" /\ w[2] = post
    BY <2>1, WrittenMeans
  <2>4. post.at <= clock
    BY <2>3 DEF ShapeInv, WriteOK
  <2>5. \A w \in writes[s] : w[1] = "post" => w[2] \in {post}
    BY <1>4
  <2>6. Written(s, "post") = {post}
    <3>1. \A x \in Written(s, "post") : x = post
      BY <2>5 DEF Written
    <3> QED
      BY <2>1, <3>1
  <2> QED
    BY <1>1, <2>4, <2>6
<1>6. Written(s, "watcher+") = A
  <2>1. A \subseteq Written(s, "watcher+")
    BY <1>4, Wrote
  <2>2. \A w \in writes[s] : w[1] = "watcher+" => w[2] \in A
    BY <1>4
  <2> QED
    BY <2>1, <2>2, WrittenIs
<1>7. Written(s, "cursor") = {own} \union E
  <2>1. {own} \union E \subseteq Written(s, "cursor")
    BY <1>4, Wrote
  <2>2. \A w \in writes[s] : w[1] = "cursor" => w[2] \in {own} \union E
    BY <1>4
  <2> QED
    BY <2>1, <2>2, WrittenIs
<1>8. Written(s, "mention") = {at} \X B
  <2>1. ASSUME NEW m \in {at} \X B PROVE m \in Written(s, "mention")
    <3>1. PICK b \in B : m = <<at, b>>
      OBVIOUS
    <3> QED
      BY <1>4, <3>1, Wrote
  <2>2. \A w \in writes[s] : w[1] = "mention" => w[2] \in {at} \X B
    BY <1>4
  <2>3. {at} \X B \subseteq Written(s, "mention")
    BY <2>1
  <2> QED
    BY <2>2, <2>3, WrittenIs
<1>9. /\ Written(s, "watcher-") = {} /\ Written(s, "cursor-") = {}
      /\ Written(s, "seen") = {} /\ {w \in writes[s] : w[1] = "returned"} = {}
  BY <1>4 DEF Written
<1>10. rows' = Append(rows, post)
  <2>1. (CHOOSE p \in Written(s, "post") : TRUE) = post
    BY <1>5
  <2> QED
    BY <1>5, <2>1 DEF Commit
<1>11. watchers' = watchers \union ((X \union {a}) \X {t})
  BY <1>1, <1>6, <1>9 DEF Commit
<1>12. threadWatches' = threadWatches \union ((X \union {a}) \X {t})
  <2>1. threadWatches' = threadWatches \union ({own} \union E)
    BY <1>7, <1>9 DEF Commit
  <2> QED
    BY <1>1, <2>1
<1>13. mentions' = mentions \union ({at} \X (M \ {a})) /\ seenMentions' = seenMentions
  BY <1>1, <1>8, <1>9 DEF Commit
<1>14. returned' = returned
  <2>1. returned \in [Pairs -> SUBSET (1 .. MaxPosts)]
    BY DEF ShapeInv
  <2>2. returned' = [p \in Pairs |-> returned[p] \union UNION {w[3] : w \in {}}]
    BY <1>9 DEF Commit
  <2> QED
    BY <2>1, <2>2
<1>15. lastReadAt' = [lastReadAt EXCEPT ![<<a, t>>] = at]
  <2>1. lastReadAt \in [Pairs -> 0 .. MaxPosts] /\ own \in Pairs
    BY <1>1 DEF ShapeInv, TypeOK, Pairs
  <2>2. lastReadAt' = [p \in Pairs |-> lastReadAt'[p]]
    BY DEF Commit
  <2>3. ASSUME NEW p \in Pairs PROVE lastReadAt'[p] = IF p = own THEN at ELSE lastReadAt[p]
    <3>1. ~ \E w \in writes[s] : w[1] = "cursor-" /\ w[2] = p
      BY <1>4
    <3>2. p \in E => lastReadAt[p] = 0 /\ p # own
      BY <1>1 DEF StampsInv
    <3>3. \/ lastReadAt'[p] = lastReadAt[p] /\ p \notin Written(s, "cursor")
          \/ \E w \in writes[s] : w[1] = "cursor" /\ w[2] = p /\ lastReadAt'[p] = w[3]
      BY <3>1, CommitEffect, WrittenMeans
    <3>4. CASE p = own
      <4>1. p \in Written(s, "cursor")
        BY <1>7, <3>4
      <4>2. \A w \in writes[s] : w[1] = "cursor" /\ w[2] = p => w[3] = at
        BY <1>4, <3>2, <3>4
      <4> QED
        BY <3>4, <3>3, <4>1, <4>2
    <3>5. CASE p # own
      <4>1. \A w \in writes[s] : w[1] = "cursor" /\ w[2] = p => w[3] = lastReadAt[p]
        BY <1>4, <3>2, <3>5
      <4> QED
        BY <3>5, <3>3, <4>1
    <3> QED
      BY <3>4, <3>5
  <2> QED
    BY <1>1, <2>1, <2>2, <2>3
<1> QED
  BY <1>1, <1>5, <1>10, <1>11, <1>12, <1>13, <1>14, <1>15 DEF Posted

LEMMA WatchCommits ==
    ASSUME ShapeInv, StampsInv, NEW s \in Sessions, Commit(s), NEW p \in Pairs,
           writes[s] = WatchWrites(p)
    PROVE  Watched(p)
<1>1. PICK A, E : A = {p} \ watchers /\ E = {p} \ threadWatches
  OBVIOUS
<1>2. writes[s] = {<<"watcher+", q>> : q \in A} \union {<<"cursor", q, 0>> : q \in E}
  BY <1>1 DEF WatchWrites, WatcherWrites, CursorWrites
<1>3. /\ \A q \in A : <<"watcher+", q>> \in writes[s]
      /\ \A q \in E : <<"cursor", q, 0>> \in writes[s]
      /\ \A w \in writes[s] :
            /\ w[1] = "watcher+" => w[2] \in A
            /\ w[1] = "cursor" => w[2] \in E /\ w[3] = 0
            /\ w[1] \in {"watcher+", "cursor"}
  BY ONLY <1>2
<1>4. Written(s, "watcher+") = A /\ Written(s, "cursor") = E
  <2>1. A \subseteq Written(s, "watcher+") /\ E \subseteq Written(s, "cursor")
    BY <1>3, Wrote
  <2>2. \A w \in writes[s] : w[1] = "watcher+" => w[2] \in A
    BY <1>3
  <2>3. \A w \in writes[s] : w[1] = "cursor" => w[2] \in E
    BY <1>3
  <2> QED
    BY <2>1, <2>2, <2>3, WrittenIs
<1>5. /\ Written(s, "post") = {} /\ Written(s, "mention") = {}
      /\ Written(s, "watcher-") = {} /\ Written(s, "cursor-") = {}
      /\ Written(s, "seen") = {} /\ {w \in writes[s] : w[1] = "returned"} = {}
  BY <1>3 DEF Written
<1>6. UNCHANGED <<rows, mentions, seenMentions>>
  BY <1>5 DEF Commit
<1>7. watchers' = watchers \union {p} /\ threadWatches' = threadWatches \union {p}
  <2>1. watchers' = watchers \union A /\ threadWatches' = threadWatches \union E
    BY <1>4, <1>5 DEF Commit
  <2> QED
    BY <1>1, <2>1
<1>8. returned' = returned
  <2>1. returned \in [Pairs -> SUBSET (1 .. MaxPosts)]
    BY DEF ShapeInv
  <2>2. returned' = [q \in Pairs |-> returned[q] \union UNION {w[3] : w \in {}}]
    BY <1>5 DEF Commit
  <2> QED
    BY <2>1, <2>2
<1>9. lastReadAt' = lastReadAt
  <2>1. lastReadAt \in [Pairs -> 0 .. MaxPosts]
    BY DEF ShapeInv, TypeOK
  <2>2. lastReadAt' = [q \in Pairs |-> lastReadAt'[q]]
    BY DEF Commit
  <2>3. ASSUME NEW q \in Pairs PROVE lastReadAt'[q] = lastReadAt[q]
    <3>1. ~ \E w \in writes[s] : w[1] = "cursor-" /\ w[2] = q
      BY <1>3
    <3>2. \A w \in writes[s] : w[1] = "cursor" /\ w[2] = q => w[3] = lastReadAt[q]
      BY <1>1, <1>3 DEF StampsInv
    <3>3. \/ lastReadAt'[q] = lastReadAt[q]
          \/ \E w \in writes[s] : w[1] = "cursor" /\ w[2] = q /\ lastReadAt'[q] = w[3]
      BY <3>1, CommitEffect
    <3> QED
      BY <3>2, <3>3
  <2> QED
    BY <2>1, <2>2, <2>3
<1> QED
  BY <1>6, <1>7, <1>8, <1>9 DEF Watched

LEMMA UnwatchCommits ==
    ASSUME ShapeInv, StampsInv, NEW s \in Sessions, Commit(s), NEW p \in Pairs,
           writes[s] = UnwatchWrites(p)
    PROVE  Unwatched(p)
<1>1. PICK A, E : /\ A = {p} \intersect watchers
                     /\ E = {p} \intersect threadWatches
  OBVIOUS
<1>2. writes[s] = {<<"watcher-", q>> : q \in A} \union {<<"cursor-", q>> : q \in E}
  BY <1>1 DEF UnwatchWrites
<1>3. /\ \A q \in A : <<"watcher-", q>> \in writes[s]
      /\ \A q \in E : <<"cursor-", q>> \in writes[s]
      /\ \A w \in writes[s] :
            /\ w[1] = "watcher-" => w[2] \in A
            /\ w[1] = "cursor-" => w[2] \in E
            /\ w[1] \in {"watcher-", "cursor-"}
  BY ONLY <1>2
<1>4. Written(s, "watcher-") = A /\ Written(s, "cursor-") = E
  <2>1. A \subseteq Written(s, "watcher-") /\ E \subseteq Written(s, "cursor-")
    BY <1>3, Wrote
  <2>2. \A w \in writes[s] : w[1] = "watcher-" => w[2] \in A
    BY <1>3
  <2>3. \A w \in writes[s] : w[1] = "cursor-" => w[2] \in E
    BY <1>3
  <2> QED
    BY <2>1, <2>2, <2>3, WrittenIs
<1>5. /\ Written(s, "post") = {} /\ Written(s, "mention") = {}
      /\ Written(s, "watcher+") = {} /\ Written(s, "cursor") = {}
      /\ Written(s, "seen") = {} /\ {w \in writes[s] : w[1] = "returned"} = {}
  BY <1>3 DEF Written
<1>6. UNCHANGED <<rows, mentions, seenMentions>>
  BY <1>5 DEF Commit
<1>7. watchers' = watchers \ {p} /\ threadWatches' = threadWatches \ {p}
  <2>1. watchers' = watchers \ A /\ threadWatches' = threadWatches \ E
    BY <1>4, <1>5 DEF Commit
  <2> QED
    BY <1>1, <2>1
<1>8. returned' = [returned EXCEPT ![p] = {}]
  <2>1. returned \in [Pairs -> SUBSET (1 .. MaxPosts)]
    BY DEF ShapeInv
  <2>2. returned' = [q \in Pairs |-> IF q \in E THEN {}
                                    ELSE returned[q] \union UNION {w[3] : w \in {}}]
    BY <1>4, <1>5 DEF Commit
  <2>3. \A q \in Pairs : returned'[q] = IF q = p THEN {} ELSE returned[q]
    BY <1>1, <2>1, <2>2 DEF StampsInv
  <2> QED
    BY <2>1, <2>2, <2>3
<1>9. lastReadAt' = [lastReadAt EXCEPT ![p] = 0]
  <2>1. lastReadAt \in [Pairs -> 0 .. MaxPosts]
    BY DEF ShapeInv, TypeOK
  <2>2. lastReadAt' = [q \in Pairs |-> IF q \in E THEN 0 ELSE lastReadAt[q]]
    BY <1>4, <1>5 DEF Commit
  <2>3. \A q \in Pairs : lastReadAt'[q] = IF q = p THEN 0 ELSE lastReadAt[q]
    BY <1>1, <2>2 DEF StampsInv
  <2> QED
    BY <2>1, <2>2, <2>3
<1> QED
  BY <1>6, <1>7, <1>8, <1>9 DEF Unwatched

LEMMA CatchUpCommits ==
    ASSUME ShapeInv, StampsInv, NEW s \in Sessions, Commit(s), NEW a \in Actors,
           writes[s] = CatchUpWrites(a)
    PROVE  CaughtUp(a)
<1>1. PICK P, U : P = WithNews(a) /\ U = UnseenMentions(a)
  OBVIOUS
<1>2. writes[s] = {<<"cursor", p, LatestOf(News(p))>> : p \in P}
          \union {<<"returned", p, News(p)>> : p \in P}
          \union {<<"gaveMention", m>> : m \in U} \union {<<"seen", m>> : m \in U}
  BY <1>1 DEF CatchUpWrites, ReturnWrites, GaveWrites, SeenWrites
<1>3. /\ \A p \in P : <<"cursor", p, LatestOf(News(p))>> \in writes[s]
      /\ \A p \in P : <<"returned", p, News(p)>> \in writes[s]
      /\ \A m \in U : <<"seen", m>> \in writes[s]
      /\ \A w \in writes[s] :
            /\ w[1] = "cursor" => w[2] \in P /\ w[3] = LatestOf(News(w[2]))
            /\ w[1] = "returned" => w[2] \in P /\ w[3] = News(w[2])
            /\ w[1] = "seen" => w[2] \in U
            /\ w[1] \in {"cursor", "returned", "gaveMention", "seen"}
  BY ONLY <1>2
<1>4. Written(s, "cursor") = P /\ Written(s, "seen") = U
  <2>1. P \subseteq Written(s, "cursor") /\ U \subseteq Written(s, "seen")
    BY <1>3, Wrote
  <2>2. \A w \in writes[s] : w[1] = "cursor" => w[2] \in P
    BY <1>3
  <2>3. \A w \in writes[s] : w[1] = "seen" => w[2] \in U
    BY <1>3
  <2> QED
    BY <2>1, <2>2, <2>3, WrittenIs
<1>5. /\ Written(s, "post") = {} /\ Written(s, "mention") = {}
      /\ Written(s, "watcher+") = {} /\ Written(s, "watcher-") = {}
      /\ Written(s, "cursor-") = {}
  BY <1>3 DEF Written
<1>6. UNCHANGED <<rows, watchers, mentions>> /\ seenMentions' = seenMentions \union U
  BY <1>4, <1>5 DEF Commit
<1>7. threadWatches' = threadWatches
  <2>1. P \subseteq threadWatches
    BY <1>1 DEF WithNews
  <2> QED
    BY <1>4, <1>5, <2>1 DEF Commit
<1>8. ASSUME NEW p \in Pairs
      PROVE  /\ lastReadAt'[p] = IF p \in P THEN LatestOf(News(p)) ELSE lastReadAt[p]
             /\ returned'[p] = IF p \in P THEN returned[p] \union News(p) ELSE returned[p]
  <2>1. ~ \E w \in writes[s] : w[1] = "cursor-" /\ w[2] = p
    BY <1>3
  <2>2. \/ lastReadAt'[p] = lastReadAt[p] /\ p \notin Written(s, "cursor")
        \/ \E w \in writes[s] : w[1] = "cursor" /\ w[2] = p /\ lastReadAt'[p] = w[3]
    BY <2>1, CommitEffect, WrittenMeans
  <2>3. \A w \in writes[s] : w[1] = "cursor" /\ w[2] = p => p \in P /\ w[3] = LatestOf(News(p))
    BY <1>3
  <2>4. lastReadAt'[p] = IF p \in P THEN LatestOf(News(p)) ELSE lastReadAt[p]
    BY <1>4, <2>2, <2>3
  <2>5. \A r : r \in returned'[p] <=>
           \/ r \in returned[p]
           \/ \E w \in writes[s] : w[1] = "returned" /\ w[2] = p /\ r \in w[3]
    BY <2>1, CommitEffect
  <2>6. \A w \in writes[s] : w[1] = "returned" /\ w[2] = p => p \in P /\ w[3] = News(p)
    BY <1>3
  <2>7. p \in P => \E w \in writes[s] : w[1] = "returned" /\ w[2] = p /\ w[3] = News(p)
    <3> HAVE p \in P
    <3>1. <<"returned", p, News(p)>> \in writes[s]
      BY <1>3
    <3>2. /\ <<"returned", p, News(p)>>[1] = "returned" /\ <<"returned", p, News(p)>>[2] = p
          /\ <<"returned", p, News(p)>>[3] = News(p)
      OBVIOUS
    <3> QED
      BY <3>1, <3>2
  <2>8. \A r : r \in returned'[p] <=> r \in returned[p] \/ (p \in P /\ r \in News(p))
    BY <2>5, <2>6, <2>7
  <2>9. returned'[p] = IF p \in P THEN returned[p] \union News(p) ELSE returned[p]
    BY <2>8
  <2> QED
    BY <2>4, <2>9
<1>9. /\ lastReadAt' = [p \in Pairs |-> lastReadAt'[p]]
      /\ returned' = [p \in Pairs |-> returned'[p]]
  BY DEF Commit
<1> QED
  BY <1>1, <1>6, <1>7, <1>8, <1>9 DEF CaughtUp

\* Whatever commits is a call.
LEMMA CommitIsACall ==
    ASSUME ShapeInv, JournalInv, NEW s \in Sessions, Commit(s)
    PROVE  Called(ActorOf[s])
<1> DEFINE a == ActorOf[s]
<1>1. a \in Actors /\ JournalCommit(s) /\ StampsInv
  BY ConstantsAssumption DEF JournalInv, Journal, Commit
<1>2. CASE \E t \in Threads, M \in SUBSET Actors, at \in 1 .. MaxPosts :
              ~Exists(t) /\ Fresh(at) /\ writes[s] = PostWrites(a, t, {}, M, at, TRUE)
  BY <1>1, <1>2, PostCommits DEF Called
<1>3. CASE \E t \in Threads, X, M \in SUBSET Actors, at \in 1 .. MaxPosts :
              Exists(t) /\ Fresh(at) /\ writes[s] = PostWrites(a, t, X, M, at, FALSE)
  BY <1>1, <1>3, PostCommits DEF Called
<1>4. CASE \E t \in Threads :
              Exists(t) /\ writes[s] = WatchWrites(<<a, t>>)
  <2>1. PICK t \in Threads : Exists(t) /\ writes[s] = WatchWrites(<<a, t>>)
    BY <1>4
  <2>2. PICK p \in Pairs : p = <<a, t>>
    BY <1>1 DEF Pairs
  <2> QED
    BY <1>1, <2>1, <2>2, WatchCommits DEF Called
<1>5. CASE \E t \in Threads : writes[s] = UnwatchWrites(<<a, t>>)
  <2>1. PICK t \in Threads : writes[s] = UnwatchWrites(<<a, t>>)
    BY <1>5
  <2>2. PICK p \in Pairs : p = <<a, t>>
    BY <1>1 DEF Pairs
  <2> QED
    BY <1>1, <2>1, <2>2, UnwatchCommits DEF Called
<1>6. CASE writes[s] = CatchUpWrites(a)
  BY <1>1, <1>6, CatchUpCommits DEF Called
<1> QED
  BY <1>1, <1>2, <1>3, <1>4, <1>5, <1>6 DEF JournalCommit

------------------------------------------------------------------------------
(* The calls keep the order of the stamps.                                 *)

\* A new row is the last one.
LEMMA PostedRows ==
    ASSUME ShapeInv, NEW a \in Actors, NEW t \in Threads, NEW X, NEW M, NEW at \in 1 .. MaxPosts,
           NEW opens \in BOOLEAN, Posted(a, t, X, M, at, opens)
    PROVE  /\ Len(rows) \in Nat /\ DOMAIN rows = 1 .. Len(rows)
           /\ Len(rows') = Len(rows) + 1 /\ DOMAIN rows' = 1 .. (Len(rows) + 1)
           /\ \A i \in DOMAIN rows : rows'[i] = rows[i]
           /\ rows'[Len(rows) + 1] = [at |-> at, thread |-> t, author |-> a, opens |-> opens]
           /\ rows' \in Seq(Post)
<1> DEFINE post == [at |-> at, thread |-> t, author |-> a, opens |-> opens]
<1>1. rows \in Seq(Post) /\ rows' = Append(rows, post) /\ post \in Post
  BY DEF ShapeInv, TypeOK, Posted, Post
<1> HIDE DEF post
<1>2. /\ Len(rows) \in Nat /\ DOMAIN rows = 1 .. Len(rows)
      /\ Len(rows') = Len(rows) + 1 /\ DOMAIN rows' = 1 .. (Len(rows) + 1)
      /\ \A i \in DOMAIN rows : rows'[i] = rows[i]
      /\ rows'[Len(rows) + 1] = post
      /\ rows' \in Seq(Post)
  BY <1>1
<1> QED
  BY <1>2 DEF post

\* The replies after a cursor carry stamps of rows; their latest is one of them.
LEMMA NewsAreStamped ==
    ASSUME ShapeInv, NEW p
    PROVE  /\ News(p) \in SUBSET (1 .. MaxPosts)
           /\ \A r \in News(p) : Stamped(rows, r)
           /\ News(p) # {} =>
                LatestOf(News(p)) \in News(p) /\ \A r \in News(p) : r <= LatestOf(News(p))
<1>1. \A r \in News(p) : \E i \in DOMAIN rows : rows[i].at = r
  BY DEF News, RepliesAfter
<1>2. News(p) \in SUBSET (1 .. MaxPosts)
  BY <1>1, RowsArePosts
<1>3. MaxPosts \in Nat
  BY ConstantsAssumption
<1>4. News(p) # {} => LatestOf(News(p)) \in News(p) /\ \A r \in News(p) : r <= LatestOf(News(p))
  BY <1>2, <1>3, LatestIsMaximum DEF LatestOf
<1> QED
  BY <1>1, <1>2, <1>4 DEF Stamped

LEMMA PostedKeepsStamps ==
    ASSUME ShapeInv, StampsInv, UNCHANGED clock, NEW a \in Actors, NEW t \in Threads,
           NEW X \in SUBSET Actors, NEW M \in SUBSET Actors, NEW at \in 1 .. MaxPosts,
           NEW opens \in BOOLEAN, Posted(a, t, X, M, at, opens)
    PROVE  StampsInv'
<1> DEFINE n == Len(rows)
<1>2. /\ n \in Nat /\ DOMAIN rows = 1 .. n
      /\ Len(rows') = n + 1 /\ DOMAIN rows' = 1 .. (n + 1)
      /\ \A i \in DOMAIN rows : rows'[i] = rows[i]
      /\ rows'[n + 1].at = at
  <2>1. [at |-> at, thread |-> t, author |-> a, opens |-> opens].at = at
    OBVIOUS
  <2> QED
    BY <2>1, PostedRows
<1>3. /\ n < at /\ at <= clock /\ \A i \in DOMAIN rows : rows[i].at < at
      /\ lastReadAt' = [lastReadAt EXCEPT ![<<a, t>>] = at]
      /\ mentions' = mentions \union ({at} \X (M \ {a}))
      /\ watchers' = watchers \union ((X \union {a}) \X {t})
      /\ threadWatches' = threadWatches \union ((X \union {a}) \X {t})
      /\ returned' = returned
  BY DEF Posted, Fresh
<1> HIDE DEF n
<1>4. (\A i, j \in DOMAIN rows : i < j => rows[i].at < rows[j].at)'
  BY <1>2, <1>3 DEF StampsInv
<1>5. (Len(rows) <= clock)'
  <2>1. clock \in Nat
    BY DEF ShapeInv, TypeOK
  <2> QED
    BY <1>2, <1>3, <2>1
<1>6. \A r : Stamped(rows, r) => Stamped(rows', r)
  BY <1>2 DEF Stamped
<1>7. Stamped(rows', at)
  BY <1>2 DEF Stamped
<1>8. ASSUME NEW p \in Pairs PROVE lastReadAt'[p] = 0 \/ Stamped(rows', lastReadAt'[p])
  <2>1. p = <<a, t>> => lastReadAt'[p] = at
    BY <1>3, <1>8 DEF ShapeInv, TypeOK
  <2>2. p # <<a, t>> => lastReadAt'[p] = lastReadAt[p]
    BY <1>3, <1>8 DEF ShapeInv, TypeOK
  <2> QED
    BY <1>6, <1>7, <2>1, <2>2 DEF StampsInv, Stamped
<1>9. mentions' \subseteq (1 .. MaxPosts) \X Actors
  BY <1>3 DEF StampsInv
<1>10. \A p \in Pairs \ threadWatches' : lastReadAt'[p] = 0 /\ returned'[p] = {}
  <2> TAKE p \in Pairs \ threadWatches'
  <2>1. p \notin threadWatches /\ p # <<a, t>>
    BY <1>3
  <2> QED
    BY <1>3, <2>1 DEF StampsInv, ShapeInv, TypeOK
<1>11. \A p \in Pairs : \A r \in returned'[p] : Stamped(rows', r)
  BY <1>3, <1>6 DEF StampsInv
<1>12. watchers' = threadWatches'
  BY <1>3 DEF StampsInv, WatchTablesAgree
<1> QED
  BY <1>4, <1>5, <1>8, <1>9, <1>10, <1>11, <1>12 DEF StampsInv, WatchTablesAgree, Pairs, Stamped

LEMMA OtherCallsKeepStamps ==
    ASSUME ShapeInv, StampsInv, UNCHANGED clock,
           \/ \E p \in Pairs : Watched(p)
           \/ \E p \in Pairs : Unwatched(p)
           \/ \E a \in Actors : CaughtUp(a)
    PROVE  StampsInv'
<1>1. CASE \E p \in Pairs : Watched(p)
  BY <1>1 DEF Watched, StampsInv, WatchTablesAgree, Pairs, Stamped
<1>2. CASE \E p \in Pairs : Unwatched(p)
  <2>1. PICK p \in Pairs : Unwatched(p)
    BY <1>2
  <2>2. /\ UNCHANGED <<rows, mentions>>
        /\ watchers' = watchers \ {p} /\ threadWatches' = threadWatches \ {p}
        /\ \A q \in Pairs : /\ lastReadAt'[q] = IF q = p THEN 0 ELSE lastReadAt[q]
                            /\ returned'[q] = IF q = p THEN {} ELSE returned[q]
    BY <2>1 DEF Unwatched, ShapeInv, TypeOK
  <2> QED
    BY <2>2 DEF StampsInv, WatchTablesAgree, Pairs, Stamped
<1>3. CASE \E a \in Actors : CaughtUp(a)
  <2>1. PICK a \in Actors : CaughtUp(a)
    BY <1>3
  <2>2. /\ UNCHANGED <<rows, mentions, watchers, threadWatches>>
        /\ \A p \in Pairs :
              /\ lastReadAt'[p] = IF p \in WithNews(a) THEN LatestOf(News(p)) ELSE lastReadAt[p]
              /\ returned'[p] = IF p \in WithNews(a) THEN returned[p] \union News(p)
                                ELSE returned[p]
    BY <2>1 DEF CaughtUp
  <2>3. \A p \in WithNews(a) : p \in threadWatches /\ News(p) # {}
    BY DEF WithNews
  <2>4. \A r : Stamped(rows, r) => Stamped(rows', r)
    BY <2>2 DEF Stamped
  <2>5. ASSUME NEW p \in Pairs
        PROVE  /\ lastReadAt'[p] = 0 \/ Stamped(rows', lastReadAt'[p])
               /\ \A r \in returned'[p] : Stamped(rows', r)
               /\ p \notin threadWatches => lastReadAt'[p] = 0 /\ returned'[p] = {}
    <3>1. lastReadAt[p] = 0 \/ Stamped(rows, lastReadAt[p])
      BY DEF StampsInv
    <3>2. CASE p \in WithNews(a)
      <4>1. lastReadAt'[p] = LatestOf(News(p)) /\ returned'[p] = returned[p] \union News(p)
            /\ p \in threadWatches /\ News(p) # {}
        BY <2>2, <2>3, <3>2
      <4>2. LatestOf(News(p)) \in News(p) /\ \A r \in News(p) : Stamped(rows, r)
        BY <4>1, NewsAreStamped
      <4>3. \A r \in returned[p] : Stamped(rows, r)
        BY DEF StampsInv
      <4> QED
        BY <2>4, <4>1, <4>2, <4>3
    <3>3. CASE p \notin WithNews(a)
      BY <2>2, <2>4, <3>1, <3>3 DEF StampsInv, Stamped
    <3> QED
      BY <3>2, <3>3
  <2> QED
    BY <2>2, <2>5 DEF StampsInv, WatchTablesAgree, Pairs, Stamped
<1> QED
  BY <1>1, <1>2, <1>3

LEMMA CallKeepsStamps ==
    ASSUME ShapeInv, StampsInv, UNCHANGED clock, NEW a \in Actors, Called(a)
    PROVE  StampsInv'
<1>1. \A t \in Threads : <<a, t>> \in Pairs
  BY DEF Pairs
<1> QED
  BY <1>1, PostedKeepsStamps, OtherCallsKeepStamps DEF Called

LEMMA EndsKeepJournal ==
    ASSUME ShapeInv, JournalInv, Backend = "sqlite", NEW s \in Sessions, Commit(s) \/ Rollback(s)
    PROVE  JournalInv'
<1>1. txn' = [txn EXCEPT ![s] = Idle] /\ Active(s)
  BY DEF Commit, Rollback, Active
<1>2. \A o \in Sessions : txn'[o].pc = "idle"
  BY <1>1 DEF ShapeInv, Active, Idle
<1>3. \A o \in Sessions : Journal(o)'
  BY <1>2 DEF Journal
<1>4. StampsInv'
  <2>1. CASE Commit(s)
    <3>1. UNCHANGED clock /\ ActorOf[s] \in Actors /\ StampsInv
      BY <2>1, ConstantsAssumption DEF Commit, JournalInv
    <3> QED
      BY <2>1, <3>1, CommitIsACall, CallKeepsStamps
  <2>2. CASE Rollback(s)
    BY <2>2 DEF Rollback, tables, JournalInv, StampsInv, WatchTablesAgree, Pairs, Stamped
  <2> QED
    BY <2>1, <2>2
<1> QED
  BY <1>3, <1>4 DEF JournalInv

\* A step that changes nothing.
LEMMA StandingCommit ==
    ASSUME UNCHANGED <<rows, watchers, threadWatches, lastReadAt, mentions, seenMentions, writes>>,
           NEW s \in Sessions, JournalCommit(s)
    PROVE  JournalCommit(s)'
<1> DEFINE a == ActorOf[s]
<1>1. CASE \E t \in Threads, M \in SUBSET Actors, at \in 1 .. MaxPosts :
              ~Exists(t) /\ Fresh(at) /\ writes[s] = PostWrites(a, t, {}, M, at, TRUE)
  <2>1. PICK t \in Threads, M \in SUBSET Actors, at \in 1 .. MaxPosts :
              ~Exists(t) /\ Fresh(at) /\ writes[s] = PostWrites(a, t, {}, M, at, TRUE)
    BY <1>1
  <2>2. ~Exists(t)' /\ Fresh(at)'
    BY <2>1 DEF Exists, Fresh
  <2>3. PostWrites(a, t, {}, M, at, TRUE)' = PostWrites(a, t, {}, M, at, TRUE)
    BY DEF PostWrites, PostWrite, WatcherWrites, CursorWrites, MentionRows
  <2>4. writes'[s] = PostWrites(a, t, {}, M, at, TRUE)'
    BY <2>1, <2>3
  <2> QED
    BY <2>2, <2>4 DEF JournalCommit
<1>2. CASE \E t \in Threads, X, M \in SUBSET Actors, at \in 1 .. MaxPosts :
              Exists(t) /\ Fresh(at) /\ writes[s] = PostWrites(a, t, X, M, at, FALSE)
  <2>1. PICK t \in Threads, X, M \in SUBSET Actors, at \in 1 .. MaxPosts :
              Exists(t) /\ Fresh(at) /\ writes[s] = PostWrites(a, t, X, M, at, FALSE)
    BY <1>2
  <2>2. Exists(t)' /\ Fresh(at)'
    BY <2>1 DEF Exists, Fresh
  <2>3. PostWrites(a, t, X, M, at, FALSE)' = PostWrites(a, t, X, M, at, FALSE)
    BY DEF PostWrites, PostWrite, WatcherWrites, CursorWrites, MentionRows
  <2>4. writes'[s] = PostWrites(a, t, X, M, at, FALSE)'
    BY <2>1, <2>3
  <2> QED
    BY <2>2, <2>4 DEF JournalCommit
<1>3. CASE \E t \in Threads : Exists(t) /\ writes[s] = WatchWrites(<<a, t>>)
  <2>1. PICK t \in Threads : Exists(t) /\ writes[s] = WatchWrites(<<a, t>>)
    BY <1>3
  <2>2. Exists(t)' /\ writes'[s] = WatchWrites(<<a, t>>)'
    BY <2>1 DEF Exists, WatchWrites, WatcherWrites, CursorWrites
  <2> QED
    BY <2>2 DEF JournalCommit
<1>4. CASE \E t \in Threads : writes[s] = UnwatchWrites(<<a, t>>)
  <2>1. PICK t \in Threads : writes[s] = UnwatchWrites(<<a, t>>)
    BY <1>4
  <2>2. writes'[s] = UnwatchWrites(<<a, t>>)'
    BY <2>1 DEF UnwatchWrites
  <2> QED
    BY <2>2 DEF JournalCommit
<1>5. CASE writes[s] = CatchUpWrites(a)
  <2>1. writes'[s] = CatchUpWrites(a)'
    BY <1>5, CatchUpTablesStand DEF CatchUpWrites
  <2> QED
    BY <2>1 DEF JournalCommit
<1> QED
  BY <1>1, <1>2, <1>3, <1>4, <1>5 DEF JournalCommit

LEMMA TablesStandJournal ==
    ASSUME UNCHANGED <<rows, watchers, threadWatches, lastReadAt, mentions, seenMentions, txn,
                       writes>>,
           NEW s \in Sessions, Journal(s)
    PROVE  Journal(s)'
<1>1. CASE txn[s].pc \in {"insertWatchers", "writeCursors", "ensureCursor", "deleteCursor"}
  BY <1>1 DEF Journal, Fresh, JournalPost, PostWrite, WatcherWrites, Own
<1>2. CASE txn[s].pc \in {"selectReplies", "updateCursor", "markMentions"}
  <2>1. Left(s)' = Left(s)
    BY DEF Left
  <2>2. \A p : News(p)' = News(p)
    BY CatchUpTablesStand
  <2>3. (ReturnWrites(WithNews(ActorOf[s]) \ Left(s)))'
              = ReturnWrites(WithNews(ActorOf[s]) \ Left(s))
    BY <2>1, CatchUpTablesStand
  <2>4. (ReturnWrites(WithNews(ActorOf[s])) \union GaveWrites(ActorOf[s]))'
           = ReturnWrites(WithNews(ActorOf[s])) \union GaveWrites(ActorOf[s])
    BY CatchUpTablesStand
  <2>5. News(txn[s].watch)' = News(txn[s].watch)
    BY DEF News, RepliesAfter
  <2> QED
    BY <1>2, <2>3, <2>4, <2>5 DEF Journal
<1>3. CASE txn[s].pc = "commit"
  BY <1>3, StandingCommit DEF Journal
<1>4. CASE txn[s].pc \notin {"insertWatchers", "writeCursors", "ensureCursor", "deleteCursor",
                            "selectReplies", "updateCursor", "markMentions", "commit"}
  BY <1>4 DEF Journal
<1> QED
  BY <1>1, <1>2, <1>3, <1>4

LEMMA StepKeepsJournal ==
    ASSUME ShapeInv, CursorInv, JournalInv, Backend = "sqlite", [Next]_vars
    PROVE  JournalInv'
<1>1. ASSUME NEW s \in Sessions,
             \/ \E t \in Threads, M \in Handles : CreateThread(s, t, M)
             \/ \E t \in Threads, X \in Extras, M \in Handles : BeginAddReply(s, t, X, M)
             \/ \E t \in Threads : BeginWatchThread(s, t)
             \/ \E t \in Threads : BeginUnwatchThread(s, t)
             \/ BeginCatchUp(s)
      PROVE  JournalInv'
  BY <1>1, CreateThreadKeepsJournal, BeginsKeepJournal
<1>2. ASSUME NEW s \in Sessions,
             \/ InsertReply(s) \/ InsertWatchers(s) \/ UpsertCursors(s)
             \/ EnsureCursor(s) \/ DeleteCursor(s)
      PROVE  JournalInv'
  BY <1>2, InsertReplyKeepsJournal, InsertWatchersKeepsJournal, UpsertCursorsKeepsJournal,
     WatchStatementsKeepJournal
<1>3. ASSUME NEW s \in Sessions,
             \/ txn[s].pc = "selectReplies" /\ \E w \in txn[s].todo : SelectReplies(s, w)
             \/ UpdateCursor(s) \/ SelectMentions(s) \/ MarkMentions(s)
             \/ Commit(s) \/ Rollback(s)
      PROVE  JournalInv'
  BY <1>3, SelectRepliesKeepsJournal, UpdateCursorKeepsJournal, MentionStatementsKeepJournal,
     EndsKeepJournal
<1>4. CASE UNCHANGED vars
  <2>1. UNCHANGED <<clock, rows, watchers, threadWatches, lastReadAt, mentions, seenMentions,
                    returned, txn, writes>>
    BY <1>4 DEF vars, tables
  <2>2. StampsInv'
    BY <2>1 DEF JournalInv, StampsInv, WatchTablesAgree, Pairs, Stamped
  <2>3. \A s \in Sessions : Journal(s)'
    BY <2>1, TablesStandJournal DEF JournalInv
  <2> QED
    BY <2>2, <2>3 DEF JournalInv
<1> QED
  BY <1>1, <1>2, <1>3, <1>4 DEF Next

------------------------------------------------------------------------------
(* Ranks.                                                                  *)

RankIn(R, at) == Cardinality({i \in DOMAIN R : R[i].at <= at})

Sorted(R) == \A i, j \in DOMAIN R : i < j => R[i].at < R[j].at

LEMMA RowStamp ==
    ASSUME NEW R \in Seq(Post), NEW i \in DOMAIN R
    PROVE  R[i] \in Post /\ R[i].at \in 1 .. MaxPosts
<1>1. R[i] \in Post
  OBVIOUS
<1> QED
  BY <1>1 DEF Post

\* The rank of a row's stamp is its place; nothing is stamped zero.
LEMMA RankOfRow ==
    ASSUME NEW R \in Seq(Post), Sorted(R), NEW i \in DOMAIN R
    PROVE  RankIn(R, R[i].at) = i
<1>1. Len(R) \in Nat /\ DOMAIN R = 1 .. Len(R) /\ i \in 1 .. Len(R)
  OBVIOUS
<1>2. \A j \in DOMAIN R : R[j].at \in 1 .. MaxPosts
  BY RowStamp
<1>3. \A j \in DOMAIN R : R[j].at \in Int
  BY <1>2, ConstantsAssumption
<1>4. \A j \in DOMAIN R : R[j].at <= R[i].at <=> j <= i
  <2> TAKE j \in DOMAIN R
  <2>1. CASE j < i
    BY <1>1, <1>3, <2>1 DEF Sorted
  <2>2. CASE j = i
    BY <1>1, <1>3, <2>2
  <2>3. CASE i < j
    BY <1>1, <1>3, <2>3 DEF Sorted
  <2> QED
    BY <1>1, <2>1, <2>2, <2>3
<1>5. {j \in DOMAIN R : R[j].at <= R[i].at} = 1 .. i
  BY <1>1, <1>4
<1>6. Cardinality(1 .. i) = i
  BY <1>1, FS_Interval
<1> QED
  BY <1>5, <1>6 DEF RankIn

LEMMA RankOfZero ==
    ASSUME NEW R \in Seq(Post)
    PROVE  RankIn(R, 0) = 0
<1>1. \A j \in DOMAIN R : R[j].at \in 1 .. MaxPosts
  BY RowStamp
<1>2. {j \in DOMAIN R : R[j].at <= 0} = {}
  BY <1>1, ConstantsAssumption
<1> QED
  BY <1>2, FS_EmptySet DEF RankIn

\* The tables as Board.tla has them.
PostsOf(R) ==
    [i \in DOMAIN R |-> [thread |-> R[i].thread, author |-> R[i].author, opens |-> R[i].opens]]
CursorsOf(R, C) == [p \in Pairs |-> RankIn(R, C[p])]
MentionsOf(R, S) == {<<RankIn(R, m[1]), m[2]>> : m \in S}
ReturnedOf(R, H) == [p \in Pairs |-> {RankIn(R, r) : r \in H[p]}]

\* A stamp in use: none yet, or that of a row.
Known(R, at) == at = 0 \/ Stamped(R, at)

LEMMA RankOfKnown ==
    ASSUME NEW R \in Seq(Post), Sorted(R), NEW at, Known(R, at)
    PROVE  \/ at = 0 /\ RankIn(R, at) = 0
           \/ \E i \in DOMAIN R : R[i].at = at /\ RankIn(R, at) = i /\ i \in Nat /\ i > 0
<1>1. Len(R) \in Nat /\ DOMAIN R = 1 .. Len(R)
  OBVIOUS
<1>2. \A i \in DOMAIN R : i \in Nat /\ i > 0
  BY <1>1
<1> QED
  BY <1>2, RankOfRow, RankOfZero DEF Known, Stamped

\* Stamps and ranks are in the same order.
LEMMA RanksAreOrdered ==
    ASSUME NEW R \in Seq(Post), Sorted(R), NEW x, NEW y, Known(R, x), Known(R, y)
    PROVE  /\ RankIn(R, x) = RankIn(R, y) => x = y
           /\ x < y <=> RankIn(R, x) < RankIn(R, y)
<1>1. /\ \/ x = 0 /\ RankIn(R, x) = 0
         \/ \E i \in DOMAIN R : R[i].at = x /\ RankIn(R, x) = i /\ i \in Nat /\ i > 0
      /\ \/ y = 0 /\ RankIn(R, y) = 0
         \/ \E i \in DOMAIN R : R[i].at = y /\ RankIn(R, y) = i /\ i \in Nat /\ i > 0
  BY RankOfKnown
<1>2. \A i \in DOMAIN R : R[i].at \in Nat /\ R[i].at > 0
  <2>1. \A i \in DOMAIN R : R[i].at \in 1 .. MaxPosts
    BY RowStamp
  <2> QED
    BY <2>1, ConstantsAssumption
<1>3. CASE x = 0 \/ y = 0
  BY <1>1, <1>2, <1>3
<1>4. CASE x # 0 /\ y # 0
  <2>1. PICK i, j \in DOMAIN R :
           /\ R[i].at = x /\ RankIn(R, x) = i /\ i \in Nat
           /\ R[j].at = y /\ RankIn(R, y) = j /\ j \in Nat
    BY <1>1, <1>4
  <2>2. CASE i < j
    BY <1>2, <2>1, <2>2 DEF Sorted
  <2>3. CASE j < i
    BY <1>2, <2>1, <2>3 DEF Sorted
  <2>4. CASE i = j
    BY <1>2, <2>1, <2>4
  <2> QED
    BY <2>1, <2>2, <2>3, <2>4
<1> QED
  BY <1>3, <1>4

\* The stamps the tables hold are known.
LEMMA StampsAreKnown ==
    ASSUME ShapeInv, StampsInv
    PROVE  /\ rows \in Seq(Post) /\ Sorted(rows)
           /\ \A p \in Pairs : Known(rows, lastReadAt[p])
           /\ \A p \in Pairs : \A r \in returned[p] : Known(rows, r)
           /\ \A m \in mentions : Known(rows, m[1]) /\ m = <<m[1], m[2]>>
           /\ \A p : \A r \in News(p) : Known(rows, r)
<1>1. rows \in Seq(Post) /\ Sorted(rows)
  BY DEF ShapeInv, TypeOK, StampsInv, Sorted
<1>2. \A p \in Pairs : Known(rows, lastReadAt[p])
  BY DEF StampsInv, Known
<1>3. \A p \in Pairs : \A r \in returned[p] : Known(rows, r)
  BY DEF StampsInv, Known
<1>4. \A m \in mentions : Known(rows, m[1]) /\ m = <<m[1], m[2]>>
  BY DEF ShapeInv, TypeOK, StampsInv, Known, Stamped
<1>5. \A p : \A r \in News(p) : Known(rows, r)
  BY NewsAreStamped DEF Known
<1> QED
  BY <1>1, <1>2, <1>3, <1>4, <1>5

LEMMA LengthOfPosts ==
    ASSUME NEW R \in Seq(Post)
    PROVE  /\ PostsOf(R) \in Seq([thread : Threads, author : Actors, opens : BOOLEAN])
           /\ Len(PostsOf(R)) = Len(R) /\ DOMAIN PostsOf(R) = DOMAIN R
<1>1. Len(R) \in Nat /\ DOMAIN R = 1 .. Len(R)
  OBVIOUS
<1>2. \A i \in DOMAIN R : [thread |-> R[i].thread, author |-> R[i].author, opens |-> R[i].opens]
                             \in [thread : Threads, author : Actors, opens : BOOLEAN]
  BY RowStamp DEF Post
<1> QED
  BY <1>1, <1>2 DEF PostsOf

\* A post maps to a post: known stamps keep their ranks and its own is the next.
LEMMA PostedMaps ==
    ASSUME ShapeInv, StampsInv, StampsInv', NEW a \in Actors, NEW t \in Threads,
           NEW X \in SUBSET Actors, NEW M \in SUBSET Actors, NEW at \in 1 .. MaxPosts,
           NEW opens \in BOOLEAN, Posted(a, t, X, M, at, opens)
    PROVE  /\ Len(PostsOf(rows)) < MaxPosts
           /\ PostsOf(rows') = Append(PostsOf(rows), [thread |-> t, author |-> a, opens |-> opens])
           /\ CursorsOf(rows', lastReadAt') =
                 [CursorsOf(rows, lastReadAt) EXCEPT ![<<a, t>>] = Len(PostsOf(rows)) + 1]
           /\ MentionsOf(rows', mentions') =
                 MentionsOf(rows, mentions) \union ({Len(PostsOf(rows)) + 1} \X (M \ {a}))
           /\ MentionsOf(rows', seenMentions') = MentionsOf(rows, seenMentions)
           /\ ReturnedOf(rows', returned') = ReturnedOf(rows, returned)
<1>1. PICK n : n = Len(rows)
  OBVIOUS
<1>2. /\ n \in Nat /\ DOMAIN rows = 1 .. n
      /\ DOMAIN rows' = 1 .. (n + 1)
      /\ \A i \in DOMAIN rows : rows'[i] = rows[i]
      /\ rows'[n + 1] = [at |-> at, thread |-> t, author |-> a, opens |-> opens]
      /\ rows' \in Seq(Post)
  BY <1>1, PostedRows
<1>3. /\ lastReadAt' = [lastReadAt EXCEPT ![<<a, t>>] = at]
      /\ mentions' = mentions \union ({at} \X (M \ {a}))
      /\ UNCHANGED <<seenMentions, returned>>
      /\ n < at
  BY <1>1 DEF Posted, Fresh
<1>4. rows \in Seq(Post) /\ Sorted(rows) /\ Sorted(rows')
  BY StampsAreKnown DEF StampsInv, Sorted
<1>5. ASSUME NEW x, Known(rows, x) PROVE RankIn(rows', x) = RankIn(rows, x)
  <2>1. CASE x = 0
    BY <1>2, <1>4, <2>1, RankOfZero
  <2>2. CASE \E i \in DOMAIN rows : rows[i].at = x
    <3>1. PICK i \in DOMAIN rows : rows[i].at = x
      BY <2>2
    <3>2. i \in DOMAIN rows' /\ rows'[i].at = x
      BY <1>2, <3>1
    <3>3. RankIn(rows', x) = i
      BY <1>2, <1>4, <3>2, RankOfRow
    <3>4. RankIn(rows, x) = i
      BY <1>4, <3>1, RankOfRow
    <3> QED
      BY <3>3, <3>4
  <2> QED
    BY <1>5, <2>1, <2>2 DEF Known, Stamped
<1>6. RankIn(rows', at) = n + 1
  <2>1. n + 1 \in DOMAIN rows' /\ rows'[n + 1].at = at
    BY <1>2
  <2> QED
    BY <1>2, <1>4, <2>1, RankOfRow
<1>7. Len(PostsOf(rows)) = n
  BY <1>1, <1>4, LengthOfPosts
<1>8. n < MaxPosts
  BY <1>2, <1>3, ConstantsAssumption
<1>9. PostsOf(rows') = Append(PostsOf(rows), [thread |-> t, author |-> a, opens |-> opens])
  <2>1. PICK S : S = [thread : Threads, author : Actors, opens : BOOLEAN]
    OBVIOUS
  <2>2. PICK post \in S : post = [thread |-> t, author |-> a, opens |-> opens]
    BY <2>1
  <2>3. /\ PostsOf(rows) \in Seq(S)
        /\ PostsOf(rows') \in Seq(S)
        /\ DOMAIN PostsOf(rows') = 1 .. (n + 1)
    BY <1>2, <1>4, <2>1, LengthOfPosts
  <2>4. PostsOf(rows')[n + 1] = post
    BY <1>2, <2>2 DEF PostsOf
  <2>5. \A i \in 1 .. n : PostsOf(rows')[i] = PostsOf(rows)[i]
    <3> TAKE i \in 1 .. n
    <3>1. i \in DOMAIN rows /\ i \in DOMAIN rows' /\ rows'[i] = rows[i]
      BY <1>2
    <3> QED
      BY <3>1 DEF PostsOf
  <2>6. PostsOf(rows') = Append(PostsOf(rows), post)
    BY <1>2, <1>7, <2>3, <2>4, <2>5
  <2> QED
    BY <2>2, <2>6
<1>10. CursorsOf(rows', lastReadAt') = [CursorsOf(rows, lastReadAt) EXCEPT ![<<a, t>>] = n + 1]
  <2>1. lastReadAt \in [Pairs -> 0 .. MaxPosts]
    BY DEF ShapeInv, TypeOK
  <2>2. ASSUME NEW p \in Pairs
        PROVE  RankIn(rows', lastReadAt'[p]) =
                   IF p = <<a, t>> THEN n + 1 ELSE RankIn(rows, lastReadAt[p])
    <3>1. CASE p = <<a, t>>
      BY <1>3, <1>6, <2>1, <3>1
    <3>2. CASE p # <<a, t>>
      <4>1. lastReadAt'[p] = lastReadAt[p] /\ Known(rows, lastReadAt[p])
        BY <1>3, <2>1, <3>2, StampsAreKnown
      <4> QED
        BY <1>5, <3>2, <4>1
    <3> QED
      BY <3>1, <3>2
  <2> QED
    BY <2>2 DEF CursorsOf
<1>11. MentionsOf(rows', mentions') = MentionsOf(rows, mentions) \union ({n + 1} \X (M \ {a}))
  <2>1. \A m \in mentions : RankIn(rows', m[1]) = RankIn(rows, m[1])
    BY <1>5, StampsAreKnown
  <2>2. \A m \in {at} \X (M \ {a}) :
              <<RankIn(rows', m[1]), m[2]>> = <<n + 1, m[2]>> /\ m[2] \in M \ {a}
    BY <1>6
  <2>3. MentionsOf(rows', mentions')
              \subseteq MentionsOf(rows, mentions) \union ({n + 1} \X (M \ {a}))
    BY <1>3, <2>1, <2>2 DEF MentionsOf
  <2>4. MentionsOf(rows, mentions) \subseteq MentionsOf(rows', mentions')
    BY <1>3, <2>1 DEF MentionsOf
  <2>5. ASSUME NEW q \in {n + 1} \X (M \ {a}) PROVE q \in MentionsOf(rows', mentions')
    <3>1. PICK m \in mentions' : m[1] = at /\ q = <<n + 1, m[2]>>
      <4>1. PICK b \in M \ {a} : q = <<n + 1, b>>
        OBVIOUS
      <4>2. <<at, b>> \in mentions' /\ <<at, b>>[1] = at /\ <<at, b>>[2] = b
        BY <1>3
      <4> QED
        BY <4>1, <4>2
    <3> QED
      BY <1>6, <3>1 DEF MentionsOf
  <2> QED
    BY <2>3, <2>4, <2>5
<1>12. MentionsOf(rows', seenMentions') = MentionsOf(rows, seenMentions)
  <2>1. \A m \in seenMentions : RankIn(rows', m[1]) = RankIn(rows, m[1])
    BY <1>5, StampsAreKnown DEF ShapeInv, TypeOK
  <2> QED
    BY <1>3, <2>1 DEF MentionsOf
<1>13. ReturnedOf(rows', returned') = ReturnedOf(rows, returned)
  <2>1. \A p \in Pairs : \A r \in returned[p] : RankIn(rows', r) = RankIn(rows, r)
    BY <1>5, StampsAreKnown
  <2>2. \A p \in Pairs :
              {RankIn(rows', r) : r \in returned[p]} = {RankIn(rows, r) : r \in returned[p]}
    BY <2>1
  <2> QED
    BY <1>3, <2>2 DEF ReturnedOf
<1> QED
  BY <1>7, <1>8, <1>9, <1>10, <1>11, <1>12, <1>13

\* What Board.tla calls unread are the replies after the cursor, by rank.
UnreadOf(p) ==
    {i \in DOMAIN rows : /\ rows[i].thread = p[2] /\ ~rows[i].opens
                         /\ p \in threadWatches /\ i > RankIn(rows, lastReadAt[p])}

LEMMA UnreadMaps ==
    ASSUME NEW p \in Pairs
    PROVE  Atomic!Unread(p) = UnreadOf(p)
  BY DEF Atomic!Unread, Atomic!Replies, UnreadOf, Rank, RankIn

LEMMA NewsAreUnread ==
    ASSUME ShapeInv, StampsInv, NEW p \in Pairs
    PROVE  /\ UnreadOf(p) \subseteq Nat
           /\ p \in threadWatches => UnreadOf(p) = {RankIn(rows, r) : r \in News(p)}
           /\ p \notin threadWatches => UnreadOf(p) = {}
<1>1. rows \in Seq(Post) /\ Sorted(rows) /\ Known(rows, lastReadAt[p])
  BY StampsAreKnown
<1>2. \A i \in DOMAIN rows : Known(rows, rows[i].at) /\ RankIn(rows, rows[i].at) = i
  BY <1>1, RankOfRow DEF Known, Stamped
<1>3. \A i \in DOMAIN rows : lastReadAt[p] < rows[i].at <=> RankIn(rows, lastReadAt[p]) < i
  <2> TAKE i \in DOMAIN rows
  <2>1. lastReadAt[p] < rows[i].at <=> RankIn(rows, lastReadAt[p]) < RankIn(rows, rows[i].at)
    BY <1>1, <1>2, RanksAreOrdered
  <2> QED
    BY <1>2, <2>1
<1>4. \A i \in DOMAIN rows : i > RankIn(rows, lastReadAt[p]) <=> rows[i].at > lastReadAt[p]
  BY <1>3
<1>5. \A r : r \in News(p) <=> \E i \in DOMAIN rows : /\ rows[i].thread = p[2] /\ ~rows[i].opens
                                                    /\ rows[i].at > lastReadAt[p] /\ rows[i].at = r
  BY DEF News, RepliesAfter
<1>6. ASSUME p \in threadWatches PROVE UnreadOf(p) = {RankIn(rows, r) : r \in News(p)}
  <2>1. ASSUME NEW i \in UnreadOf(p) PROVE i \in {RankIn(rows, r) : r \in News(p)}
    <3>1. i \in DOMAIN rows /\ rows[i].at \in News(p)
      BY <1>4, <1>5 DEF UnreadOf
    <3> QED
      BY <1>2, <3>1
  <2>2. ASSUME NEW r \in News(p) PROVE RankIn(rows, r) \in UnreadOf(p)
    <3>1. PICK i \in DOMAIN rows : /\ rows[i].thread = p[2] /\ ~rows[i].opens
                                   /\ rows[i].at > lastReadAt[p] /\ rows[i].at = r
      BY <1>5
    <3>2. RankIn(rows, r) = i
      BY <1>2, <3>1
    <3> QED
      BY <1>4, <1>6, <3>1, <3>2 DEF UnreadOf
  <2> QED
    BY <2>1, <2>2
<1>7. UnreadOf(p) \subseteq Nat
  <2>1. DOMAIN rows \subseteq Nat
    BY <1>1
  <2> QED
    BY <2>1 DEF UnreadOf
<1> QED
  BY <1>6, <1>7 DEF UnreadOf

LEMMA LatestMaps ==
    ASSUME ShapeInv, StampsInv, NEW p \in threadWatches, News(p) # {}
    PROVE  UnreadOf(p) # {} /\ Atomic!Latest(UnreadOf(p)) = RankIn(rows, LatestOf(News(p)))
<1>1. p \in Pairs
  BY DEF ShapeInv, TypeOK
<1>2. PICK r : r = LatestOf(News(p))
  OBVIOUS
<1>3. r \in News(p) /\ \A x \in News(p) : x <= r
  BY <1>2, NewsAreStamped
<1>4. rows \in Seq(Post) /\ Sorted(rows) /\ \A x \in News(p) : Known(rows, x) /\ x \in Nat
  <2>1. \A x \in News(p) : x \in 1 .. MaxPosts
    BY NewsAreStamped
  <2> QED
    BY <2>1, StampsAreKnown, ConstantsAssumption
<1>5. PICK U, k : U = UnreadOf(p) /\ k = RankIn(rows, r)
  OBVIOUS
<1>6. U \subseteq Nat /\ U = {RankIn(rows, x) : x \in News(p)}
  BY <1>1, <1>5, NewsAreUnread
<1>7. k \in U
  BY <1>3, <1>5, <1>6
<1>8. \A y \in U : y <= k
  <2> TAKE y \in U
  <2>1. PICK x \in News(p) : y = RankIn(rows, x)
    BY <1>6
  <2>2. ~ (r < x)
    BY <1>3, <1>4, <2>1
  <2>3. ~ (RankIn(rows, r) < RankIn(rows, x))
    BY <1>3, <1>4, <2>1, <2>2, RanksAreOrdered
  <2> QED
    BY <1>5, <1>6, <1>7, <2>1, <2>3
<1>9. Atomic!Latest(U) = k
  <2>1. \A z \in U : (\A y \in U : y <= z) => z = k
    BY <1>6, <1>7, <1>8
  <2> QED
    BY <1>7, <1>8, <2>1 DEF Atomic!Latest
<1> QED
  BY <1>2, <1>5, <1>7, <1>9

\* Two mentions are told apart by their ranks.
LEMMA SeenMaps ==
    ASSUME ShapeInv, StampsInv, NEW a \in Actors
    PROVE  MentionsOf(rows, seenMentions \union UnseenMentions(a)) =
              MentionsOf(rows, seenMentions) \union
              {m \in MentionsOf(rows, mentions) \ MentionsOf(rows, seenMentions) : m[2] = a}
<1> DEFINE f(m) == <<RankIn(rows, m[1]), m[2]>>
<1>1. \A m, q \in mentions : f(m) = f(q) => m = q
  <2> SUFFICES ASSUME NEW m \in mentions, NEW q \in mentions, f(m) = f(q) PROVE m = q
    OBVIOUS
  <2>1. /\ Known(rows, m[1]) /\ m = <<m[1], m[2]>>
        /\ Known(rows, q[1]) /\ q = <<q[1], q[2]>> /\ rows \in Seq(Post) /\ Sorted(rows)
    BY StampsAreKnown
  <2>2. RankIn(rows, m[1]) = RankIn(rows, q[1]) /\ m[2] = q[2]
    OBVIOUS
  <2>3. m[1] = q[1]
    BY <2>1, <2>2, RanksAreOrdered
  <2> QED
    BY <2>1, <2>2, <2>3
<1>2. seenMentions \subseteq mentions
  BY DEF ShapeInv, TypeOK
<1>3. \A m : f(m)[2] = m[2]
  OBVIOUS
<1>4. \A S : MentionsOf(rows, S) = {f(m) : m \in S}
  BY DEF MentionsOf
<1> HIDE DEF f
<1>5. ASSUME NEW S, NEW T, S \subseteq T, \A m, q \in T : f(m) = f(q) => m = q
      PROVE  {f(m) : m \in S \union {m \in T \ S : m[2] = a}} =
                {f(m) : m \in S} \union {x \in {f(m) : m \in T} \ {f(m) : m \in S} : x[2] = a}
  BY <1>3, <1>5
<1>6. UnseenMentions(a) = {m \in mentions \ seenMentions : m[2] = a}
  BY DEF UnseenMentions
<1>7. {f(m) : m \in seenMentions \union {m \in mentions \ seenMentions : m[2] = a}} =
         {f(m) : m \in seenMentions} \union
         {x \in {f(m) : m \in mentions} \ {f(m) : m \in seenMentions} : x[2] = a}
  BY <1>1, <1>2, <1>5
<1>8. /\ MentionsOf(rows, seenMentions) = {f(m) : m \in seenMentions}
      /\ MentionsOf(rows, mentions) = {f(m) : m \in mentions}
      /\ MentionsOf(rows, seenMentions \union UnseenMentions(a)) =
            {f(m) : m \in seenMentions \union UnseenMentions(a)}
  BY <1>4
<1> QED
  BY <1>6, <1>7, <1>8

LEMMA CaughtUpMaps ==
    ASSUME ShapeInv, StampsInv, NEW a \in Actors, CaughtUp(a)
    PROVE  Atomic!CatchUp(a)
<1>1. /\ lastReadAt' = [p \in Pairs |->
            IF p \in WithNews(a) THEN LatestOf(News(p)) ELSE lastReadAt[p]]
      /\ returned' = [p \in Pairs |->
            IF p \in WithNews(a) THEN returned[p] \union News(p) ELSE returned[p]]
      /\ seenMentions' = seenMentions \union UnseenMentions(a)
      /\ UNCHANGED <<rows, watchers, threadWatches, mentions>>
  BY DEF CaughtUp
<1>2. ASSUME NEW p \in Pairs
      PROVE  /\ p \in WithNews(a) <=> p[1] = a /\ UnreadOf(p) # {}
             /\ p \in WithNews(a) => p \in threadWatches /\ News(p) # {}
  <2>1. p \in threadWatches => (UnreadOf(p) # {} <=> News(p) # {})
    BY NewsAreUnread
  <2> QED
    BY <2>1, NewsAreUnread DEF WithNews
<1>3. CursorsOf(rows', lastReadAt') =
         [p \in Pairs |-> IF p[1] = a /\ UnreadOf(p) # {} THEN Atomic!Latest(UnreadOf(p))
                         ELSE CursorsOf(rows, lastReadAt)[p]]
  <2>1. ASSUME NEW p \in Pairs
        PROVE  RankIn(rows', lastReadAt'[p]) =
                  IF p[1] = a /\ UnreadOf(p) # {} THEN Atomic!Latest(UnreadOf(p))
                  ELSE RankIn(rows, lastReadAt[p])
    <3>1. CASE p \in WithNews(a)
      <4>1. lastReadAt'[p] = LatestOf(News(p)) /\ rows' = rows
        BY <1>1, <3>1
      <4>2. Atomic!Latest(UnreadOf(p)) = RankIn(rows, LatestOf(News(p)))
        BY <1>2, <3>1, LatestMaps
      <4> QED
        BY <1>2, <3>1, <4>1, <4>2
    <3>2. CASE p \notin WithNews(a)
      BY <1>1, <1>2, <3>2
    <3> QED
      BY <3>1, <3>2
  <2> QED
    BY <2>1 DEF CursorsOf
<1>4. ReturnedOf(rows', returned') =
         [p \in Pairs |-> IF p[1] = a THEN ReturnedOf(rows, returned)[p] \union UnreadOf(p)
                         ELSE ReturnedOf(rows, returned)[p]]
  <2>1. ASSUME NEW p \in Pairs
        PROVE  {RankIn(rows', r) : r \in returned'[p]} =
                  IF p[1] = a THEN {RankIn(rows, r) : r \in returned[p]} \union UnreadOf(p)
                  ELSE {RankIn(rows, r) : r \in returned[p]}
    <3>1. CASE p \in WithNews(a)
      <4>1. returned'[p] = returned[p] \union News(p) /\ rows' = rows
        BY <1>1, <3>1
      <4>2. UnreadOf(p) = {RankIn(rows, r) : r \in News(p)}
        BY <1>2, <3>1, NewsAreUnread
      <4>3. p[1] = a
        BY <1>2, <3>1
      <4> QED
        BY <4>1, <4>2, <4>3
    <3>2. CASE p \notin WithNews(a)
      <4>1. returned'[p] = returned[p] /\ rows' = rows /\ (p[1] = a => UnreadOf(p) = {})
        BY <1>1, <1>2, <3>2
      <4> QED
        BY <4>1
    <3> QED
      BY <3>1, <3>2
  <2> QED
    BY <2>1 DEF ReturnedOf
<1>5. MentionsOf(rows', seenMentions') =
         MentionsOf(rows, seenMentions) \union
         {m \in MentionsOf(rows, mentions) \ MentionsOf(rows, seenMentions) : m[2] = a}
  BY <1>1, SeenMaps
<1>6. \A p \in Pairs : Atomic!Unread(p) = UnreadOf(p)
  BY UnreadMaps
<1>7. Atomic!Pairs = Pairs
  BY DEF Atomic!Pairs, Pairs
<1>8. CursorsOf(rows', lastReadAt') =
         [p \in Pairs |-> IF p[1] = a /\ Atomic!Unread(p) # {} THEN Atomic!Latest(Atomic!Unread(p))
                         ELSE CursorsOf(rows, lastReadAt)[p]]
  BY <1>3, <1>6
<1>9. ReturnedOf(rows', returned') =
         [p \in Pairs |-> IF p[1] = a THEN ReturnedOf(rows, returned)[p] \union Atomic!Unread(p)
                         ELSE ReturnedOf(rows, returned)[p]]
  BY <1>4, <1>6
<1>10. UNCHANGED <<watchers, threadWatches>> /\ PostsOf(rows') = PostsOf(rows)
       /\ MentionsOf(rows', mentions') = MentionsOf(rows, mentions)
  BY <1>1
<1> QED
  BY <1>5, <1>7, <1>8, <1>9, <1>10
  DEF Atomic!CatchUp, Atomic!UnseenMentions, PostsOf, CursorsOf, MentionsOf,
      ReturnedOf, Rank, RankIn

LEMMA PostedIsBoards ==
    ASSUME ShapeInv, StampsInv, StampsInv', NEW a \in Actors, NEW t \in Threads,
           NEW X \in SUBSET Actors, NEW M \in SUBSET Actors, NEW at \in 1 .. MaxPosts,
           NEW opens \in BOOLEAN, Posted(a, t, X, M, at, opens)
    PROVE  /\ ~Exists(t) /\ X = {} /\ opens = TRUE => Atomic!CreateThread(a, t, M)
           /\ Exists(t) /\ opens = FALSE => Atomic!AddReply(a, t, X, M)
<1>1. /\ Len(PostsOf(rows)) < MaxPosts
      /\ PostsOf(rows') = Append(PostsOf(rows), [thread |-> t, author |-> a, opens |-> opens])
      /\ CursorsOf(rows', lastReadAt') =
            [CursorsOf(rows, lastReadAt) EXCEPT ![<<a, t>>] = Len(PostsOf(rows)) + 1]
      /\ MentionsOf(rows', mentions') =
            MentionsOf(rows, mentions) \union ({Len(PostsOf(rows)) + 1} \X (M \ {a}))
      /\ MentionsOf(rows', seenMentions') = MentionsOf(rows, seenMentions)
      /\ ReturnedOf(rows', returned') = ReturnedOf(rows, returned)
  BY PostedMaps
<1>2. /\ watchers' = watchers \union ((X \union {a}) \X {t})
      /\ threadWatches' = threadWatches \union ((X \union {a}) \X {t})
  BY DEF Posted
<1>3. Atomic!Exists(t) <=> Exists(t)
  BY DEF Atomic!Exists, Exists
<1>4. ASSUME ~Exists(t), X = {}, opens = TRUE PROVE Atomic!CreateThread(a, t, M)
  <2>1. ({} \union {a}) \X {t} = {<<a, t>>}
    OBVIOUS
  <2>2. watchers' = watchers \union {<<a, t>>} /\ threadWatches' = threadWatches \union {<<a, t>>}
    BY <1>2, <1>4, <2>1
  <2>3. PostsOf(rows') = Append(PostsOf(rows), [thread |-> t, author |-> a, opens |-> TRUE])
    BY <1>1, <1>4
  <2> QED
    BY <1>1, <1>3, <1>4, <2>2, <2>3
    DEF Atomic!CreateThread, Atomic!Now, Atomic!NewMentions, PostsOf, CursorsOf, MentionsOf,
        ReturnedOf, Rank, RankIn, Atomic!Pairs, Pairs
<1>5. ASSUME Exists(t), opens = FALSE PROVE Atomic!AddReply(a, t, X, M)
  <2>1. PostsOf(rows') = Append(PostsOf(rows), [thread |-> t, author |-> a, opens |-> FALSE])
    BY <1>1, <1>5
  <2> QED
    BY <1>1, <1>2, <1>3, <1>5, <2>1
    DEF Atomic!AddReply, Atomic!Now, Atomic!NewMentions, PostsOf, CursorsOf, MentionsOf,
        ReturnedOf, Rank, RankIn, Atomic!Pairs, Pairs
<1> QED
  BY <1>4, <1>5

LEMMA WatchedIsBoards ==
    ASSUME NEW a \in Actors, NEW t \in Threads
    PROVE  /\ Exists(t) /\ Watched(<<a, t>>) => Atomic!WatchThread(a, t)
           /\ ShapeInv /\ StampsInv /\ Unwatched(<<a, t>>) => Atomic!UnwatchThread(a, t)
<1>1. ASSUME Exists(t), Watched(<<a, t>>) PROVE Atomic!WatchThread(a, t)
  <2>1. Atomic!Exists(t)
    BY <1>1 DEF Atomic!Exists, Exists
  <2>2. /\ watchers' = watchers \union {<<a, t>>}
        /\ threadWatches' = threadWatches \union {<<a, t>>}
        /\ rows' = rows /\ lastReadAt' = lastReadAt /\ mentions' = mentions
        /\ seenMentions' = seenMentions /\ returned' = returned
    BY <1>1 DEF Watched
  <2>3. /\ PostsOf(rows') = PostsOf(rows)
        /\ CursorsOf(rows', lastReadAt') = CursorsOf(rows, lastReadAt)
        /\ MentionsOf(rows', mentions') = MentionsOf(rows, mentions)
        /\ MentionsOf(rows', seenMentions') = MentionsOf(rows, seenMentions)
        /\ ReturnedOf(rows', returned') = ReturnedOf(rows, returned)
    BY <2>2
  <2> QED
    BY <2>1, <2>2, <2>3
    DEF Atomic!WatchThread, PostsOf, CursorsOf, MentionsOf, ReturnedOf, Rank, RankIn
<1>2. ASSUME ShapeInv, StampsInv, Unwatched(<<a, t>>) PROVE Atomic!UnwatchThread(a, t)
  <2>1. PICK p \in Pairs : p = <<a, t>>
    BY DEF Pairs
  <2>2. /\ watchers' = watchers \ {p} /\ threadWatches' = threadWatches \ {p}
        /\ rows' = rows /\ mentions' = mentions /\ seenMentions' = seenMentions
        /\ lastReadAt' = [lastReadAt EXCEPT ![p] = 0] /\ returned' = [returned EXCEPT ![p] = {}]
        /\ lastReadAt \in [Pairs -> 0 .. MaxPosts]
        /\ returned \in [Pairs -> SUBSET (1 .. MaxPosts)]
    BY <1>2, <2>1 DEF Unwatched, ShapeInv, TypeOK
  <2>3. RankIn(rows, 0) = 0
    BY <1>2, StampsAreKnown, RankOfZero
  <2>4. CursorsOf(rows', lastReadAt') = [CursorsOf(rows, lastReadAt) EXCEPT ![p] = 0]
    BY <2>2, <2>3 DEF CursorsOf
  <2>5. ReturnedOf(rows', returned') = [ReturnedOf(rows, returned) EXCEPT ![p] = {}]
    <3>1. \A q \in Pairs : {RankIn(rows, r) : r \in returned'[q]} =
                              IF q = p THEN {} ELSE {RankIn(rows, r) : r \in returned[q]}
      BY <2>2
    <3> QED
      BY <2>2, <3>1 DEF ReturnedOf
  <2>6. /\ PostsOf(rows') = PostsOf(rows)
        /\ MentionsOf(rows', mentions') = MentionsOf(rows, mentions)
        /\ MentionsOf(rows', seenMentions') = MentionsOf(rows, seenMentions)
    BY <2>2
  <2> QED
    BY <2>1, <2>2, <2>4, <2>5, <2>6
    DEF Atomic!UnwatchThread, PostsOf, CursorsOf, MentionsOf, ReturnedOf, Rank, RankIn
<1> QED
  BY <1>1, <1>2

\* A call maps to the same call.
LEMMA CallIsBoards ==
    ASSUME ShapeInv, StampsInv, StampsInv', NEW a \in Actors, Called(a)
    PROVE  Atomic!Next
<1>1. CASE \E t \in Threads, M \in SUBSET Actors, at \in 1 .. MaxPosts :
              ~Exists(t) /\ Posted(a, t, {}, M, at, TRUE)
  <2>1. PICK t \in Threads, M \in SUBSET Actors, at \in 1 .. MaxPosts :
              ~Exists(t) /\ Posted(a, t, {}, M, at, TRUE)
    BY <1>1
  <2>2. {} \in SUBSET Actors /\ TRUE \in BOOLEAN
    OBVIOUS
  <2>3. Atomic!CreateThread(a, t, M)
    BY <2>1, <2>2, PostedIsBoards
  <2> QED
    BY <2>3 DEF Atomic!Next
<1>2. CASE \E t \in Threads, X, M \in SUBSET Actors, at \in 1 .. MaxPosts :
              Exists(t) /\ Posted(a, t, X, M, at, FALSE)
  <2>1. PICK t \in Threads, X, M \in SUBSET Actors, at \in 1 .. MaxPosts :
              Exists(t) /\ Posted(a, t, X, M, at, FALSE)
    BY <1>2
  <2>2. Atomic!AddReply(a, t, X, M)
    BY <2>1, PostedIsBoards
  <2> QED
    BY <2>2 DEF Atomic!Next
<1>3. CASE \E t \in Threads : Exists(t) /\ Watched(<<a, t>>)
  <2>1. \E t \in Threads : Atomic!WatchThread(a, t)
    BY <1>3, WatchedIsBoards
  <2> QED
    BY <2>1 DEF Atomic!Next
<1>4. CASE \E t \in Threads : Unwatched(<<a, t>>)
  <2>1. \E t \in Threads : Atomic!UnwatchThread(a, t)
    BY <1>4, WatchedIsBoards
  <2> QED
    BY <2>1 DEF Atomic!Next
<1>5. CASE CaughtUp(a)
  <2>1. Atomic!CatchUp(a)
    BY <1>5, CaughtUpMaps
  <2> QED
    BY <2>1 DEF Atomic!Next
<1> QED
  BY <1>1, <1>2, <1>3, <1>4, <1>5 DEF Called

LEMMA InitIsBoards == Init => Atomic!Init
<1> SUFFICES ASSUME Init PROVE Atomic!Init
  OBVIOUS
<1>1. rows = <<>> /\ rows \in Seq(Post)
  BY DEF Init
<1>2. RankIn(rows, 0) = 0
  BY <1>1, RankOfZero
<1>3. PostsOf(rows) = <<>>
  BY <1>1 DEF PostsOf
<1>4. CursorsOf(rows, lastReadAt) = [p \in Pairs |-> 0]
  BY <1>2 DEF Init, CursorsOf
<1>5. MentionsOf(rows, mentions) = {} /\ MentionsOf(rows, seenMentions) = {}
  BY DEF Init, MentionsOf
<1>6. ReturnedOf(rows, returned) = [p \in Pairs |-> {}]
  BY DEF Init, ReturnedOf
<1>7. watchers = {} /\ threadWatches = {}
  BY DEF Init
<1> QED
  BY <1>3, <1>4, <1>5, <1>6, <1>7
  DEF Atomic!Init, PostsOf, CursorsOf, MentionsOf, ReturnedOf, Rank, RankIn, Atomic!Pairs, Pairs

\* The other steps leave the tables alone.
LEMMA StepIsBoards ==
    ASSUME ShapeInv, JournalInv, JournalInv', [Next]_vars
    PROVE  [Atomic!Next]_(Atomic!vars)
<1>1. CASE \E s \in Sessions : Commit(s)
  <2>1. PICK s \in Sessions : Commit(s)
    BY <1>1
  <2>2. ActorOf[s] \in Actors /\ StampsInv /\ StampsInv'
    BY ConstantsAssumption DEF JournalInv
  <2> QED
    BY <2>1, <2>2, CommitIsACall, CallIsBoards
<1>2. CASE UNCHANGED tables
  <2>1. /\ rows' = rows /\ lastReadAt' = lastReadAt /\ mentions' = mentions
        /\ seenMentions' = seenMentions /\ returned' = returned
        /\ watchers' = watchers /\ threadWatches' = threadWatches
    BY <1>2 DEF tables
  <2>2. /\ PostsOf(rows') = PostsOf(rows)
        /\ CursorsOf(rows', lastReadAt') = CursorsOf(rows, lastReadAt)
        /\ MentionsOf(rows', mentions') = MentionsOf(rows, mentions)
        /\ MentionsOf(rows', seenMentions') = MentionsOf(rows, seenMentions)
        /\ ReturnedOf(rows', returned') = ReturnedOf(rows, returned)
    BY <2>1
  <2> QED
    BY <2>1, <2>2
    DEF Atomic!vars, PostsOf, CursorsOf, MentionsOf, ReturnedOf, Rank, RankIn
<1>3. Next => UNCHANGED tables \/ \E s \in Sessions : Commit(s)
  BY DEF Next, CreateThread, BeginAddReply, InsertReply, InsertWatchers, UpsertCursors,
         BeginWatchThread, EnsureCursor, BeginUnwatchThread, DeleteCursor, BeginCatchUp,
         SelectReplies, UpdateCursor, SelectMentions, MarkMentions, Rollback, Statement, tables
<1> QED
  BY <1>1, <1>2, <1>3 DEF vars

\* On SQLite the statements of a storage call amount to the one step Board.tla makes of
\* it (db_sqlite.go:38-48): a transaction that runs alone commits what the call does to
\* the tables as they stood when it began.
THEOREM StatementsImplementBoard ==
    ASSUME Backend = "sqlite"
    PROVE  Spec => ImplementsBoard
<1>1. OneCallAtATime
  BY DEF OneCallAtATime
<1>2. Spec => []JournalInv
  BY <1>1, InitJournal, StepKeepsJournal, CursorInvariant, TablesKeepTheirShape, PTL DEF Spec
<1> QED
  BY <1>2, InitIsBoards, StepIsBoards, TablesKeepTheirShape, PTL
  DEF Spec, ImplementsBoard, Atomic!Spec
==============================================================================
