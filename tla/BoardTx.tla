------------------------------- MODULE BoardTx -------------------------------
(***************************************************************************)
(* The storage calls of Board.tla, one SQL statement at a time.            *)
(*                                                                         *)
(* SQLite: the pool has one connection (db_sqlite.go:38-48), so a          *)
(* transaction runs alone from BEGIN to COMMIT.                            *)
(* Postgres: the pool hands every call its own connection, at the default  *)
(* READ COMMITTED.  A statement reads what is committed when it starts; a  *)
(* row written by an open transaction is locked until that one ends, and a *)
(* statement that has to write the row waits for it.                       *)
(*                                                                         *)
(* No call reads a row it has written itself, so uncommitted writes are    *)
(* kept apart in writes[s] and Commit applies them.                        *)
(***************************************************************************)
EXTENDS Integers, Sequences, FiniteSets

CONSTANTS
    Actors, Threads,
    Sessions,      \* requests being served concurrently
    ActorOf,       \* the authenticated actor of each session
    MayCall,       \* bound: the storage calls each session makes
    Extras,        \* bound: the sets of extra watchers passed to AddReply
    Handles,       \* bound: the sets of actors a body may mention
    Backend,       \* "sqlite" or "postgres"
    MaxPosts       \* bound: posts stamped, committed or not

Calls == {"CreateThread", "AddReply", "WatchThread", "UnwatchThread", "CatchUp"}

ASSUME ConstantsAssumption ==
    /\ Backend \in {"sqlite", "postgres"}
    /\ MaxPosts \in Nat
    /\ ActorOf \in [Sessions -> Actors]
    /\ MayCall \in [Sessions -> SUBSET Calls]
    /\ Extras \subseteq SUBSET Actors
    /\ Handles \subseteq SUBSET Actors

VARIABLES
    clock,             \* time.Now() of the last created_at
    rows,              \* committed posts in commit order
    watchers, threadWatches, lastReadAt, mentions, seenMentions,   \* as in Board
    returned,          \* history, as in Board
    returnedMentions,  \* history: mentions some catch_up returned
    txn,               \* the statement each session executes next, and its Go locals
    writes             \* the uncommitted writes of each session

tables == <<rows, watchers, threadWatches, lastReadAt, mentions, seenMentions,
            returned, returnedMentions>>
vars == <<clock, tables, txn, writes>>

Pairs == Actors \X Threads

Post == [at : 1 .. MaxPosts, thread : Threads, author : Actors, opens : BOOLEAN]

Idle == [pc |-> "idle"]

\* Row p of session s's actor.
Own(s, t) == <<ActorOf[s], t>>

Exists(t) == \E i \in DOMAIN rows : rows[i].thread = t

\* Faulty variant: created_at >= the cursor.
RepliesFrom(t, time) ==
    {rows[i].at : i \in {j \in DOMAIN rows :
        rows[j].thread = t /\ ~rows[j].opens /\ rows[j].at >= time}}

RepliesAfter(t, time) ==
    {rows[i].at : i \in {j \in DOMAIN rows :
        rows[j].thread = t /\ ~rows[j].opens /\ rows[j].at > time}}

UnseenMentions(a) == {m \in mentions \ seenMentions : m[2] = a}

Written(s, kind) == {w[2] : w \in {x \in writes[s] : x[1] = kind}}

WatcherLocked(s, p) ==
    \E o \in Sessions \ {s} : p \in Written(o, "watcher+") \union Written(o, "watcher-")

CursorLocked(s, p) ==
    \E o \in Sessions \ {s} : p \in Written(o, "cursor") \union Written(o, "cursor-")

------------------------------------------------------------------------------
Init ==
    /\ clock = 0
    /\ rows = <<>>
    /\ watchers = {} /\ threadWatches = {}
    /\ lastReadAt = [p \in Pairs |-> 0]
    /\ mentions = {} /\ seenMentions = {}
    /\ returned = [p \in Pairs |-> {}]
    /\ returnedMentions = {}
    /\ txn = [s \in Sessions |-> Idle]
    /\ writes = [s \in Sessions |-> {}]

\* Faulty variant: the SQLite pool is not limited to one connection.
CanBeginAnytime(s, call) ==
    /\ txn[s].pc = "idle"
    /\ call \in MayCall[s]

\* db.Transaction gets a connection from the pool and sends BEGIN.
CanBegin(s, call) ==
    /\ txn[s].pc = "idle"
    /\ call \in MayCall[s]
    /\ Backend = "sqlite" => \A o \in Sessions : txn[o].pc = "idle"

\* A statement of s leaves the tables alone and writes W into the transaction.
Statement(s, next, W) ==
    /\ txn' = [txn EXCEPT ![s] = next]
    /\ writes' = [writes EXCEPT ![s] = @ \union W]
    /\ UNCHANGED tables

MentionRows(at, a, M) == {<<"mention", <<at, b>>>> : b \in M \ {a}}

\* CreateThreadExt.  All its rows carry the id of a thread nobody else knows
\* yet, so its statements are one step.
CreateThread(s, t, M) ==
    /\ CanBegin(s, "CreateThread")
    /\ ~Exists(t)
    /\ \A o \in Sessions : \A p \in Written(o, "post") : p.thread # t
    /\ clock < MaxPosts
    /\ clock' = clock + 1
    /\ LET a == ActorOf[s]
           post == [at |-> clock', thread |-> t, author |-> a, opens |-> TRUE]
       IN Statement(s, [pc |-> "commit"],
             {<<"post", post>>, <<"watcher+", <<a, t>>>>, <<"cursor", <<a, t>>, clock'>>}
             \union MentionRows(clock', a, M))

\* AddReply: SELECT the thread.
BeginAddReply(s, t, X, M) ==
    /\ CanBegin(s, "AddReply")
    /\ Exists(t)
    /\ Statement(s, [pc |-> "insertReply", thread |-> t, extra |-> X, mentioned |-> M], {})
    /\ UNCHANGED clock

\* INSERT INTO replies: created_at is taken now, long before the commit.
InsertReply(s) ==
    /\ txn[s].pc = "insertReply"
    /\ clock < MaxPosts
    /\ clock' = clock + 1
    /\ Statement(s, [pc |-> "insertWatchers", thread |-> txn[s].thread, at |-> clock',
                     extra |-> txn[s].extra, mentioned |-> txn[s].mentioned],
          {<<"post", [at |-> clock', thread |-> txn[s].thread, author |-> ActorOf[s],
                      opens |-> FALSE]>>})

\* INSERT INTO watchers ... ON CONFLICT DO NOTHING, for the author and the
\* extra watchers: waits for a locked key, skips an existing row.
InsertWatchers(s) ==
    LET keys == (txn[s].extra \union {ActorOf[s]}) \X {txn[s].thread}
    IN  /\ txn[s].pc = "insertWatchers"
        /\ \A p \in keys : ~WatcherLocked(s, p)
        /\ Statement(s, [txn[s] EXCEPT !.pc = "writeCursors"],
              {<<"watcher+", p>> : p \in keys \ watchers})
        /\ UNCHANGED clock

\* upsertThreadWatch for the author, ensureThreadWatch for the extra watchers,
\* then the mention rows, whose ids are fresh.
UpsertCursors(s) ==
    LET own == Own(s, txn[s].thread)
        extras == (txn[s].extra \X {txn[s].thread}) \ {own}
    IN  /\ txn[s].pc = "writeCursors"
        /\ \A p \in extras \union {own} : ~CursorLocked(s, p)
        /\ Statement(s, [pc |-> "commit"],
              {<<"cursor", own, txn[s].at>>}
              \union {<<"cursor", p, 0>> : p \in extras \ threadWatches}
              \union MentionRows(txn[s].at, ActorOf[s], txn[s].mentioned))
        /\ UNCHANGED clock

\* WatchThread: SELECT the thread, INSERT the watcher ON CONFLICT DO NOTHING.
BeginWatchThread(s, t) ==
    /\ CanBegin(s, "WatchThread")
    /\ Exists(t)
    /\ ~WatcherLocked(s, Own(s, t))
    /\ Statement(s, [pc |-> "ensureCursor", thread |-> t],
          {<<"watcher+", p>> : p \in {Own(s, t)} \ watchers})
    /\ UNCHANGED clock

\* Faulty variant: ON CONFLICT DO UPDATE with the zero time.
OverwriteCursor(s) ==
    LET own == Own(s, txn[s].thread)
    IN  /\ txn[s].pc = "ensureCursor"
        /\ ~CursorLocked(s, own)
        /\ Statement(s, [pc |-> "commit"], {<<"cursor", own, 0>>})
        /\ UNCHANGED clock

EnsureCursor(s) ==
    LET own == Own(s, txn[s].thread)
    IN  /\ txn[s].pc = "ensureCursor"
        /\ ~CursorLocked(s, own)
        /\ Statement(s, [pc |-> "commit"],
              {<<"cursor", p, 0>> : p \in {own} \ threadWatches})
        /\ UNCHANGED clock

\* UnwatchThread: DELETE FROM watchers.  A row that is not committed is not
\* seen, and not waited for.
BeginUnwatchThread(s, t) ==
    LET rowsSeen == {Own(s, t)} \intersect watchers
    IN  /\ CanBegin(s, "UnwatchThread")
        /\ \A p \in rowsSeen : ~WatcherLocked(s, p)
        /\ Statement(s, [pc |-> "deleteCursor", thread |-> t],
              {<<"watcher-", p>> : p \in rowsSeen})
        /\ UNCHANGED clock

\* DELETE FROM thread_watches, in the same way.
DeleteCursor(s) ==
    LET rowsSeen == {Own(s, txn[s].thread)} \intersect threadWatches
    IN  /\ txn[s].pc = "deleteCursor"
        /\ \A p \in rowsSeen : ~CursorLocked(s, p)
        /\ Statement(s, [pc |-> "commit"], {<<"cursor-", p>> : p \in rowsSeen})
        /\ UNCHANGED clock

\* CatchUp: SELECT the actor's watches with their cursors.
BeginCatchUp(s) ==
    /\ CanBegin(s, "CatchUp")
    /\ Statement(s, [pc |-> "selectReplies",
                     todo |-> {<<p, lastReadAt[p]>> : p \in
                                  {q \in threadWatches : q[1] = ActorOf[s]}}], {})
    /\ UNCHANGED clock

\* SELECT the replies after the cursor that was read; nothing new: next watch.
SelectReplies(s, w) ==
    LET news == RepliesAfter(w[1][2], w[2])
        rest == txn[s].todo \ {w}
    IN  /\ w \in txn[s].todo
        /\ Statement(s, IF news = {} THEN [pc |-> "selectReplies", todo |-> rest]
                        ELSE [pc |-> "updateCursor", todo |-> rest,
                              watch |-> w[1], news |-> news], {})
        /\ UNCHANGED clock

\* UPDATE thread_watches to the latest of them, if the row is still there.
UpdateCursor(s) ==
    LET p == txn[s].watch
        latest == CHOOSE x \in txn[s].news : \A y \in txn[s].news : y <= x
    IN  /\ txn[s].pc = "updateCursor"
        /\ ~CursorLocked(s, p)
        /\ Statement(s, [pc |-> "selectReplies", todo |-> txn[s].todo],
              IF p \in threadWatches
              THEN {<<"cursor", p, latest>>, <<"returned", p, txn[s].news>>}
              ELSE {})
        /\ UNCHANGED clock

\* SELECT the unseen mentions; without any, no UPDATE follows.
SelectMentions(s) ==
    LET news == UnseenMentions(ActorOf[s])
    IN  /\ txn[s].pc = "selectReplies"
        /\ txn[s].todo = {}
        /\ Statement(s, [pc |-> IF news = {} THEN "commit" ELSE "markMentions"],
              {<<"gaveMention", m>> : m \in news})
        /\ UNCHANGED clock

\* UPDATE mentions SET seen_at for all that are unseen by now, waiting for
\* rows another catch_up of the actor is marking.
MarkMentions(s) ==
    LET unseen == UnseenMentions(ActorOf[s])
    IN  /\ txn[s].pc = "markMentions"
        /\ \A o \in Sessions \ {s} : unseen \intersect Written(o, "seen") = {}
        /\ Statement(s, [pc |-> "commit"], {<<"seen", m>> : m \in unseen})
        /\ UNCHANGED clock

\* COMMIT makes the writes of s visible and releases its locks.
Commit(s) ==
    LET cursorWrites == {w \in writes[s] : w[1] = "cursor"}
        gave == {w \in writes[s] : w[1] = "returned"}
        dropped == Written(s, "cursor-")
    IN  /\ txn[s].pc = "commit"
        /\ rows' = IF Written(s, "post") = {} THEN rows
                   ELSE Append(rows, CHOOSE p \in Written(s, "post") : TRUE)
        /\ watchers' = (watchers \union Written(s, "watcher+")) \ Written(s, "watcher-")
        /\ threadWatches' = (threadWatches \union Written(s, "cursor")) \ dropped
        /\ lastReadAt' = [p \in Pairs |->
              IF p \in dropped THEN 0
              ELSE IF p \in Written(s, "cursor")
                   THEN (CHOOSE w \in cursorWrites : w[2] = p)[3]
                   ELSE lastReadAt[p]]
        /\ mentions' = mentions \union Written(s, "mention")
        /\ seenMentions' = seenMentions \union Written(s, "seen")
        /\ returned' = [p \in Pairs |->
              IF p \in dropped THEN {}
              ELSE returned[p] \union UNION {w[3] : w \in {x \in gave : x[2] = p}}]
        /\ returnedMentions' = returnedMentions \union Written(s, "gaveMention")
        /\ txn' = [txn EXCEPT ![s] = Idle]
        /\ writes' = [writes EXCEPT ![s] = {}]
        /\ UNCHANGED clock

\* A failed statement, a deadlock victim, a cancelled request or a crash: the
\* whole transaction is undone, its time stamp is spent.
Rollback(s) ==
    /\ txn[s].pc # "idle"
    /\ txn' = [txn EXCEPT ![s] = Idle]
    /\ writes' = [writes EXCEPT ![s] = {}]
    /\ UNCHANGED <<clock, tables>>

Next ==
    \E s \in Sessions :
        \/ \E t \in Threads, M \in Handles : CreateThread(s, t, M)
        \/ \E t \in Threads, X \in Extras, M \in Handles : BeginAddReply(s, t, X, M)
        \/ InsertReply(s)
        \/ InsertWatchers(s)
        \/ UpsertCursors(s)
        \/ \E t \in Threads : BeginWatchThread(s, t)
        \/ EnsureCursor(s)
        \/ \E t \in Threads : BeginUnwatchThread(s, t)
        \/ DeleteCursor(s)
        \/ BeginCatchUp(s)
        \/ txn[s].pc = "selectReplies" /\ \E w \in txn[s].todo : SelectReplies(s, w)
        \/ UpdateCursor(s)
        \/ SelectMentions(s)
        \/ MarkMentions(s)
        \/ Commit(s)
        \/ Rollback(s)

Spec == Init /\ [][Next]_vars

------------------------------------------------------------------------------
\* The committed tables are well formed, and only an open transaction holds
\* uncommitted writes.
TypeOK ==
    /\ clock \in 0 .. MaxPosts
    /\ rows \in Seq(Post)
    /\ watchers \subseteq Pairs /\ threadWatches \subseteq Pairs
    /\ lastReadAt \in [Pairs -> 0 .. MaxPosts]
    /\ \A m \in mentions : (\E i \in DOMAIN rows : rows[i].at = m[1]) /\ m[2] \in Actors
    /\ seenMentions \subseteq mentions
    /\ \A s \in Sessions : txn[s].pc = "idle" => writes[s] = {}

\* thread_watch.go:10-14 and 31-34: a Watcher row and a ThreadWatch row exist
\* together or not at all.
WatchTablesAgree == watchers = threadWatches

\* A reply a subscription has been given is never selected for it again.
NeverReturnedTwice ==
    \A p \in threadWatches : RepliesAfter(p[2], lastReadAt[p]) \intersect returned[p] = {}

OwnPostCovers(p, r) ==
    \E i \in DOMAIN rows :
        rows[i].thread = p[2] /\ rows[i].author = p[1] /\ r <= rows[i].at

\* catchup.go:14-15, minus the replies an actor skips by posting after them:
\* no committed reply is behind a cursor without having been returned.
NothingSkippedSilently ==
    \A p \in threadWatches : \A r \in RepliesAfter(p[2], 0) :
        r <= lastReadAt[p] => r \in returned[p] \/ OwnPostCovers(p, r)

\* catchup.go:16: calling it "marks the returned items as read/seen", so what
\* is marked has been returned.
SeenMentionsWereReturned == seenMentions \subseteq returnedMentions

\* The tables as a whole on one connection: their shape, and no mention marked
\* behind its reader's back.
TablesInv == TypeOK /\ SeenMentionsWereReturned

\* A cursor never moves back while its row exists.
CursorMonotone ==
    [][\A p \in Pairs : p \in threadWatches /\ p \in threadWatches' =>
          lastReadAt[p] <= lastReadAt'[p]]_vars

\* On one connection the statements of a call amount to the one step Board.tla
\* makes of it.  Board counts posts where this module keeps time stamps.
Rank(at) == Cardinality({i \in DOMAIN rows : rows[i].at <= at})

Atomic == INSTANCE Board WITH
    posts <- [i \in DOMAIN rows |->
                [thread |-> rows[i].thread, author |-> rows[i].author,
                 opens |-> rows[i].opens]],
    lastReadAt <- [p \in Pairs |-> Rank(lastReadAt[p])],
    mentions <- {<<Rank(m[1]), m[2]>> : m \in mentions},
    seenMentions <- {<<Rank(m[1]), m[2]>> : m \in seenMentions},
    returned <- [p \in Pairs |-> {Rank(r) : r \in returned[p]}]

ImplementsBoard == Atomic!Spec
==============================================================================
