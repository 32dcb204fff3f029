------------------------------- MODULE Listing -------------------------------
(***************************************************************************)
(* The two paged listings, and what changes under them.  list_threads goes *)
(* through the threads newest first, by a cursor of time and id, while     *)
(* posters open threads (with an external id they must not open twice) and *)
(* others resolve and reopen them.  GET /api/tool-calls goes through the   *)
(* audit rows by their time alone.                                         *)
(*                                                                         *)
(* A row's time is read before its transaction commits, as on Postgres; on *)
(* SQLite the two are adjacent.  Several rows may carry one time.          *)
(***************************************************************************)
EXTENDS Integers, FiniteSets, Sequences, FiniteSetsExt

CONSTANTS
    ThreadIds,     \* random ids: integers, as they are compared
    Tagged,        \* the thread ids whose thread is created with the tag
    CallIds,       \* ids of tool calls
    ExternalIds,
    Posters,
    Filters,       \* bound: the filters that are tried, None for any status
    Limit,         \* rows of a page
    MaxNow,        \* bound: readings of the clock
    MaxRows,       \* bound: rows in the two tables
    MaxFaults,     \* bound: lookups and transactions that fail
    None

ASSUME ListingAssumption ==
    /\ ThreadIds \subseteq Nat /\ Tagged \subseteq ThreadIds
    /\ ThreadIds \cap CallIds = {}
    /\ Filters \subseteq [status : {None, "open", "resolved"}, tag : BOOLEAN]
    /\ Limit \in Nat \ {0} /\ MaxNow \in Nat \ {0}
    /\ MaxRows \in Nat /\ MaxFaults \in Nat
    /\ None \notin ExternalIds

VARIABLES
    now,
    threads,   \* the thread rows: id, createdAt, external, status
    calls,     \* the tool_calls rows: id, calledAt
    started,   \* the tool calls that run, or whose row is not written yet
    poster,    \* what each poster's create_thread does next, and its locals
    walk,      \* one reader's walk through the pages
    faults

vars == <<now, threads, calls, started, poster, walk, faults>>

Idle == [at |-> "idle"]
Ids(rows) == {row.id : row \in rows}
WithExternalId(x) == {t \in threads : t.external = x /\ x # None}

Uncommitted(p) == poster[p].at = "commit"

\* Another row may be inserted: those under way count.
MayInsert ==
    Cardinality(threads) + Cardinality(calls \union started)
        + Cardinality({p \in Posters : Uncommitted(p)}) < MaxRows

Init ==
    /\ now = 1
    /\ threads = {} /\ calls = {} /\ started = {}
    /\ poster = [p \in Posters |-> Idle]
    /\ walk = Idle
    /\ faults = 0

\* The clock is coarse: several rows may be stamped between two ticks.
Tick ==
    /\ now < MaxNow
    /\ now' = now + 1
    /\ UNCHANGED <<threads, calls, started, poster, walk, faults>>

------------------------------------------------------------------------------
(* create_thread.                                                          *)

Unchanged == UNCHANGED <<now, calls, started, walk>>

\* `existed` is history: the external id was a thread's when the call began.
Post(p, x) ==
    /\ poster[p].at = "idle"
    /\ poster' = [poster EXCEPT ![p] =
          [at |-> IF x = None THEN "insert" ELSE "find", external |-> x,
           existed |-> WithExternalId(x) # {}, failed |-> FALSE]]
    /\ UNCHANGED <<now, threads, calls, started, walk, faults>>

\* Faulty variant: the dedup key is not looked up first.
InsertBlindly(p) ==
    /\ poster[p].at = "find"
    /\ poster' = [poster EXCEPT ![p].at = "insert"]
    /\ Unchanged /\ UNCHANGED <<threads, faults>>

\* GetThreadByExternalID finds a thread, which is the answer, or none.
Find(p) ==
    /\ poster[p].at = "find"
    /\ poster' = [poster EXCEPT ![p] =
          IF WithExternalId(@.external) # {} THEN Idle ELSE [@ EXCEPT !.at = "insert"]]
    /\ Unchanged /\ UNCHANGED <<threads, faults>>

\* It fails: the handler takes any error for "none" and goes on.
FindFails(p) ==
    /\ poster[p].at = "find" /\ faults < MaxFaults
    /\ poster' = [poster EXCEPT ![p].at = "insert", ![p].failed = TRUE]
    /\ faults' = faults + 1
    /\ Unchanged /\ UNCHANGED threads

\* The unique index makes an insert wait for another's that may still fail.
UniqueIndexFree(p) ==
    poster[p].external # None =>
        \A q \in Posters \ {p} : Uncommitted(q) => poster[q].external # poster[p].external

\* Faulty variant: external ids have no unique index.
NeverTaken(x) == FALSE

\* The unique index has the external id.
Taken(x) == WithExternalId(x) # {}

\* CreateThreadExt inserts the row, stamped with the time.
Insert(p, id) ==
    /\ poster[p].at = "insert"
    /\ MayInsert /\ UniqueIndexFree(p)
    /\ id \notin Ids(threads) /\ \A q \in Posters : Uncommitted(q) => poster[q].row.id # id
    /\ ~Taken(poster[p].external)
    /\ poster' = [poster EXCEPT ![p] =
          [at |-> "commit", external |-> @.external,
           row |-> [id |-> id, createdAt |-> now, external |-> @.external, status |-> "open"]]]
    /\ Unchanged /\ UNCHANGED <<threads, faults>>

\* The unique index refuses it: the call fails.
Refused(p) ==
    /\ poster[p].at = "insert"
    /\ Taken(poster[p].external)
    /\ poster' = [poster EXCEPT ![p] = Idle]
    /\ Unchanged /\ UNCHANGED <<threads, faults>>

Commit(p) ==
    /\ Uncommitted(p)
    /\ threads' = threads \union {poster[p].row}
    /\ poster' = [poster EXCEPT ![p] = Idle]
    /\ Unchanged /\ UNCHANGED faults

\* A later statement of the transaction fails, or the server dies.
Rollback(p) ==
    /\ Uncommitted(p) /\ faults < MaxFaults
    /\ poster' = [poster EXCEPT ![p] = Idle]
    /\ faults' = faults + 1
    /\ Unchanged /\ UNCHANGED threads

------------------------------------------------------------------------------
(* resolve_thread, reopen_thread; tool calls.                              *)

Meets(t, f) == f.status \in {None, t.status} /\ (f.tag => t.id \in Tagged)

\* setThreadStatus.  Its SELECT and its UPDATE count as one step: threads are never
\* deleted.  History: a thread that changes need not be listed under a filter for a
\* status.
SetThreadStatus(id, status) ==
    /\ \E t \in threads : t.id = id /\ t.status # status
    /\ threads' = {IF t.id = id THEN [t EXCEPT !.status = status] ELSE t : t \in threads}
    /\ walk' = IF walk.at = "threads" /\ walk.filter.status # None
               THEN [walk EXCEPT !.due = @ \ {id}] ELSE walk
    /\ UNCHANGED <<now, calls, started, poster, faults>>

\* A tool call starts at the time its row will carry...  History: it need not be
\* told apart from another of that time.
StartCall(id) ==
    /\ MayInsert /\ id \notin Ids(started \union calls)
    /\ started' = started \union {[id |-> id, calledAt |-> now]}
    /\ walk' = IF walk.at = "calls"
               THEN [walk EXCEPT !.due = @ \ Ids({c \in calls : c.calledAt = now})] ELSE walk
    /\ UNCHANGED <<now, threads, calls, poster, faults>>

\* ... and is recorded some time after it ended.
RecordCall(row) ==
    /\ started' = started \ {row}
    /\ calls' = calls \union {row}
    /\ UNCHANGED <<now, threads, poster, walk, faults>>

------------------------------------------------------------------------------
(* The pages.                                                              *)

\* A walk's cursor before its first page: every row comes after it.
Start == [time |-> MaxNow + 1, id |-> 0]

\* ORDER BY created_at desc, id desc.
Newer(q, r) == q.time > r.time \/ (q.time = r.time /\ q.id > r.id)

\* Faulty variant: the cursor has no id, and skips the rows of its time.
PastTime(row, cursor) == row.time < cursor.time

\* Faulty variant: the cursor's own row comes once more.
NotNewer(row, cursor) == ~Newer(row, cursor)

\* ListThreads' WHERE (created_at < ?) OR (created_at = ? AND id < ?).
PastCursor(row, cursor) ==
    row.time < cursor.time \/ (row.time = cursor.time /\ row.id < cursor.id)

ThreadRow(t) == [time |-> t.createdAt, id |-> t.id]

\* The limit + 1 rows that are read, but for the one that only tells that there
\* is a next page.
Page(rows, cursor) ==
    LET rest == {r \in rows : PastCursor(r, cursor)}
        rank(r) == Cardinality({q \in rest : Newer(q, r)})
    IN  [rows |-> {r \in rest : rank(r) < Limit}, more |-> Cardinality(rest) > Limit]

\* A reader lists the threads that meet a filter.
WalkThreads(f) ==
    /\ walk.at = "idle"
    /\ walk' = [at |-> "threads", filter |-> f, cursor |-> Start, returned |-> {},
                repeated |-> FALSE, due |-> {t.id : t \in {u \in threads : Meets(u, f)}}]
    /\ UNCHANGED <<now, threads, calls, started, poster, faults>>

\* The next page goes to the reader; history: what it has been given so far.
Turn(page, next, more) ==
    LET given == [walk EXCEPT !.returned = @ \union Ids(page),
                              !.repeated = @ \/ Ids(page) \cap walk.returned # {},
                              !.cursor = next]
    IN  walk' = IF more THEN given ELSE [given EXCEPT !.at = "end"]

\* ListThreads; the next cursor is the last row of the page.
NextPage ==
    /\ walk.at = "threads"
    /\ LET matching == {ThreadRow(t) : t \in {u \in threads : Meets(u, walk.filter)}}
           page     == Page(matching, walk.cursor)
           last     == CHOOSE r \in page.rows : \A q \in page.rows : ~Newer(r, q)
       IN  Turn(page.rows, IF page.more THEN last ELSE walk.cursor, page.more)
    /\ UNCHANGED <<now, threads, calls, started, poster, faults>>

\* The operator lists the tool calls.  Rows of one time as another's cannot be
\* told apart by `before`: history, those with a time of their own are due.
WalkCalls ==
    /\ walk.at = "idle"
    /\ walk' = [at |-> "calls", cursor |-> Start, returned |-> {}, repeated |-> FALSE,
                due |-> Ids({c \in calls : \A d \in calls \union started :
                                  d.calledAt = c.calledAt => d = c})]
    /\ UNCHANGED <<now, threads, calls, started, poster, faults>>

CalledBefore(c, time) == c.calledAt < time

\* GET /api/tool-calls?before=...: LIMIT rows, newest first, in any order among
\* those of one time.  The reader goes on before the oldest, until a short page.
NextCalls ==
    /\ walk.at = "calls"
    /\ LET rest == {c \in calls : CalledBefore(c, walk.cursor.time)}
           size == IF Cardinality(rest) < Limit THEN Cardinality(rest) ELSE Limit
       IN  \E page \in kSubset(size, rest) :
             /\ \A c \in page, d \in rest \ page : c.calledAt >= d.calledAt
             /\ LET oldest == IF page = {} THEN 0 ELSE Min({c.calledAt : c \in page})
                IN  Turn(page, [walk.cursor EXCEPT !.time = oldest], size = Limit)
    /\ UNCHANGED <<now, threads, calls, started, poster, faults>>

EndWalk ==
    /\ walk.at = "end"
    /\ walk' = Idle
    /\ UNCHANGED <<now, threads, calls, started, poster, faults>>

Next ==
    \/ Tick
    \/ \E p \in Posters :
          \/ \E x \in ExternalIds \union {None} : Post(p, x)
          \/ Find(p) \/ FindFails(p) \/ Refused(p) \/ Commit(p) \/ Rollback(p)
          \/ \E id \in ThreadIds : Insert(p, id)
    \/ \E id \in ThreadIds, s \in {"open", "resolved"} : SetThreadStatus(id, s)
    \/ \E id \in CallIds : StartCall(id)
    \/ \E row \in started : RecordCall(row)
    \/ \E f \in Filters : WalkThreads(f)
    \/ NextPage \/ WalkCalls \/ NextCalls \/ EndWalk

Spec == Init /\ [][Next]_vars

------------------------------------------------------------------------------
(* Properties.                                                             *)

TypeOK ==
    /\ now \in 1 .. MaxNow
    /\ threads \subseteq [id : ThreadIds, createdAt : 1 .. now,
                          external : ExternalIds \union {None}, status : {"open", "resolved"}]
    /\ \A t, u \in threads : t.id = u.id => t = u
    /\ calls \union started \subseteq [id : CallIds, calledAt : 1 .. now]
    /\ \A p \in Posters : poster[p].at \in {"idle", "find", "insert", "commit"}
    /\ walk.at \in {"idle", "threads", "calls", "end"}
    /\ faults \in 0 .. MaxFaults

\* Two posters with one external id never open two threads, whoever looks,
\* inserts, waits or fails first (tool_create_thread.go:45-55, models.go:77).
OneThreadPerExternalId ==
    \A t, u \in threads : t.external = u.external /\ t.external # None => t = u

\* The rows' shape, and the uniqueness racing posters rely on.
ListingInv == TypeOK /\ OneThreadPerExternalId

\* A poster whose external id is a thread's is given that thread: the unique
\* index refuses only a call that raced another, or whose lookup failed
\* (tool_create_thread.go:46-48).
ExistingThreadIsReturned ==
    [][\A p \in Posters : Refused(p) => ~poster[p].existed \/ poster[p].failed]_vars

\* No walk returns a row twice, whatever is created, resolved or recorded
\* between its pages (thread_query.go:73).
PagesRepeatNothing == walk.at # "idle" => ~walk.repeated

\* A walk that came to its end has returned every thread that met its filter
\* from the first page on, though threads share their times and others commit
\* late (thread_query.go:48-89), and every tool call recorded when it began
\* that has a time of its own (tool_calls.go:21-62).
PagesMissNothing == walk.at = "end" => walk.due \subseteq walk.returned

==============================================================================
