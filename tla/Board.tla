-------------------------------- MODULE Board --------------------------------
(***************************************************************************)
(* Threads, replies, watchers, read cursors and mentions as                *)
(* internal/storage keeps them, one storage call per action.  A call is    *)
(* one database transaction, and on SQLite the pool holds a single         *)
(* connection (db_sqlite.go:38-48), so calls do run one at a time there.   *)
(* BoardTx.tla splits the calls into their SQL statements.                 *)
(*                                                                         *)
(* created_at is stamped inside the transaction that inserts the row, so   *)
(* time is modelled by position: posts[i] was created at time i.           *)
(***************************************************************************)
EXTENDS Integers, Sequences

CONSTANTS
    Actors,     \* actors with a row in the actors table
    Threads,    \* thread ids (fresh UUIDs in the code)
    MaxPosts    \* bound: how many posts a behaviour may contain

ASSUME MaxPostsAssumption == MaxPosts \in Nat

VARIABLES
    posts,          \* threads and replies rows in created_at order
    watchers,       \* Watcher rows, <<actor, thread>>: who is notified
    threadWatches,  \* ThreadWatch rows, <<actor, thread>>: who catches up
    lastReadAt,     \* ThreadWatch.LastReadAt; 0 is the zero time.Time
    mentions,       \* Mention rows, <<post, actor>>
    seenMentions,   \* those with SeenAt set
    returned        \* history: replies catch_up gave the actor while the
                    \* present ThreadWatch row existed

vars == <<posts, watchers, threadWatches, lastReadAt, mentions, seenMentions,
          returned>>

Pairs == Actors \X Threads
Times == 0 .. MaxPosts

Post == [thread : Threads, author : Actors, opens : BOOLEAN]

\* The created_at of the next post.
Now == Len(posts) + 1

Exists(t) == \E i \in DOMAIN posts : posts[i].thread = t

Replies(t) == {i \in DOMAIN posts : posts[i].thread = t /\ ~posts[i].opens}

\* Faulty variant: created_at >= last_read_at.
UnreadFromCursor(p) ==
    {r \in Replies(p[2]) : p \in threadWatches /\ r >= lastReadAt[p]}

\* The rows CatchUp selects for one watch: created_at > last_read_at.
Unread(p) == {r \in Replies(p[2]) : p \in threadWatches /\ r > lastReadAt[p]}

\* Faulty variant: the filter on the actor is missing.
UnseenByAnybody(a) == mentions \ seenMentions

UnseenMentions(a) == {m \in mentions \ seenMentions : m[2] = a}

Latest(S) == CHOOSE x \in S : \A y \in S : y <= x

\* One row per actor and post, none for the author (thread_repo.go:242-248).
NewMentions(a, M) == {Now} \X (M \ {a})

------------------------------------------------------------------------------
Init ==
    /\ posts = <<>>
    /\ watchers = {}
    /\ threadWatches = {}
    /\ lastReadAt = [p \in Pairs |-> 0]
    /\ mentions = {}
    /\ seenMentions = {}
    /\ returned = [p \in Pairs |-> {}]

\* CreateThreadExt: the author watches its own thread from its creation on.
\* M is what the handles in the body resolve to.
CreateThread(a, t, M) ==
    /\ Len(posts) < MaxPosts
    /\ ~Exists(t)
    /\ posts' = Append(posts, [thread |-> t, author |-> a, opens |-> TRUE])
    /\ watchers' = watchers \union {<<a, t>>}
    /\ threadWatches' = threadWatches \union {<<a, t>>}
    /\ lastReadAt' = [lastReadAt EXCEPT ![<<a, t>>] = Now]
    /\ mentions' = mentions \union NewMentions(a, M)
    /\ UNCHANGED <<seenMentions, returned>>

\* AddReply: the author's cursor is set to the reply's own timestamp, an extra
\* watcher in X who has no row yet gets one with the zero time.
AddReply(a, t, X, M) ==
    /\ Len(posts) < MaxPosts
    /\ Exists(t)
    /\ posts' = Append(posts, [thread |-> t, author |-> a, opens |-> FALSE])
    /\ watchers' = watchers \union ((X \union {a}) \X {t})
    /\ threadWatches' = threadWatches \union ((X \union {a}) \X {t})
    /\ lastReadAt' = [lastReadAt EXCEPT ![<<a, t>>] = Now]
    /\ mentions' = mentions \union NewMentions(a, M)
    /\ UNCHANGED <<seenMentions, returned>>

\* Faulty variants: a new subscription starts at the latest post; watching
\* again overwrites the row.
WatchFromNowOn(a, t) ==
    /\ Exists(t)
    /\ watchers' = watchers \union {<<a, t>>}
    /\ threadWatches' = threadWatches \union {<<a, t>>}
    /\ lastReadAt' = IF <<a, t>> \in threadWatches THEN lastReadAt
                     ELSE [lastReadAt EXCEPT ![<<a, t>>] = Len(posts)]
    /\ UNCHANGED <<posts, mentions, seenMentions, returned>>

WatchOverwrites(a, t) ==
    /\ Exists(t)
    /\ watchers' = watchers \union {<<a, t>>}
    /\ threadWatches' = threadWatches \union {<<a, t>>}
    /\ lastReadAt' = [lastReadAt EXCEPT ![<<a, t>>] = 0]
    /\ UNCHANGED <<posts, mentions, seenMentions, returned>>

\* WatchThread: both inserts are ON CONFLICT DO NOTHING.
WatchThread(a, t) ==
    /\ Exists(t)
    /\ watchers' = watchers \union {<<a, t>>}
    /\ threadWatches' = threadWatches \union {<<a, t>>}
    /\ UNCHANGED <<posts, lastReadAt, mentions, seenMentions, returned>>

\* Faulty variant: only the Watcher row goes.
UnwatchNotificationsOnly(a, t) ==
    /\ watchers' = watchers \ {<<a, t>>}
    /\ UNCHANGED <<posts, threadWatches, lastReadAt, mentions, seenMentions, returned>>

\* UnwatchThread deletes both rows and the cursor with them.
UnwatchThread(a, t) ==
    /\ watchers' = watchers \ {<<a, t>>}
    /\ threadWatches' = threadWatches \ {<<a, t>>}
    /\ lastReadAt' = [lastReadAt EXCEPT ![<<a, t>>] = 0]
    /\ returned' = [returned EXCEPT ![<<a, t>>] = {}]
    /\ UNCHANGED <<posts, mentions, seenMentions>>

\* CatchUp: every watch with news moves to its latest reply, all unseen
\* mentions become seen.
CatchUp(a) ==
    /\ lastReadAt' = [p \in Pairs |->
          IF p[1] = a /\ Unread(p) # {} THEN Latest(Unread(p)) ELSE lastReadAt[p]]
    /\ seenMentions' = seenMentions \union UnseenMentions(a)
    /\ returned' = [p \in Pairs |->
          IF p[1] = a THEN returned[p] \union Unread(p) ELSE returned[p]]
    /\ UNCHANGED <<posts, watchers, threadWatches, mentions>>

Next ==
    \/ \E a \in Actors, t \in Threads, M \in SUBSET Actors : CreateThread(a, t, M)
    \/ \E a \in Actors, t \in Threads, X \in SUBSET Actors, M \in SUBSET Actors :
          AddReply(a, t, X, M)
    \/ \E a \in Actors, t \in Threads : WatchThread(a, t)
    \/ \E a \in Actors, t \in Threads : UnwatchThread(a, t)
    \/ \E a \in Actors : CatchUp(a)

Spec == Init /\ [][Next]_vars

------------------------------------------------------------------------------
\* Every table holds rows of its own shape, and no cursor is in the future.
TypeOK ==
    /\ posts \in Seq(Post)
    /\ Len(posts) <= MaxPosts
    /\ watchers \subseteq Pairs
    /\ threadWatches \subseteq Pairs
    /\ lastReadAt \in [Pairs -> Times]
    /\ \A p \in Pairs : lastReadAt[p] <= Len(posts)
    /\ mentions \subseteq ((DOMAIN posts) \X Actors)
    /\ seenMentions \subseteq mentions
    /\ returned \in [Pairs -> SUBSET DOMAIN posts]

\* Who is notified of a thread's replies is exactly who gets them from
\* catch_up, although the two live in different tables written by different
\* statements (the reason UnwatchThread deletes both rows).
WatchTablesAgree == watchers = threadWatches

\* At most once: a reply catch_up has handed out does not come back while the
\* subscription lasts.
NeverReturnedTwice == \A p \in Pairs : returned[p] \intersect Unread(p) = {}

\* What a post of the actor's own skipped: replies older than it.
OwnPostCovers(p, r) ==
    \E i \in DOMAIN posts : posts[i].thread = p[2] /\ posts[i].author = p[1] /\ r <= i

\* At least once, as far as the code provides it: the cursor stands past a
\* reply only if catch_up handed the reply out or the actor itself posted in
\* the thread at or after it.
NothingSkippedSilently ==
    \A p \in threadWatches : \A r \in Replies(p[2]) :
        r <= lastReadAt[p] => r \in returned[p] \/ OwnPostCovers(p, r)

\* A handed-out reply is behind the cursor, and a row that does not exist has
\* neither cursor nor history: what makes the properties above inductive.
ReturnedBehindCursor ==
    \A p \in Pairs : \A r \in returned[p] : r <= lastReadAt[p]

NoRowNoCursor ==
    \A p \in Pairs \ threadWatches : lastReadAt[p] = 0 /\ returned[p] = {}

BoardInv ==
    /\ TypeOK
    /\ WatchTablesAgree
    /\ ReturnedBehindCursor
    /\ NoRowNoCursor
    /\ NothingSkippedSilently

\* catchup.go:14-15 as it stands: catch_up "returns everything new ... unread
\* replies in every thread they watch", so a reply by somebody else behind the
\* cursor has been returned.
CatchUpReturnsEverything ==
    \A p \in threadWatches : \A r \in Replies(p[2]) :
        r <= lastReadAt[p] /\ posts[r].author # p[1] => r \in returned[p]

\* A cursor never moves back while its row exists: re-watching, being added as
\* an extra watcher again or catching up late never re-opens what was read.
CursorMonotone ==
    [][\A p \in Pairs : p \in threadWatches /\ p \in threadWatches' =>
          lastReadAt[p] <= lastReadAt'[p]]_vars

\* One timestamp per subscription is enough to keep the promise of Inbox.tla.
Promise == INSTANCE Inbox WITH
    Ids <- 1 .. MaxPosts,
    used <- DOMAIN posts,
    opened <- {t \in Threads : Exists(t)},
    replies <- [t \in Threads |-> Replies(t)],
    subscribed <- threadWatches,
    pending <- [p \in Pairs |-> Unread(p)],
    collected <- returned,
    pendingMentions <- mentions \ seenMentions

ImplementsInbox == Promise!Spec
==============================================================================
