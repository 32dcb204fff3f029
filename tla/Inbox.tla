-------------------------------- MODULE Inbox --------------------------------
(***************************************************************************)
(* What the board promises an agent about its news, without any clock or   *)
(* read cursor: every subscriber of a thread has its own set of replies it *)
(* has not collected, every actor its own set of mentions.  Posting into a *)
(* thread counts as having read it.  Board.tla keeps one timestamp per     *)
(* subscription instead and is shown to implement this module.             *)
(***************************************************************************)
CONSTANTS Actors, Threads,
          Ids           \* identities of posts

VARIABLES
    used,             \* posts (opening posts and replies) that exist
    opened,           \* threads that exist
    replies,          \* replies[t]: the replies of thread t
    subscribed,       \* <<actor, thread>> pairs
    pending,          \* pending[a, t]: replies of t that a has yet to collect
    collected,        \* collected[a, t]: replies handed to a in this subscription
    pendingMentions   \* <<post, actor>> mentions not yet collected

inboxVars ==
    <<used, opened, replies, subscribed, pending, collected, pendingMentions>>

Pairs == Actors \X Threads

Init ==
    /\ used = {}
    /\ opened = {}
    /\ replies = [t \in Threads |-> {}]
    /\ subscribed = {}
    /\ pending = [p \in Pairs |-> {}]
    /\ collected = [p \in Pairs |-> {}]
    /\ pendingMentions = {}

\* A thread is opened with post n; its author is subscribed from the start.
Open(a, t, n, M) ==
    /\ t \notin opened
    /\ n \in Ids \ used
    /\ used' = used \union {n}
    /\ opened' = opened \union {t}
    /\ subscribed' = subscribed \union {<<a, t>>}
    /\ pendingMentions' = pendingMentions \union ({n} \X (M \ {a}))
    /\ UNCHANGED <<replies, pending, collected>>

\* Reply n reaches every subscriber but its author, for whom the thread
\* becomes read.  An actor of X who was not subscribed gets the whole thread.
Post(a, t, n, X, M) ==
    /\ t \in opened
    /\ n \in Ids \ used
    /\ used' = used \union {n}
    /\ replies' = [replies EXCEPT ![t] = @ \union {n}]
    /\ subscribed' = subscribed \union ((X \union {a}) \X {t})
    /\ pending' = [p \in Pairs |->
          IF p[2] # t THEN pending[p]
          ELSE IF p[1] = a THEN {}
          ELSE IF p \in subscribed THEN pending[p] \union {n}
          ELSE IF p[1] \in X THEN replies'[t]
          ELSE {}]
    /\ pendingMentions' = pendingMentions \union ({n} \X (M \ {a}))
    /\ UNCHANGED <<opened, collected>>

\* A new subscriber has the whole history of the thread before it.
Subscribe(a, t) ==
    /\ t \in opened
    /\ <<a, t>> \notin subscribed
    /\ subscribed' = subscribed \union {<<a, t>>}
    /\ pending' = [pending EXCEPT ![<<a, t>>] = replies[t]]
    /\ UNCHANGED <<used, opened, replies, collected, pendingMentions>>

Unsubscribe(a, t) ==
    /\ subscribed' = subscribed \ {<<a, t>>}
    /\ pending' = [pending EXCEPT ![<<a, t>>] = {}]
    /\ collected' = [collected EXCEPT ![<<a, t>>] = {}]
    /\ UNCHANGED <<used, opened, replies, pendingMentions>>

\* Everything pending for a is handed out, and nothing else is.
Collect(a) ==
    /\ collected' = [p \in Pairs |->
          IF p[1] = a THEN collected[p] \union pending[p] ELSE collected[p]]
    /\ pending' = [p \in Pairs |-> IF p[1] = a THEN {} ELSE pending[p]]
    /\ pendingMentions' = {m \in pendingMentions : m[2] # a}
    /\ UNCHANGED <<used, opened, replies, subscribed>>

Next ==
    \E a \in Actors :
        \/ Collect(a)
        \/ \E t \in Threads :
              \/ Subscribe(a, t)
              \/ Unsubscribe(a, t)
              \/ \E n \in Ids \ used, M \in SUBSET Actors :
                    \/ Open(a, t, n, M)
                    \/ \E X \in SUBSET Actors : Post(a, t, n, X, M)

Spec == Init /\ [][Next]_inboxVars
==============================================================================
