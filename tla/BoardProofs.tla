----------------------------- MODULE BoardProofs -----------------------------
(***************************************************************************)
(* Theorems about Board.tla for any sets of actors and threads and any     *)
(* number of posts.                                                        *)
(***************************************************************************)
EXTENDS Board, WellFoundedInduction, TLAPS

\* A non-empty set of times has a latest one: CatchUp's cursor is well defined.
LEMMA LatestIsMaximum ==
    ASSUME NEW n \in Nat, NEW S \in SUBSET (1 .. n), S # {}
    PROVE  Latest(S) \in S /\ \A y \in S : y <= Latest(S)
<1> DEFINE back == {k \in Nat : n - k \in S}
<1>1. back \subseteq Nat /\ back # {}
  <2>1. PICK x \in S : TRUE
    OBVIOUS
  <2>2. n - x \in Nat /\ n - (n - x) = x
    BY <2>1
  <2>3. n - x \in back
    BY <2>1, <2>2
  <2> QED
    BY <2>3
<1>2. PICK k \in back : \A j \in back : ~ (<<j, k>> \in OpToRel(<, Nat))
  <2> HIDE DEF back
  <2> QED
    BY <1>1, NatLessThanWellFounded, WFMin
<1>3. \A j \in back : ~ (j < k)
  BY <1>1, <1>2 DEF OpToRel
<1>4. \A y \in S : y <= n - k
  <2> TAKE y \in S
  <2>1. n - y \in Nat /\ n - (n - y) = y
    OBVIOUS
  <2>2. n - y \in back
    BY <2>1
  <2> QED
    BY <2>1, <2>2, <1>3
<1>5. \E x \in S : \A y \in S : y <= x
  BY <1>4
<1> QED
  BY <1>5 DEF Latest

\* The posts of a longer log are those of the shorter one and the new one.
LEMMA AppendPost ==
    ASSUME posts \in Seq(Post), NEW post \in Post, posts' = Append(posts, post)
    PROVE  /\ posts' \in Seq(Post)
           /\ Len(posts') = Len(posts) + 1
           /\ DOMAIN posts = 1 .. Len(posts)
           /\ DOMAIN posts' = 1 .. Len(posts')
           /\ \A i \in DOMAIN posts : posts'[i] = posts[i]
           /\ posts'[Now] = post
  BY DEF Now

\* The empty tables satisfy the invariant.
LEMMA InitEstablishesBoardInv == Init => BoardInv
<1> SUFFICES ASSUME Init PROVE BoardInv
  OBVIOUS
<1> USE MaxPostsAssumption
<1>1. TypeOK
  BY DEF Init, TypeOK, Times, Post
<1> QED
  BY <1>1 DEF Init, BoardInv, WatchTablesAgree, ReturnedBehindCursor,
     NoRowNoCursor, NothingSkippedSilently, Pairs

\* Both ways of posting (a thread's opening post, a reply) insert a post by a
\* into t, add rows W and put a's cursor on the new post.
LEMMA PostingPreservesBoardInv ==
    ASSUME BoardInv,
           NEW a \in Actors, NEW t \in Threads, NEW post \in Post,
           NEW W \in SUBSET Pairs, NEW M \in SUBSET Actors,
           <<a, t>> \in W,
           post.thread = t, post.author = a,
           Len(posts) < MaxPosts,
           posts' = Append(posts, post),
           watchers' = watchers \union W,
           threadWatches' = threadWatches \union W,
           lastReadAt' = [lastReadAt EXCEPT ![<<a, t>>] = Now],
           mentions' = mentions \union NewMentions(a, M),
           UNCHANGED <<seenMentions, returned>>
    PROVE  BoardInv'
<1> USE MaxPostsAssumption
<1>0. <<a, t>> \in Pairs
  BY DEF Pairs
<1>1. posts \in Seq(Post) /\ Len(posts) \in Nat
  BY DEF BoardInv, TypeOK
<1>2. /\ posts' \in Seq(Post)
      /\ Len(posts') = Len(posts) + 1
      /\ DOMAIN posts = 1 .. Len(posts)
      /\ DOMAIN posts' = 1 .. Len(posts')
      /\ \A i \in DOMAIN posts : posts'[i] = posts[i]
      /\ posts'[Now] = post
  BY <1>1, AppendPost
<1>3. Now \in DOMAIN posts' /\ Now \in Times /\ Now = Len(posts')
  BY <1>1, <1>2 DEF Now, Times
<1>4. TypeOK'
  <2>1. (posts \in Seq(Post) /\ Len(posts) <= MaxPosts)'
    BY <1>1, <1>2
  <2>2. (watchers \subseteq Pairs /\ threadWatches \subseteq Pairs)'
    BY DEF BoardInv, TypeOK
  <2>3. (lastReadAt \in [Pairs -> Times] /\ \A p \in Pairs : lastReadAt[p] <= Len(posts))'
    <3>1. lastReadAt' \in [Pairs -> Times]
      BY <1>3 DEF BoardInv, TypeOK
    <3>2. ASSUME NEW p \in Pairs PROVE lastReadAt'[p] <= Len(posts')
      <4>1. lastReadAt[p] \in Nat /\ lastReadAt[p] <= Len(posts)
        BY DEF BoardInv, TypeOK, Times
      <4>2. lastReadAt'[p] = lastReadAt[p] \/ lastReadAt'[p] = Now
        BY DEF BoardInv, TypeOK
      <4> QED
        BY <4>1, <4>2, <1>1, <1>2, <1>3
    <3> QED
      BY <3>1, <3>2
  <2>4. (mentions \subseteq ((DOMAIN posts) \X Actors) /\ seenMentions \subseteq mentions)'
    BY <1>1, <1>2, <1>3 DEF BoardInv, TypeOK, NewMentions
  <2>5. (returned \in [Pairs -> SUBSET DOMAIN posts])'
    BY <1>1, <1>2 DEF BoardInv, TypeOK
  <2> QED
    BY <2>1, <2>2, <2>3, <2>4, <2>5 DEF TypeOK
<1>5. WatchTablesAgree'
  BY DEF BoardInv, WatchTablesAgree
<1>6. ReturnedBehindCursor'
  <2> SUFFICES ASSUME NEW p \in Pairs, NEW r \in returned[p]
               PROVE  r <= lastReadAt'[p]
    BY DEF ReturnedBehindCursor
  <2>1. r \in 1 .. Len(posts) /\ r <= lastReadAt[p]
    BY <1>2 DEF BoardInv, TypeOK, ReturnedBehindCursor
  <2> QED
    BY <2>1, <1>1, <1>3 DEF BoardInv, TypeOK, Now
<1>7. NoRowNoCursor'
  BY DEF BoardInv, TypeOK, NoRowNoCursor
<1>8. NothingSkippedSilently'
  <2> SUFFICES ASSUME NEW p \in threadWatches', NEW r \in Replies(p[2])',
                      r <= lastReadAt'[p]
               PROVE  r \in returned[p] \/ OwnPostCovers(p, r)'
    BY DEF NothingSkippedSilently
  <2>0. p \in Pairs /\ r \in 1 .. Len(posts')
    BY <1>2 DEF BoardInv, TypeOK, Replies
  <2>1. CASE p = <<a, t>>
    <3>1. posts'[Now].thread = p[2] /\ posts'[Now].author = p[1] /\ r <= Now
      BY <2>0, <2>1, <1>2, <1>3
    <3> QED
      BY <3>1, <1>3 DEF OwnPostCovers
  <2>2. CASE p # <<a, t>>
    <3>1. lastReadAt'[p] = lastReadAt[p] /\ lastReadAt[p] \in Nat /\ lastReadAt[p] <= Len(posts)
      BY <2>0, <2>2 DEF BoardInv, TypeOK, Times
    <3>2. r \in DOMAIN posts
      BY <3>1, <2>0, <1>1, <1>2
    <3>3. r \in Replies(p[2])
      BY <3>2, <1>2 DEF Replies
    <3>4. p \in threadWatches
      BY <3>1, <2>0 DEF BoardInv, NoRowNoCursor
    <3>5. r \in returned[p] \/ OwnPostCovers(p, r)
      BY <3>1, <3>3, <3>4 DEF BoardInv, NothingSkippedSilently
    <3>6. OwnPostCovers(p, r) => OwnPostCovers(p, r)'
      BY <1>1, <1>2 DEF OwnPostCovers
    <3> QED
      BY <3>5, <3>6
  <2> QED
    BY <2>1, <2>2
<1> QED
  BY <1>4, <1>5, <1>6, <1>7, <1>8 DEF BoardInv

\* CreateThreadExt keeps the invariant: an opening post with one watch.
LEMMA CreateThreadPreservesBoardInv ==
    ASSUME BoardInv, NEW a \in Actors, NEW t \in Threads, NEW M \in SUBSET Actors,
           CreateThread(a, t, M)
    PROVE  BoardInv'
<1> DEFINE post == [thread |-> t, author |-> a, opens |-> TRUE]
<1>1. post \in Post /\ post.thread = t /\ post.author = a
  BY DEF Post
<1>2. {<<a, t>>} \in SUBSET Pairs /\ <<a, t>> \in {<<a, t>>}
  BY DEF Pairs
<1>3. posts' = Append(posts, post)
  BY DEF CreateThread
<1> HIDE DEF post
<1> QED
  BY <1>1, <1>2, <1>3, PostingPreservesBoardInv DEF CreateThread

\* AddReply keeps the invariant: a post with the watches of the author and X.
LEMMA AddReplyPreservesBoardInv ==
    ASSUME BoardInv, NEW a \in Actors, NEW t \in Threads,
           NEW X \in SUBSET Actors, NEW M \in SUBSET Actors,
           AddReply(a, t, X, M)
    PROVE  BoardInv'
<1> DEFINE post == [thread |-> t, author |-> a, opens |-> FALSE]
           W == (X \union {a}) \X {t}
<1>1. post \in Post /\ post.thread = t /\ post.author = a
  BY DEF Post
<1>2. W \in SUBSET Pairs /\ <<a, t>> \in W
  BY DEF Pairs
<1>3. /\ posts' = Append(posts, post)
      /\ watchers' = watchers \union W
      /\ threadWatches' = threadWatches \union W
  BY DEF AddReply
<1> HIDE DEF post, W
<1> QED
  BY <1>1, <1>2, <1>3, PostingPreservesBoardInv DEF AddReply

\* WatchThread keeps the invariant: a new row starts at 0, before every reply.
LEMMA WatchThreadPreservesBoardInv ==
    ASSUME BoardInv, NEW a \in Actors, NEW t \in Threads, WatchThread(a, t)
    PROVE  BoardInv'
<1>0. <<a, t>> \in Pairs /\ UNCHANGED <<posts, lastReadAt, mentions, seenMentions, returned>>
  BY DEF Pairs, WatchThread
<1>1. TypeOK'
  BY <1>0 DEF BoardInv, TypeOK, WatchThread
<1>2. WatchTablesAgree'
  BY DEF BoardInv, WatchTablesAgree, WatchThread
<1>3. ReturnedBehindCursor' /\ NoRowNoCursor'
  BY <1>0 DEF BoardInv, ReturnedBehindCursor, NoRowNoCursor, WatchThread
<1>4. NothingSkippedSilently'
  <2> SUFFICES ASSUME NEW p \in threadWatches', NEW r \in Replies(p[2]),
                      r <= lastReadAt[p]
               PROVE  r \in returned[p] \/ OwnPostCovers(p, r)
    BY <1>0 DEF NothingSkippedSilently, Replies, OwnPostCovers
  <2>1. p \in Pairs /\ r \in Nat \ {0}
    BY <1>0 DEF BoardInv, TypeOK, Replies, WatchThread
  <2>2. p \in threadWatches
    BY <2>1 DEF BoardInv, NoRowNoCursor
  <2> QED
    BY <2>2 DEF BoardInv, NothingSkippedSilently
<1> QED
  BY <1>1, <1>2, <1>3, <1>4 DEF BoardInv

\* UnwatchThread keeps the invariant: no row, no cursor, no history.
LEMMA UnwatchThreadPreservesBoardInv ==
    ASSUME BoardInv, NEW a \in Actors, NEW t \in Threads, UnwatchThread(a, t)
    PROVE  BoardInv'
<1> USE MaxPostsAssumption
<1>0. /\ <<a, t>> \in Pairs
      /\ UNCHANGED <<posts, mentions, seenMentions>>
      /\ \A p \in Pairs \ {<<a, t>>} :
            lastReadAt'[p] = lastReadAt[p] /\ returned'[p] = returned[p]
      /\ lastReadAt'[<<a, t>>] = 0 /\ returned'[<<a, t>>] = {}
      /\ threadWatches' = threadWatches \ {<<a, t>>}
  BY DEF Pairs, UnwatchThread, BoardInv, TypeOK
<1>1. TypeOK'
  BY <1>0 DEF BoardInv, TypeOK, UnwatchThread, Times
<1>2. WatchTablesAgree'
  BY DEF BoardInv, WatchTablesAgree, UnwatchThread
<1>3. ReturnedBehindCursor'
  BY <1>0 DEF BoardInv, ReturnedBehindCursor
<1>4. NoRowNoCursor'
  BY <1>0 DEF BoardInv, NoRowNoCursor
<1>5. NothingSkippedSilently'
  <2> SUFFICES ASSUME NEW p \in threadWatches', NEW r \in Replies(p[2]),
                      r <= lastReadAt'[p]
               PROVE  r \in returned'[p] \/ OwnPostCovers(p, r)
    BY <1>0 DEF NothingSkippedSilently, Replies, OwnPostCovers
  <2>1. p \in Pairs \ {<<a, t>>} /\ p \in threadWatches
    BY <1>0 DEF BoardInv, TypeOK
  <2> QED
    BY <2>1, <1>0 DEF BoardInv, NothingSkippedSilently
<1> QED
  BY <1>1, <1>2, <1>3, <1>4, <1>5 DEF BoardInv

\* The cursor CatchUp leaves: unmoved without news, else on the latest news.
LEMMA CatchUpCursor ==
    ASSUME TypeOK, NEW a \in Actors, CatchUp(a), NEW p \in Pairs
    PROVE  /\ lastReadAt[p] \in Nat /\ lastReadAt'[p] \in Times
           /\ lastReadAt[p] <= lastReadAt'[p]
           /\ lastReadAt'[p] <= Len(posts)
           /\ p[1] # a => lastReadAt'[p] = lastReadAt[p] /\ returned'[p] = returned[p]
           /\ p[1] = a => /\ \A r \in Unread(p) : r <= lastReadAt'[p]
                          /\ returned'[p] = returned[p] \union Unread(p)
           /\ p \notin threadWatches => lastReadAt'[p] = lastReadAt[p] /\ Unread(p) = {}
<1> USE MaxPostsAssumption
<1>1. /\ Len(posts) \in Nat /\ Len(posts) <= MaxPosts
      /\ Unread(p) \in SUBSET (1 .. Len(posts))
      /\ lastReadAt[p] \in Times /\ lastReadAt[p] <= Len(posts)
  BY DEF TypeOK, Unread, Replies
<1>2. \A r \in Unread(p) : r > lastReadAt[p]
  BY DEF Unread
<1>3. /\ lastReadAt'[p] = IF p[1] = a /\ Unread(p) # {} THEN Latest(Unread(p)) ELSE lastReadAt[p]
      /\ returned'[p] = IF p[1] = a THEN returned[p] \union Unread(p) ELSE returned[p]
  BY DEF CatchUp
<1>4. Unread(p) # {} => Latest(Unread(p)) \in Unread(p) /\ \A y \in Unread(p) : y <= Latest(Unread(p))
  BY <1>1, LatestIsMaximum
<1>5. p \notin threadWatches => Unread(p) = {}
  BY DEF Unread
<1> HIDE DEF Unread, Latest
<1> QED
  BY <1>1, <1>2, <1>3, <1>4, <1>5 DEF Times

\* CatchUp keeps the invariant: what the cursor passes is what was returned.
LEMMA CatchUpPreservesBoardInv ==
    ASSUME BoardInv, NEW a \in Actors, CatchUp(a)
    PROVE  BoardInv'
<1>0. TypeOK /\ UNCHANGED <<posts, watchers, threadWatches, mentions>>
  BY DEF BoardInv, CatchUp
<1>a. \A p \in Pairs :
           /\ lastReadAt[p] \in Nat /\ lastReadAt'[p] \in Times
           /\ lastReadAt[p] <= lastReadAt'[p]
           /\ lastReadAt'[p] <= Len(posts)
           /\ p[1] # a => lastReadAt'[p] = lastReadAt[p] /\ returned'[p] = returned[p]
           /\ p[1] = a => /\ \A r \in Unread(p) : r <= lastReadAt'[p]
                          /\ returned'[p] = returned[p] \union Unread(p)
           /\ p \notin threadWatches => lastReadAt'[p] = lastReadAt[p] /\ Unread(p) = {}
  BY <1>0, CatchUpCursor
<1>1. TypeOK'
  <2>1. lastReadAt' \in [Pairs -> Times]
    BY <1>a DEF CatchUp
  <2>2. returned' \in [Pairs -> SUBSET DOMAIN posts]
    BY <1>0 DEF CatchUp, TypeOK, Unread, Replies
  <2>3. seenMentions' \subseteq mentions
    BY <1>0 DEF CatchUp, TypeOK, UnseenMentions
  <2> QED
    BY <1>0, <1>a, <2>1, <2>2, <2>3 DEF TypeOK
<1>2. WatchTablesAgree'
  BY <1>0 DEF BoardInv, WatchTablesAgree
<1>3. ReturnedBehindCursor'
  <2> SUFFICES ASSUME NEW p \in Pairs, NEW r \in returned'[p]
               PROVE  r <= lastReadAt'[p]
    BY DEF ReturnedBehindCursor
  <2>1. CASE r \in returned[p]
    <3>1. r \in Nat /\ r <= lastReadAt[p]
      BY <2>1, <1>0 DEF BoardInv, TypeOK, ReturnedBehindCursor
    <3> QED
      BY <3>1, <1>a DEF Times
  <2>2. CASE r \notin returned[p]
    BY <2>2, <1>a
  <2> QED
    BY <2>1, <2>2
<1>4. NoRowNoCursor'
  BY <1>0, <1>a DEF BoardInv, NoRowNoCursor
<1>5. NothingSkippedSilently'
  <2> SUFFICES ASSUME NEW p \in threadWatches, NEW r \in Replies(p[2]),
                      r <= lastReadAt'[p]
               PROVE  r \in returned'[p] \/ OwnPostCovers(p, r)
    BY <1>0 DEF NothingSkippedSilently, Replies, OwnPostCovers
  <2>0. p \in Pairs /\ r \in Nat
    BY <1>0 DEF TypeOK, Replies
  <2>1. CASE r <= lastReadAt[p]
    <3>1. r \in returned[p] \/ OwnPostCovers(p, r)
      BY <2>1 DEF BoardInv, NothingSkippedSilently
    <3> QED
      BY <3>1, <2>0, <1>a
  <2>2. CASE r > lastReadAt[p]
    <3>1. r \in Unread(p) /\ p[1] = a
      BY <2>0, <2>2, <1>a DEF Unread
    <3> QED
      BY <3>1, <2>0, <1>a
  <2> QED
    BY <2>0, <2>1, <2>2, <1>a
<1> QED
  BY <1>1, <1>2, <1>3, <1>4, <1>5 DEF BoardInv

\* Every storage call keeps the invariant.
LEMMA StepPreservesBoardInv == BoardInv /\ [Next]_vars => BoardInv'
<1> SUFFICES ASSUME BoardInv, [Next]_vars PROVE BoardInv'
  OBVIOUS
<1>1. ASSUME NEW a \in Actors, NEW t \in Threads, NEW M \in SUBSET Actors,
             CreateThread(a, t, M)
      PROVE  BoardInv'
  BY <1>1, CreateThreadPreservesBoardInv
<1>2. ASSUME NEW a \in Actors, NEW t \in Threads,
             NEW X \in SUBSET Actors, NEW M \in SUBSET Actors, AddReply(a, t, X, M)
      PROVE  BoardInv'
  BY <1>2, AddReplyPreservesBoardInv
<1>3. ASSUME NEW a \in Actors, NEW t \in Threads, WatchThread(a, t) PROVE BoardInv'
  BY <1>3, WatchThreadPreservesBoardInv
<1>4. ASSUME NEW a \in Actors, NEW t \in Threads, UnwatchThread(a, t) PROVE BoardInv'
  BY <1>4, UnwatchThreadPreservesBoardInv
<1>5. ASSUME NEW a \in Actors, CatchUp(a) PROVE BoardInv'
  BY <1>5, CatchUpPreservesBoardInv
<1>6. CASE UNCHANGED vars
  BY <1>6 DEF vars, BoardInv, TypeOK, WatchTablesAgree, ReturnedBehindCursor,
     NoRowNoCursor, NothingSkippedSilently, Replies, OwnPostCovers
<1> QED
  BY <1>1, <1>2, <1>3, <1>4, <1>5, <1>6 DEF Next

------------------------------------------------------------------------------
\* The inductive invariant of the board: types, tables in step, cursors
\* accounted for.
THEOREM BoardInvariant == Spec => []BoardInv
<1> QED
  BY InitEstablishesBoardInv, StepPreservesBoardInv, PTL DEF Spec

\* Every table keeps its shape and no cursor runs ahead of the clock.
THEOREM TypeCorrect == Spec => []TypeOK
<1>1. BoardInv => TypeOK
  BY DEF BoardInv
<1> QED
  BY <1>1, BoardInvariant, PTL

\* A thread's notified actors are always those who can catch up on it.
THEOREM WatchTablesStayInStep == Spec => []WatchTablesAgree
<1>1. BoardInv => WatchTablesAgree
  BY DEF BoardInv
<1> QED
  BY <1>1, BoardInvariant, PTL

\* At most once: catch_up never hands the same reply to a subscription twice.
THEOREM AtMostOnce == Spec => []NeverReturnedTwice
<1>1. BoardInv => NeverReturnedTwice
  <2> SUFFICES ASSUME BoardInv, NEW p \in Pairs, NEW r \in returned[p], r \in Unread(p)
               PROVE  FALSE
    BY DEF NeverReturnedTwice
  <2>1. r \in Nat /\ lastReadAt[p] \in Nat
    BY DEF BoardInv, TypeOK, Times
  <2> QED
    BY <2>1 DEF BoardInv, ReturnedBehindCursor, Unread
<1> QED
  BY <1>1, BoardInvariant, PTL

\* At least once, up to what the actor's own posts skip.
THEOREM AtLeastOnceUpToOwnPosts == Spec => []NothingSkippedSilently
<1>1. BoardInv => NothingSkippedSilently
  BY DEF BoardInv
<1> QED
  BY <1>1, BoardInvariant, PTL

\* A read cursor never moves back while its row exists.
THEOREM CursorNeverMovesBack == Spec => CursorMonotone
<1>1. BoardInv /\ [Next]_vars =>
        [\A p \in Pairs : p \in threadWatches /\ p \in threadWatches' =>
            lastReadAt[p] <= lastReadAt'[p]]_vars
  <2> SUFFICES ASSUME BoardInv, Next, NEW p \in Pairs,
                      p \in threadWatches, p \in threadWatches'
               PROVE  lastReadAt[p] <= lastReadAt'[p]
    OBVIOUS
  <2>0. /\ TypeOK /\ Len(posts) \in Nat
        /\ lastReadAt[p] \in Nat /\ lastReadAt[p] <= Len(posts)
    BY DEF BoardInv, TypeOK, Times
  <2>1. ASSUME NEW a \in Actors, NEW t \in Threads,
               lastReadAt' = [lastReadAt EXCEPT ![<<a, t>>] = Now]
        PROVE  lastReadAt[p] <= lastReadAt'[p]
    BY <2>0, <2>1 DEF TypeOK, Now
  <2>2. CASE \E a \in Actors, t \in Threads, M \in SUBSET Actors : CreateThread(a, t, M)
    BY <2>1, <2>2 DEF CreateThread
  <2>3. CASE \E a \in Actors, t \in Threads, X \in SUBSET Actors, M \in SUBSET Actors :
                AddReply(a, t, X, M)
    BY <2>1, <2>3 DEF AddReply
  <2>4. CASE \E a \in Actors, t \in Threads : WatchThread(a, t)
    BY <2>0, <2>4 DEF WatchThread
  <2>5. CASE \E a \in Actors, t \in Threads : UnwatchThread(a, t)
    BY <2>0, <2>5 DEF UnwatchThread, TypeOK
  <2>6. CASE \E a \in Actors : CatchUp(a)
    BY <2>0, <2>6, CatchUpCursor
  <2> QED
    BY <2>2, <2>3, <2>4, <2>5, <2>6 DEF Next
<1> QED
  BY <1>1, BoardInvariant, PTL DEF Spec, CursorMonotone

------------------------------------------------------------------------------
(* Board.tla implements Inbox.tla: one timestamp per subscription keeps    *)
(* the promise of one set of uncollected replies per subscriber.           *)

\* The new post is later than every cursor and mentioned by nobody yet.
LEMMA NewPostIsFresh ==
    ASSUME BoardInv, Len(posts) < MaxPosts
    PROVE  /\ Now \in (1 .. MaxPosts) \ DOMAIN posts
           /\ \A p \in Pairs : lastReadAt[p] \in Nat /\ lastReadAt[p] < Now
           /\ \A b \in Actors : <<Now, b>> \notin seenMentions
  BY MaxPostsAssumption DEF BoardInv, TypeOK, Now, Times

\* The empty tables are an empty inbox.
LEMMA InitImplementsInbox == Init => Promise!Init
<1> SUFFICES ASSUME Init PROVE Promise!Init
  OBVIOUS
<1>1. DOMAIN posts = {}
  BY DEF Init
<1>2. \A t \in Threads : ~Exists(t) /\ Replies(t) = {}
  BY <1>1 DEF Exists, Replies
<1>3. \A p \in Pairs : Unread(p) = {}
  BY DEF Init, Unread
<1> QED
  BY <1>1, <1>2, <1>3 DEF Init, Promise!Init, Pairs, Promise!Pairs

\* CreateThreadExt is an Open: nothing becomes pending for anybody.
LEMMA CreateThreadOpens ==
    ASSUME BoardInv, NEW a \in Actors, NEW t \in Threads, NEW M \in SUBSET Actors,
           CreateThread(a, t, M)
    PROVE  Promise!Open(a, t, Now, M)
<1> DEFINE post == [thread |-> t, author |-> a, opens |-> TRUE]
<1>1. /\ posts \in Seq(Post) /\ Len(posts) \in Nat /\ Len(posts) < MaxPosts
      /\ post \in Post /\ post.thread = t /\ post.opens
      /\ posts' = Append(posts, post)
  BY DEF CreateThread, BoardInv, TypeOK, Post
<1> HIDE DEF post
<1>2. /\ DOMAIN posts' = (DOMAIN posts) \union {Now}
      /\ \A i \in DOMAIN posts : posts'[i] = posts[i]
      /\ posts'[Now] = post
  BY <1>1, AppendPost DEF Now
<1>3. /\ Now \in (1 .. MaxPosts) \ DOMAIN posts
      /\ \A b \in Actors : <<Now, b>> \notin seenMentions
  BY <1>1, NewPostIsFresh
<1>4. \A u \in Threads : Replies(u)' = Replies(u) /\ (Exists(u)' <=> Exists(u) \/ u = t)
  BY <1>1, <1>2, <1>3 DEF Replies, Exists
<1>5. \A p \in Pairs : Unread(p)' = Unread(p)
  <2> SUFFICES ASSUME NEW p \in Pairs PROVE Unread(p)' = Unread(p)
    OBVIOUS
  <2>1. p[2] \in Threads
    BY DEF Pairs
  <2>2. CASE p = <<a, t>>
    <3>1. Replies(p[2]) = {}
      BY <2>2 DEF CreateThread, Exists, Replies
    <3> QED
      BY <3>1, <2>1, <1>4 DEF Unread
  <2>3. CASE p # <<a, t>>
    <3>1. lastReadAt'[p] = lastReadAt[p] /\ (p \in threadWatches' <=> p \in threadWatches)
      BY <2>3 DEF CreateThread, BoardInv, TypeOK
    <3> QED
      BY <3>1, <2>1, <1>4 DEF Unread
  <2> QED
    BY <2>2, <2>3
<1>6. (mentions \ seenMentions)' = (mentions \ seenMentions) \union ({Now} \X (M \ {a}))
  BY <1>3 DEF CreateThread, NewMentions
<1>7. t \notin {u \in Threads : Exists(u)} /\ threadWatches' = threadWatches \union {<<a, t>>}
      /\ returned' = returned
  BY DEF CreateThread
<1> QED
  BY <1>2, <1>3, <1>4, <1>5, <1>6, <1>7 DEF Promise!Open, Pairs, Promise!Pairs

\* AddReply is a Post: the reply joins every subscriber's news, the author's is emptied.
LEMMA AddReplyPosts ==
    ASSUME BoardInv, NEW a \in Actors, NEW t \in Threads,
           NEW X \in SUBSET Actors, NEW M \in SUBSET Actors,
           AddReply(a, t, X, M)
    PROVE  Promise!Post(a, t, Now, X, M)
<1> DEFINE post == [thread |-> t, author |-> a, opens |-> FALSE]
<1>1. /\ posts \in Seq(Post) /\ Len(posts) \in Nat /\ Len(posts) < MaxPosts
      /\ post \in Post /\ post.thread = t /\ ~post.opens
      /\ posts' = Append(posts, post)
  BY DEF AddReply, BoardInv, TypeOK, Post
<1> HIDE DEF post
<1>2. /\ DOMAIN posts' = (DOMAIN posts) \union {Now}
      /\ \A i \in DOMAIN posts : posts'[i] = posts[i] /\ i \in Nat /\ i < Now
      /\ posts'[Now] = post
  BY <1>1, AppendPost DEF Now
<1>3. /\ Now \in (1 .. MaxPosts) \ DOMAIN posts
      /\ \A p \in Pairs : lastReadAt[p] \in Nat /\ lastReadAt[p] < Now
      /\ \A b \in Actors : <<Now, b>> \notin seenMentions
  BY <1>1, NewPostIsFresh
<1>4. \A u \in Threads : /\ Replies(u)' = IF u = t THEN Replies(t) \union {Now} ELSE Replies(u)
                         /\ Exists(u)' <=> Exists(u)
  <2>1. Exists(t)
    BY DEF AddReply
  <2> QED
    BY <1>1, <1>2, <1>3, <2>1 DEF Replies, Exists
<1>5. ASSUME NEW p \in Pairs
      PROVE  Unread(p)' = IF p[2] # t THEN Unread(p)
                          ELSE IF p[1] = a THEN {}
                          ELSE IF p \in threadWatches THEN Unread(p) \union {Now}
                          ELSE IF p[1] \in X THEN Replies(t)'
                          ELSE {}
  <2>0. /\ p[1] \in Actors /\ p[2] \in Threads /\ p = <<p[1], p[2]>>
        /\ \A r \in Replies(t) : r \in Nat \ {0} /\ r < Now
    BY <1>1, <1>2 DEF Pairs, Replies
  <2>1. CASE p = <<a, t>>
    <3>1. lastReadAt'[p] = Now
      BY <2>1 DEF AddReply, BoardInv, TypeOK
    <3>2. \A r \in Replies(t)' : ~(r > Now)
      BY <2>0, <1>3, <1>4
    <3> QED
      BY <3>1, <3>2, <2>1 DEF Unread
  <2>2. CASE p[2] # t
    <3>1. lastReadAt'[p] = lastReadAt[p] /\ (p \in threadWatches' <=> p \in threadWatches)
      BY <2>0, <2>2 DEF AddReply, BoardInv, TypeOK
    <3> QED
      BY <3>1, <2>0, <2>2, <1>4 DEF Unread
  <2>3. CASE p[2] = t /\ p[1] # a
    <3>1. /\ lastReadAt'[p] = lastReadAt[p]
          /\ p \in threadWatches' <=> p \in threadWatches \/ p[1] \in X
      BY <2>0, <2>3 DEF AddReply, BoardInv, TypeOK
    <3>2. Replies(t)' = Replies(t) \union {Now}
      BY <1>4
    <3>3. CASE p \in threadWatches
      <4>1. \A r : r \in Unread(p)' <=> r \in Replies(t) \union {Now} /\ r > lastReadAt[p]
        BY <3>1, <3>2, <3>3, <2>3 DEF Unread
      <4>2. \A r : r \in Unread(p) <=> r \in Replies(t) /\ r > lastReadAt[p]
        BY <3>3, <2>3 DEF Unread
      <4> QED
        BY <4>1, <4>2, <1>3, <2>3, <3>3
    <3>4. CASE p \notin threadWatches
      <4>1. lastReadAt[p] = 0
        BY <3>4 DEF BoardInv, NoRowNoCursor
      <4>2. \A r \in Replies(t)' : r > 0
        BY <3>2, <2>0, <1>3
      <4> QED
        BY <4>1, <4>2, <3>1, <3>4, <2>3 DEF Unread
    <3> QED
      BY <3>3, <3>4
  <2> QED
    BY <2>0, <2>1, <2>2, <2>3
<1>6. (mentions \ seenMentions)' = (mentions \ seenMentions) \union ({Now} \X (M \ {a}))
  BY <1>3 DEF AddReply, NewMentions
<1>7. /\ t \in {u \in Threads : Exists(u)}
      /\ threadWatches' = threadWatches \union ((X \union {a}) \X {t})
      /\ returned' = returned
  BY DEF AddReply
<1>8. [u \in Threads |-> Replies(u)]' = [[u \in Threads |-> Replies(u)] EXCEPT ![t] = @ \union {Now}]
  BY <1>4
<1>9. [u \in Threads |-> Replies(u)]'[t] = Replies(t)'
  OBVIOUS
<1>10. [p \in Pairs |-> Unread(p)]' = [p \in Pairs |->
          IF p[2] # t THEN [q \in Pairs |-> Unread(q)][p]
          ELSE IF p[1] = a THEN {}
          ELSE IF p \in threadWatches THEN [q \in Pairs |-> Unread(q)][p] \union {Now}
          ELSE IF p[1] \in X THEN [u \in Threads |-> Replies(u)]'[t]
          ELSE {}]
  BY <1>5, <1>9
<1>11. {u \in Threads : Exists(u)}' = {u \in Threads : Exists(u)}
  BY <1>4
<1> QED
  BY <1>2, <1>3, <1>6, <1>7, <1>8, <1>10, <1>11 DEF Promise!Post, Pairs, Promise!Pairs

\* WatchThread is a Subscribe with the whole history, or changes nothing.
LEMMA WatchThreadSubscribes ==
    ASSUME BoardInv, NEW a \in Actors, NEW t \in Threads, WatchThread(a, t)
    PROVE  Promise!Subscribe(a, t) \/ UNCHANGED Promise!inboxVars
<1>1. UNCHANGED <<posts, lastReadAt, mentions, seenMentions, returned>>
  BY DEF WatchThread
<1>2. \A u \in Threads : Replies(u)' = Replies(u) /\ Exists(u)' = Exists(u)
  BY <1>1 DEF Replies, Exists
<1>3. CASE <<a, t>> \in threadWatches
  <2>1. threadWatches' = threadWatches
    BY <1>3 DEF WatchThread
  <2>2. \A p \in Pairs : Unread(p)' = Unread(p)
    BY <1>1, <2>1 DEF Unread, Replies
  <2> QED
    BY <1>1, <1>2, <2>1, <2>2 DEF Promise!inboxVars
<1>4. CASE <<a, t>> \notin threadWatches
  <2>1. <<a, t>> \in Pairs /\ lastReadAt[<<a, t>>] = 0
    BY <1>4 DEF Pairs, BoardInv, NoRowNoCursor
  <2>2. \A r \in Replies(t) : r > 0
    BY DEF Replies, BoardInv, TypeOK
  <2>3. Unread(<<a, t>>)' = Replies(t)
    BY <1>1, <1>2, <2>1, <2>2 DEF Unread, WatchThread
  <2>4. \A p \in Pairs \ {<<a, t>>} : Unread(p)' = Unread(p)
    <3>1. \A p \in Pairs \ {<<a, t>>} : p \in threadWatches' <=> p \in threadWatches
      BY DEF WatchThread
    <3> QED
      BY <3>1, <1>1 DEF Unread, Replies
  <2>5. [p \in Pairs |-> Unread(p)]' =
          [[p \in Pairs |-> Unread(p)] EXCEPT ![<<a, t>>] = [u \in Threads |-> Replies(u)][t]]
    BY <2>1, <2>3, <2>4
  <2>6. t \in {u \in Threads : Exists(u)} /\ threadWatches' = threadWatches \union {<<a, t>>}
    BY DEF WatchThread
  <2> QED
    BY <1>1, <1>2, <1>4, <2>5, <2>6 DEF Promise!Subscribe
<1> QED
  BY <1>3, <1>4

\* UnwatchThread is an Unsubscribe.
LEMMA UnwatchThreadUnsubscribes ==
    ASSUME BoardInv, NEW a \in Actors, NEW t \in Threads, UnwatchThread(a, t)
    PROVE  Promise!Unsubscribe(a, t)
<1>1. UNCHANGED <<posts, mentions, seenMentions>> /\ <<a, t>> \in Pairs
  BY DEF UnwatchThread, Pairs
<1>2. \A u \in Threads : Replies(u)' = Replies(u) /\ Exists(u)' = Exists(u)
  BY <1>1 DEF Replies, Exists
<1>3. Unread(<<a, t>>)' = {}
  BY DEF Unread, UnwatchThread
<1>4. \A p \in Pairs \ {<<a, t>>} : Unread(p)' = Unread(p)
  <2>1. \A p \in Pairs \ {<<a, t>>} : /\ p \in threadWatches' <=> p \in threadWatches
                                      /\ lastReadAt'[p] = lastReadAt[p]
    BY DEF UnwatchThread, BoardInv, TypeOK
  <2> QED
    BY <2>1, <1>1 DEF Unread, Replies
<1>5. [p \in Pairs |-> Unread(p)]' = [[p \in Pairs |-> Unread(p)] EXCEPT ![<<a, t>>] = {}]
  BY <1>1, <1>3, <1>4
<1> QED
  BY <1>1, <1>2, <1>5 DEF Promise!Unsubscribe, UnwatchThread

\* CatchUp is a Collect: moving each cursor to the latest reply empties what is unread.
LEMMA CatchUpCollects ==
    ASSUME BoardInv, NEW a \in Actors, CatchUp(a)
    PROVE  Promise!Collect(a)
<1>1. TypeOK /\ UNCHANGED <<posts, threadWatches, mentions>>
  BY DEF CatchUp, BoardInv
<1>2. \A u \in Threads : Replies(u)' = Replies(u) /\ Exists(u)' = Exists(u)
  BY <1>1 DEF Replies, Exists
<1>3. ASSUME NEW p \in Pairs PROVE Unread(p)' = IF p[1] = a THEN {} ELSE Unread(p)
  <2>1. /\ lastReadAt[p] \in Nat /\ lastReadAt'[p] \in Nat
        /\ lastReadAt[p] <= lastReadAt'[p]
        /\ p[1] # a => lastReadAt'[p] = lastReadAt[p]
        /\ p[1] = a => \A r \in Unread(p) : r <= lastReadAt'[p]
    BY <1>1, CatchUpCursor DEF Times
  <2>2. \A r \in Replies(p[2]) : r \in Nat
    BY <1>1 DEF Replies, TypeOK
  <2>3. p[1] = a => Unread(p)' = {}
    BY <1>1, <2>1, <2>2 DEF Unread, Replies
  <2>4. p[1] # a => Unread(p)' = Unread(p)
    BY <1>1, <2>1 DEF Unread, Replies
  <2> QED
    BY <2>3, <2>4
<1>4. (mentions \ seenMentions)' = {m \in mentions \ seenMentions : m[2] # a}
  BY DEF CatchUp, UnseenMentions
<1>5. returned' = [p \in Pairs |->
          IF p[1] = a THEN returned[p] \union Unread(p) ELSE returned[p]]
  BY DEF CatchUp
<1>6. [p \in Pairs |-> Unread(p)]' = [p \in Pairs |-> IF p[1] = a THEN {} ELSE Unread(p)]
  BY <1>3
<1> QED
  BY <1>1, <1>2, <1>4, <1>5, <1>6 DEF Promise!Collect, Pairs, Promise!Pairs

\* Every storage call is a step of the inbox or leaves it unchanged.
LEMMA StepImplementsInbox ==
    BoardInv /\ [Next]_vars => [Promise!Next]_(Promise!inboxVars)
<1> SUFFICES ASSUME BoardInv, [Next]_vars
             PROVE  Promise!Next \/ UNCHANGED Promise!inboxVars
  OBVIOUS
<1>1. ASSUME NEW a \in Actors, NEW t \in Threads, NEW M \in SUBSET Actors,
             CreateThread(a, t, M)
      PROVE  Promise!Next
  <2>1. Promise!Open(a, t, Now, M)
    BY <1>1, CreateThreadOpens
  <2>2. Now \in (1 .. MaxPosts) \ DOMAIN posts
    BY <2>1 DEF Promise!Open
  <2> QED
    BY <2>1, <2>2 DEF Promise!Next
<1>2. ASSUME NEW a \in Actors, NEW t \in Threads,
             NEW X \in SUBSET Actors, NEW M \in SUBSET Actors, AddReply(a, t, X, M)
      PROVE  Promise!Next
  <2>1. Promise!Post(a, t, Now, X, M)
    BY <1>2, AddReplyPosts
  <2>2. Now \in (1 .. MaxPosts) \ DOMAIN posts
    BY <2>1 DEF Promise!Post
  <2> QED
    BY <2>1, <2>2 DEF Promise!Next
<1>3. ASSUME NEW a \in Actors, NEW t \in Threads, WatchThread(a, t)
      PROVE  Promise!Next \/ UNCHANGED Promise!inboxVars
  BY <1>3, WatchThreadSubscribes DEF Promise!Next
<1>4. ASSUME NEW a \in Actors, NEW t \in Threads, UnwatchThread(a, t) PROVE Promise!Next
  BY <1>4, UnwatchThreadUnsubscribes DEF Promise!Next
<1>5. ASSUME NEW a \in Actors, CatchUp(a) PROVE Promise!Next
  BY <1>5, CatchUpCollects DEF Promise!Next
<1>6. CASE UNCHANGED vars
  <2>1. UNCHANGED <<posts, threadWatches, lastReadAt, mentions, seenMentions, returned>>
    BY <1>6 DEF vars
  <2> QED
    BY <2>1 DEF Promise!inboxVars, Exists, Replies, Unread
<1> QED
  BY <1>1, <1>2, <1>3, <1>4, <1>5, <1>6 DEF Next

\* The board keeps Inbox.tla's promise: every initial state of the tables is
\* an empty inbox, every storage call a step of it or no news at all.
THEOREM BoardImplementsInbox == Spec => ImplementsInbox
<1> QED
  BY InitImplementsInbox, StepImplementsInbox, BoardInvariant, PTL
  DEF Spec, ImplementsInbox, Promise!Spec
==============================================================================
