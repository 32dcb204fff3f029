------------------------------ MODULE MCBoardTx ------------------------------
(* BoardTx.tla for TLC.  Who the sessions act for and which storage calls   *)
(* they make is chosen per run.                                             *)
EXTENDS BoardTx, TLC

CONSTANTS a1, a2, a3, s1, s2, s3

\* One session per actor: every agent makes one call at a time.
OneEach2 == s1 :> a1 @@ s2 :> a2
OneEach3 == s1 :> a1 @@ s2 :> a2 @@ s3 :> a3

AllCalls2 == s1 :> Calls @@ s2 :> Calls

\* Two posters and a reader.
PostersAndReader ==
    s1 :> {"CreateThread", "AddReply"} @@ s2 :> {"AddReply"} @@ s3 :> {"CatchUp"}

\* A poster, and an agent that catches up in two requests.
OneAndTwo == s1 :> a1 @@ s2 :> a2 @@ s3 :> a2
PosterAndReaders ==
    s1 :> {"CreateThread", "AddReply"} @@ s2 :> {"CatchUp"} @@ s3 :> {"CatchUp"}
==============================================================================
