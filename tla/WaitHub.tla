------------------------------- MODULE WaitHub -------------------------------
(***************************************************************************)
(* The wait_for_activity long poll over the activity hub: calls that block *)
(* until their actor has news, write paths that commit and then notify,    *)
(* and the 2 s database poll that makes up for lost notifications.         *)
(*                                                                         *)
(* A call owns one channel at a time, so a channel is named by its call:   *)
(* it is in registered while the hub holds it and in signalled while the   *)
(* one signal it has room for is buffered.                                 *)
(***************************************************************************)
EXTENDS Naturals

CONSTANTS
    Actors,
    Waiters,      \* wait_for_activity calls that may be in progress at once
    ActorOf,      \* the authenticated actor of each call
    Timed         \* the calls whose deadline can strike; the others outlast the
                  \* behaviour, so that only news can end them

ASSUME WaitersAssumption == ActorOf \in [Waiters -> Actors]
ASSUME TimedAssumption == Timed \subseteq Waiters

VARIABLES
    news,         \* actors with unread replies, unseen mentions or alerts
    secrets,      \* actors with a secret handoff waiting to be fetched
    toNotify,     \* committed writes whose handler has yet to call hub.Notify
    registered,   \* Hub.waiters
    signalled,    \* channels holding an unread signal
    ticked,       \* calls whose poll ticker has fired
    overdue,      \* calls whose deadline timer has fired
    pc            \* where each call is

hubVars == <<news, secrets, toNotify, registered, signalled, ticked, overdue, pc>>

WaitersOf(a) == {w \in Waiters : ActorOf[w] = a}

HubInit ==
    /\ news = {} /\ secrets = {} /\ toNotify = {}
    /\ registered = {} /\ signalled = {}
    /\ ticked = {} /\ overdue = {}
    /\ pc = [w \in Waiters |-> "idle"]

------------------------------------------------------------------------------
\* The write paths.

\* A reply, mention or alert for a commits in this process; Notify comes after.
Publish(a) ==
    /\ news' = news \union {a}
    /\ toNotify' = toNotify \union {a}
    /\ UNCHANGED <<secrets, registered, signalled, ticked, overdue, pc>>

\* The same on another replica, through the REST API (which has no hub), or in
\* a process that dies before it notifies.
PublishUnheard(a) ==
    /\ news' = news \union {a}
    /\ UNCHANGED <<secrets, toNotify, registered, signalled, ticked, overdue, pc>>

\* send_secret: the handoff row, then the nudge.
SendSecret(a) ==
    /\ secrets' = secrets \union {a}
    /\ toNotify' = toNotify \union {a}
    /\ UNCHANGED <<news, registered, signalled, ticked, overdue, pc>>

\* Hub.Notify: one non-blocking send to each channel, which is then dropped.
Notify(a) ==
    /\ a \in toNotify
    /\ toNotify' = toNotify \ {a}
    /\ signalled' = signalled \union (registered \intersect WaitersOf(a))
    /\ registered' = registered \ WaitersOf(a)
    /\ UNCHANGED <<news, secrets, ticked, overdue, pc>>

\* Another call of the agent collects its news, or fetches its secret.
CatchUp(a) ==
    /\ a \in news
    /\ news' = news \ {a}
    /\ UNCHANGED <<secrets, toNotify, registered, signalled, ticked, overdue, pc>>

FetchSecret(a) ==
    /\ a \in secrets
    /\ secrets' = secrets \ {a}
    /\ UNCHANGED <<news, toNotify, registered, signalled, ticked, overdue, pc>>

------------------------------------------------------------------------------
\* The call.

MoveTo(w, label) == pc' = [pc EXCEPT ![w] = label]

\* Hub.Register: a new channel, empty.
Register(w) ==
    /\ registered' = registered \union {w}
    /\ signalled' = signalled \ {w}

\* Returning runs the deferred cancels and stops both timers.  Faulty variant:
\* the channel of the latest registration is left behind.
ReturnRegistered(w) ==
    /\ MoveTo(w, "idle")
    /\ ticked' = ticked \ {w}
    /\ overdue' = overdue \ {w}
    /\ UNCHANGED <<news, secrets, toNotify, registered, signalled>>

Return(w) ==
    /\ MoveTo(w, "idle")
    /\ registered' = registered \ {w}
    /\ signalled' = signalled \ {w}
    /\ ticked' = ticked \ {w}
    /\ overdue' = overdue \ {w}
    /\ UNCHANGED <<news, secrets, toNotify>>

Call(w) ==
    /\ pc[w] = "idle"
    /\ Register(w)
    /\ MoveTo(w, "check")
    /\ UNCHANGED <<news, secrets, toNotify, ticked, overdue>>

\* check(): unread replies, unseen mentions and alerts count, secrets do not.
HasNews(w) == ActorOf[w] \in news

CheckFindsNews(w) ==
    /\ pc[w] \in {"check", "checkAfterSignal"}
    /\ HasNews(w)
    /\ Return(w)

\* Faulty variant: after a signal the call waits on its spent channel.
CheckFindsNothingAndWaits(w) ==
    /\ pc[w] \in {"check", "checkAfterSignal"}
    /\ ~HasNews(w)
    /\ MoveTo(w, "select")
    /\ UNCHANGED <<news, secrets, toNotify, registered, signalled, ticked, overdue>>

CheckFindsNothing(w) ==
    /\ pc[w] \in {"check", "checkAfterSignal"}
    /\ ~HasNews(w)
    /\ MoveTo(w, IF pc[w] = "check" THEN "select" ELSE "rearm")
    /\ UNCHANGED <<news, secrets, toNotify, registered, signalled, ticked, overdue>>

CheckFails(w) ==
    /\ pc[w] \in {"check", "checkAfterSignal"}
    /\ Return(w)

SelectSignal(w) ==
    /\ pc[w] = "select"
    /\ w \in signalled
    /\ signalled' = signalled \ {w}
    /\ MoveTo(w, "checkAfterSignal")
    /\ UNCHANGED <<news, secrets, toNotify, registered, ticked, overdue>>

SelectTick(w) ==
    /\ pc[w] = "select"
    /\ w \in ticked
    /\ ticked' = ticked \ {w}
    /\ MoveTo(w, "check")
    /\ UNCHANGED <<news, secrets, toNotify, registered, signalled, overdue>>

\* Faulty variant: the deadline leads to one more check instead of the end.
DeadlineChecksAgain(w) ==
    /\ pc[w] = "select"
    /\ w \in overdue
    /\ overdue' = overdue \ {w}
    /\ MoveTo(w, "check")
    /\ UNCHANGED <<news, secrets, toNotify, registered, signalled, ticked>>

SelectDeadline(w) ==
    /\ pc[w] = "select"
    /\ w \in overdue
    /\ Return(w)

\* ctx.Done: the client went away.
SelectCancelled(w) ==
    /\ pc[w] = "select"
    /\ Return(w)

\* The signal consumed the registration: cancel (finding nothing to remove)
\* and register anew.  A Notify before this step is not heard.
Rearm(w) ==
    /\ pc[w] = "rearm"
    /\ Register(w)
    /\ MoveTo(w, "select")
    /\ UNCHANGED <<news, secrets, toNotify, ticked, overdue>>

\* The ticker's channel holds one tick; the timer fires once.  Faulty variant:
\* the database is not polled.
NoTick(w) == FALSE

Tick(w) ==
    /\ pc[w] # "idle"
    /\ ticked' = ticked \union {w}
    /\ UNCHANGED <<news, secrets, toNotify, registered, signalled, overdue, pc>>

Deadline(w) ==
    /\ w \in Timed
    /\ pc[w] # "idle"
    /\ overdue' = overdue \union {w}
    /\ UNCHANGED <<news, secrets, toNotify, registered, signalled, ticked, pc>>

Step(w) ==
    \/ CheckFindsNews(w) \/ CheckFindsNothing(w)
    \/ SelectSignal(w) \/ SelectTick(w) \/ SelectDeadline(w)
    \/ Rearm(w)

HubNext ==
    \/ \E a \in Actors :
          \/ Publish(a) \/ PublishUnheard(a) \/ SendSecret(a) \/ Notify(a)
          \/ CatchUp(a) \/ FetchSecret(a)
    \/ \E w \in Waiters :
          \/ Call(w) \/ Step(w) \/ CheckFails(w) \/ SelectCancelled(w)
          \/ Tick(w) \/ Deadline(w)

HubSpec == HubInit /\ [][HubNext]_hubVars

\* A runnable goroutine runs and a started timer fires.  select picks at random
\* among the ready cases, so a case that is ready again and again is taken.
HubFairness ==
    /\ \A a \in Actors : WF_hubVars(Notify(a))
    /\ \A w \in Waiters :
          /\ WF_hubVars(Step(w))
          /\ WF_hubVars(Tick(w))
          /\ WF_hubVars(Deadline(w))
          /\ SF_hubVars(SelectTick(w))
          /\ SF_hubVars(SelectDeadline(w))

FairHubSpec == HubSpec /\ HubFairness

------------------------------------------------------------------------------
\* Sets of known actors and calls; every call is at a known place, and only a
\* call in progress has timers.
HubTypeOK ==
    /\ news \subseteq Actors /\ secrets \subseteq Actors /\ toNotify \subseteq Actors
    /\ registered \subseteq Waiters /\ signalled \subseteq Waiters
    /\ ticked \subseteq Waiters /\ overdue \subseteq Waiters
    /\ pc \in [Waiters -> {"idle", "check", "select", "checkAfterSignal", "rearm"}]
    /\ \A w \in ticked \union overdue : pc[w] # "idle"

\* A blocked call is never deaf: the hub holds its channel or the channel holds
\* a signal.  Both the one-shot registration and the re-arming must be right.
BlockedCallsListen ==
    \A w \in Waiters : pc[w] = "select" => w \in registered \union signalled

\* The hub keeps no channel of a call that has returned, however it returned
\* and however often it was re-armed.
HubForgetsReturnedCalls ==
    \A w \in registered \union signalled : pc[w] # "idle"

\* A channel is either waiting for its signal or has had it: Notify never finds
\* the buffer of a channel it holds full.
OneSignalPerRegistration == registered \intersect signalled = {}

\* The hub's table of channels as a whole (hub.go:15-63).
HubInv == HubTypeOK /\ HubForgetsReturnedCalls /\ OneSignalPerRegistration

\* hub.go:5-8: a lost signal only delays delivery.  News that nobody else
\* collects ends the call, though any notification of it may be lost.
NewsEndsTheWait ==
    \A w \in Waiters \ Timed :
        (HasNews(w) /\ pc[w] # "idle") ~> (~HasNews(w) \/ pc[w] = "idle")

\* wait_for_activity comes back at its deadline, whatever signals and ticks
\* compete with it.
CallsReturn == \A w \in Timed : (pc[w] # "idle") ~> (pc[w] = "idle")

\* tool_secret_handoff.go:199: send_secret is to "wake the recipient's
\* wait_for_activity the same way a reply would", so a call that a signal wakes
\* while a secret waits for its actor returns, as it does for a reply.
SecretEndsTheWait ==
    [][\A w \in Waiters :
          pc[w] = "checkAfterSignal" /\ ActorOf[w] \in secrets /\ pc'[w] # pc[w] =>
              pc'[w] = "idle"]_hubVars
==============================================================================
