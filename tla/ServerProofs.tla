---------------------------- MODULE ServerProofs ----------------------------
(***************************************************************************)
(* Theorems about one server process, for any number of agents, calls,     *)
(* replicas and versions: Boot.tla, how it gets to serve, and WaitHub.tla, *)
(* the hub its wait_for_activity calls block on once it does.              *)
(***************************************************************************)
EXTENDS Boot, WaitHub, TLAPS

------------------------------------------------------------------------------
(* The migration lock and readiness.                                       *)

\* What makes the lock serialize: a replica that migrates over a live lock
\* connection is the one the lock belongs to.
MigratesUnderTheLock == \A r \in Replicas : In(r, "migrate") /\ session[r] => lock = r

\* Where a replica stands in its switch to the real routes says what is in place.
BootOrder ==
    \A r \in Replicas :
        /\ phase[r] \in {"build", "store", "swap", "serving"} => Version[r] \in schema
        /\ In(r, "swap") => handler[r]
        /\ checker[r] => handler[r] /\ Version[r] \in schema

\* The inductive invariant.
BootStrongInv == TypeOK /\ LockHolderMigrates /\ MigratesUnderTheLock /\ BootOrder

\* Two replicas cannot both own the lock.
LEMMA OneLockOneMigration == MigratesUnderTheLock => MigrationsSerialized
  BY DEF MigratesUnderTheLock, MigrationsSerialized

\* A deployment before its first start.
LEMMA InitEstablishesBootInv == Init => BootStrongInv
  BY LockStatesAssumption
  DEF Init, BootStrongInv, TypeOK, LockHolderMigrates,
      MigratesUnderTheLock, BootOrder, In, Phases, environment

\* Every step of the database, a lock connection or a replica keeps it.
LEMMA StepKeepsBootInv == BootStrongInv /\ [Next]_vars => BootStrongInv'
<1> SUFFICES ASSUME BootStrongInv, [Next]_vars
             PROVE  BootStrongInv'
  OBVIOUS
<1> USE LockStatesAssumption
    DEF BootStrongInv, TypeOK, LockHolderMigrates, MigratesUnderTheLock, BootOrder, In,
        Goto, Phases, environment
<1>1. ASSUME DatabaseStops PROVE BootStrongInv'
  BY <1>1 DEF DatabaseStops
<1>2. ASSUME DatabaseStarts \/ OtherTrouble \/ ReleaseOrphan PROVE BootStrongInv'
  BY <1>2 DEF DatabaseStarts, OtherTrouble, ReleaseOrphan
<1>3. ASSUME NEW r \in Replicas, LockConnectionLost(r) PROVE BootStrongInv'
  BY <1>3 DEF LockConnectionLost
<1>4. ASSUME NEW r \in Replicas, Start(r) \/ Retry(r) PROVE BootStrongInv'
  BY <1>4 DEF Start, Retry
<1>5. ASSUME NEW r \in Replicas, Connect(r) PROVE BootStrongInv'
  BY <1>5 DEF Connect
<1>6. ASSUME NEW r \in Replicas, AcquireLock(r) PROVE BootStrongInv'
  BY <1>6 DEF AcquireLock
<1>7. ASSUME NEW r \in Replicas, Migrate(r) PROVE BootStrongInv'
  BY <1>7 DEF Migrate, LockAfter
<1>8. ASSUME NEW r \in Replicas, OpenFails(r) PROVE BootStrongInv'
  BY <1>8 DEF OpenFails, LockAfter, CannotOpen
<1>9. ASSUME NEW r \in Replicas, BuildAppHandler(r) PROVE BootStrongInv'
  <2>1. CASE degraded[r]
    BY <1>9, <2>1 DEF BuildAppHandler
  <2>2. CASE ~degraded[r]
    <3>1. /\ phase' = [phase EXCEPT ![r] = "serving"]
          /\ handler' = [handler EXCEPT ![r] = TRUE] /\ checker' = [checker EXCEPT ![r] = TRUE]
          /\ UNCHANGED <<environment, lock, schema, degraded, session, leaked>>
      BY <1>9, <2>2 DEF BuildAppHandler
    <3>2. lock # r /\ Version[r] \in schema
      BY <1>9 DEF BuildAppHandler
    <3>3. TypeOK' /\ LockHolderMigrates' /\ MigratesUnderTheLock'
      BY <3>1, <3>2
    <3>4. BootOrder'
      BY <3>1, <3>2
    <3> QED
      BY <3>3, <3>4
  <2> QED
    BY <2>1, <2>2
<1>10. ASSUME NEW r \in Replicas, StoreHandler(r) PROVE BootStrongInv'
  BY <1>10 DEF StoreHandler
<1>11. ASSUME NEW r \in Replicas, SwapChecker(r) PROVE BootStrongInv'
  BY <1>11 DEF SwapChecker
<1>12. ASSUME NEW r \in Replicas, Exit(r) PROVE BootStrongInv'
  BY <1>12 DEF Exit
<1>13. CASE UNCHANGED vars
  BY <1>13 DEF vars
<1> QED
  BY <1>1, <1>2, <1>3, <1>4, <1>5, <1>6, <1>7, <1>8, <1>9, <1>10, <1>11, <1>12, <1>13
  DEF Next, Proceed

\* Every reachable state of the replicas satisfies the invariant.
THEOREM BootInvariant == Spec => []BootStrongInv
<1> QED
  BY InitEstablishesBootInv, StepKeepsBootInv, PTL DEF Spec

\* withMigrationLock: two replicas do not migrate over live lock connections at
\* once, and nobody keeps the lock beyond its migration.
THEOREM LockSerializesMigrations == Spec => []BootInv
<1>1. BootStrongInv => BootInv
  BY OneLockOneMigration DEF BootStrongInv, BootInv
<1> QED
  BY <1>1, BootInvariant, PTL

\* serveDegradedUntilReady: handler first, checker second, so whoever is told
\* "ready" finds the application on a migrated schema.
THEOREM ReadyIsServing == Spec => []ReadyMeansServing
<1>1. BootStrongInv => ReadyMeansServing
  BY DEF BootStrongInv, BootOrder, ReadyMeansServing, Readyz
<1> QED
  BY <1>1, BootInvariant, PTL

------------------------------------------------------------------------------
(* The hub.                                                                *)

\* What makes the hub's properties inductive: a call that is past its signal
\* owns a spent channel, any other call in progress owns one that is still
\* registered or holds its signal.
ChannelsOwned ==
    \A w \in Waiters :
        /\ pc[w] \in {"check", "select"} => w \in registered \union signalled
        /\ pc[w] \in {"checkAfterSignal", "rearm"} => w \notin registered \union signalled

\* The inductive invariant.
WaitInv == HubInv /\ ChannelsOwned

LEMMA InitEstablishesWaitInv == HubInit => WaitInv
  BY DEF HubInit, WaitInv, HubInv, HubTypeOK, HubForgetsReturnedCalls,
         OneSignalPerRegistration, ChannelsOwned

\* Every step of a write path, a call or a timer keeps it.
LEMMA StepKeepsWaitInv == WaitInv /\ [HubNext]_hubVars => WaitInv'
<1> SUFFICES ASSUME WaitInv, [HubNext]_hubVars PROVE WaitInv'
  OBVIOUS
<1> USE DEF WaitInv, HubInv, HubTypeOK, HubForgetsReturnedCalls,
            OneSignalPerRegistration, ChannelsOwned
<1>1. ASSUME NEW a \in Actors, Publish(a) \/ PublishUnheard(a) \/ SendSecret(a)
      PROVE  WaitInv'
  BY <1>1 DEF Publish, PublishUnheard, SendSecret
<1>2. ASSUME NEW a \in Actors, Notify(a) PROVE WaitInv'
  BY <1>2 DEF Notify, WaitersOf
<1>3. ASSUME NEW a \in Actors, CatchUp(a) \/ FetchSecret(a) PROVE WaitInv'
  BY <1>3 DEF CatchUp, FetchSecret
<1>4. ASSUME NEW w \in Waiters, Call(w) PROVE WaitInv'
  BY <1>4 DEF Call, Register, MoveTo
<1>5. ASSUME NEW w \in Waiters, Return(w) PROVE WaitInv'
  BY <1>5 DEF Return, MoveTo
<1>6. ASSUME NEW w \in Waiters, CheckFindsNothing(w) PROVE WaitInv'
  BY <1>6 DEF CheckFindsNothing, MoveTo
<1>7. ASSUME NEW w \in Waiters, SelectSignal(w) PROVE WaitInv'
  BY <1>7 DEF SelectSignal, MoveTo
<1>8. ASSUME NEW w \in Waiters, SelectTick(w) PROVE WaitInv'
  BY <1>8 DEF SelectTick, MoveTo
<1>9. ASSUME NEW w \in Waiters, Rearm(w) PROVE WaitInv'
  BY <1>9 DEF Rearm, Register, MoveTo
<1>10. ASSUME NEW w \in Waiters, Tick(w) \/ Deadline(w) PROVE WaitInv'
  BY <1>10 DEF Tick, Deadline
<1>11. CASE UNCHANGED hubVars
  BY <1>11 DEF hubVars
<1> QED
  BY <1>1, <1>2, <1>3, <1>4, <1>5, <1>6, <1>7, <1>8, <1>9, <1>10, <1>11
  DEF HubNext, Step, CheckFindsNews, CheckFails, SelectDeadline, SelectCancelled

\* Every reachable state of the hub and its calls satisfies the invariant.
THEOREM WaitInvariant == HubSpec => []WaitInv
<1> QED
  BY InitEstablishesWaitInv, StepKeepsWaitInv, PTL DEF HubSpec

\* Hub.Register and Hub.Notify: no channel of a call that has returned stays in
\* the hub, and none is registered while it holds its signal.
THEOREM HubKeepsNoStaleChannel == HubSpec => []HubInv
<1>1. WaitInv => HubInv
  BY DEF WaitInv
<1> QED
  BY <1>1, WaitInvariant, PTL

\* waitForActivityHandler: a call that blocks can still be woken, whatever
\* consumed its registration before.
THEOREM NoBlockedCallIsDeaf == HubSpec => []BlockedCallsListen
<1>1. WaitInv => BlockedCallsListen
  BY DEF WaitInv, ChannelsOwned, BlockedCallsListen
<1> QED
  BY <1>1, WaitInvariant, PTL
==============================================================================
