-------------------------------- MODULE Boot --------------------------------
(***************************************************************************)
(* Replicas of the server starting against one Postgres: storage.Open with *)
(* the migration advisory lock, the degraded server that retries Open in   *)
(* the background, and the switch to the real routes (main.go of           *)
(* cmd/rendezvous, storage/db.go, health.go).                              *)
(*                                                                         *)
(* A replica's session is the connection withMigrationLock checked out; a  *)
(* lock belongs to the session, the migration itself runs on any           *)
(* connection of the pool.  Open never closes the pool of a failed attempt.*)
(***************************************************************************)

CONSTANTS
    Replicas,
    Version,       \* the schema each replica's binary migrates to
    Connections    \* those Postgres has left for pools nobody closes

VARIABLES
    dbUp,        \* Postgres accepts connections
    migratable,  \* AutoMigrate, backfill and search setup would succeed
    oidcUp,      \* OIDC discovery would succeed
    lock,        \* who holds pg_advisory_lock: Free, Orphaned, or a replica
    schema,      \* versions some migration has completed
    phase,       \* what each process is doing
    degraded,    \* it listens with the degraded mux
    session,     \* its lock connection is alive
    handler,     \* the application's routes are reachable
    checker,     \* the ReadyChecker of buildAppHandler is in force
    leaked       \* connections of pools its failed attempts left open

environment == <<dbUp, migratable, oidcUp>>
vars == <<environment, lock, schema, phase, degraded, session, handler, checker, leaked>>

Free == "free"
Orphaned == "orphaned"
ASSUME LockStatesAssumption == {Free, Orphaned} \intersect Replicas = {}
ASSUME ConnectionsAssumption == Connections # {}

Phases == {"down", "connect", "lock", "migrate", "build", "store", "swap", "serving", "backoff"}

Init ==
    /\ dbUp \in BOOLEAN /\ migratable \in BOOLEAN /\ oidcUp \in BOOLEAN
    /\ lock = Free
    /\ schema = {}
    /\ phase = [r \in Replicas |-> "down"]
    /\ degraded = [r \in Replicas |-> FALSE]
    /\ session = [r \in Replicas |-> FALSE]
    /\ handler = [r \in Replicas |-> FALSE]
    /\ checker = [r \in Replicas |-> FALSE]
    /\ leaked = [r \in Replicas |-> {}]

Unclosed == UNION {leaked[r] : r \in Replicas}
Exhausted == Unclosed = Connections

In(r, p) == phase[r] = p
Goto(r, p) == phase' = [phase EXCEPT ![r] = p]

\* Readyz: both boot-time flags are set and the ping succeeds.
Readyz(r) == checker[r] /\ dbUp

------------------------------------------------------------------------------
(* The database and the identity provider.                                 *)

\* All sessions end, and the server forgets them and their locks.
DatabaseStops ==
    /\ dbUp
    /\ dbUp' = FALSE
    /\ lock' = Free
    /\ session' = [r \in Replicas |-> FALSE]
    /\ leaked' = [r \in Replicas |-> {}]
    /\ UNCHANGED <<migratable, oidcUp, schema, phase, degraded, handler, checker>>

DatabaseStarts ==
    /\ ~dbUp
    /\ dbUp' = TRUE
    /\ UNCHANGED <<migratable, oidcUp, lock, schema, phase, degraded, session, handler,
                   checker, leaked>>

\* One connection is cut: the pool replaces it when it next needs one, the lock
\* is gone with it.
LockConnectionLost(r) ==
    /\ session[r]
    /\ session' = [session EXCEPT ![r] = FALSE]
    /\ lock' = IF lock = r THEN Free ELSE lock
    /\ UNCHANGED <<environment, schema, phase, degraded, handler, checker, leaked>>

\* Disk space, privileges or data that AutoMigrate trips over; the issuer.
OtherTrouble ==
    /\ \/ migratable' = ~migratable /\ UNCHANGED oidcUp
       \/ oidcUp' = ~oidcUp /\ UNCHANGED migratable
    /\ UNCHANGED <<dbUp, lock, schema, phase, degraded, session, handler, checker, leaked>>

\* Postgres notices that the client of a session has died.
ReleaseOrphan ==
    /\ lock = Orphaned
    /\ lock' = Free
    /\ UNCHANGED <<environment, schema, phase, degraded, session, handler, checker, leaked>>

------------------------------------------------------------------------------
(* storage.Open.                                                           *)

\* newRootCommand: nothing listens before the first Open has returned.
Start(r) ==
    /\ In(r, "down")
    /\ Goto(r, "connect")
    /\ UNCHANGED <<environment, lock, schema, degraded, session, handler, checker, leaked>>

\* openPostgres, and the connection for the lock.
Connect(r) ==
    /\ In(r, "connect")
    /\ dbUp /\ ~Exhausted
    /\ session' = [session EXCEPT ![r] = TRUE]
    /\ Goto(r, "lock")
    /\ UNCHANGED <<environment, lock, schema, degraded, handler, checker, leaked>>

\* Faulty variant: pg_try_advisory_lock, its result ignored.
LockOrNot(r) ==
    /\ In(r, "lock")
    /\ session[r]
    /\ lock' = IF lock = Free THEN r ELSE lock
    /\ Goto(r, "migrate")
    /\ UNCHANGED <<environment, schema, degraded, session, handler, checker, leaked>>

\* SELECT pg_advisory_lock returns.
AcquireLock(r) ==
    /\ In(r, "lock")
    /\ session[r]
    /\ lock = Free
    /\ lock' = r
    /\ Goto(r, "migrate")
    /\ UNCHANGED <<environment, schema, degraded, session, handler, checker, leaked>>

\* Faulty variant: the connection goes back to the pool with its lock.
LockKept(r) == lock

\* The deferred pg_advisory_unlock and conn.Close.
LockAfter(r) == IF lock = r THEN Free ELSE lock

\* migrate succeeds: Open returns the pool.
Migrate(r) ==
    /\ In(r, "migrate")
    /\ dbUp /\ migratable
    /\ schema' = schema \union {Version[r]}
    /\ lock' = LockAfter(r)
    /\ session' = [session EXCEPT ![r] = FALSE]
    /\ Goto(r, "build")
    /\ UNCHANGED <<environment, degraded, handler, checker, leaked>>

CannotOpen(r) ==
    \/ In(r, "connect") /\ (~dbUp \/ Exhausted)
    \/ In(r, "lock") /\ ~session[r]
    \/ In(r, "migrate") /\ ~(dbUp /\ migratable)

\* Faulty variant: the attempt that fails is the last one.
GiveUp(r) ==
    /\ CannotOpen(r)
    /\ lock' = LockAfter(r)
    /\ session' = [session EXCEPT ![r] = FALSE]
    /\ degraded' = [degraded EXCEPT ![r] = TRUE]
    /\ phase' = [phase EXCEPT ![r] = IF degraded[r] THEN "serving" ELSE "backoff"]
    /\ UNCHANGED <<environment, schema, handler, checker, leaked>>

\* Open returns an error.  At boot serveDegradedUntilReady starts to listen;
\* then retryOpenUntilReady waits for its timer.  The pool that was opened
\* stays open, with one idle connection at least.
OpenFails(r) ==
    /\ CannotOpen(r)
    /\ lock' = LockAfter(r)
    /\ session' = [session EXCEPT ![r] = FALSE]
    /\ degraded' = [degraded EXCEPT ![r] = TRUE]
    /\ IF In(r, "connect") \/ ~dbUp \/ Exhausted THEN UNCHANGED leaked
       ELSE \E c \in Connections \ Unclosed : leaked' = [leaked EXCEPT ![r] = @ \union {c}]
    /\ Goto(r, "backoff")
    /\ UNCHANGED <<environment, schema, handler, checker>>

\* time.After(backoff), doubling up to 30 s.
Retry(r) ==
    /\ In(r, "backoff")
    /\ Goto(r, "connect")
    /\ UNCHANGED <<environment, lock, schema, degraded, session, handler, checker, leaked>>

------------------------------------------------------------------------------
(* serveReady, and the main loop of serveDegradedUntilReady.               *)

\* buildAppHandler.  serveReady goes on to listen with everything in place.
BuildAppHandler(r) ==
    /\ In(r, "build")
    /\ oidcUp
    /\ IF degraded[r]
       THEN Goto(r, "store") /\ UNCHANGED <<handler, checker>>
       ELSE /\ Goto(r, "serving")
            /\ handler' = [handler EXCEPT ![r] = TRUE]
            /\ checker' = [checker EXCEPT ![r] = TRUE]
    /\ UNCHANGED <<environment, lock, schema, degraded, session, leaked>>

\* Faulty variant: the checker is swapped before the handler is stored.
SwapCheckerFirst(r) ==
    /\ In(r, "store")
    /\ checker' = [checker EXCEPT ![r] = TRUE]
    /\ Goto(r, "swap")
    /\ UNCHANGED <<environment, lock, schema, degraded, session, handler, leaked>>

\* appHandler.Store(&h)
StoreHandler(r) ==
    /\ In(r, "store")
    /\ handler' = [handler EXCEPT ![r] = TRUE]
    /\ Goto(r, "swap")
    /\ UNCHANGED <<environment, lock, schema, degraded, session, checker, leaked>>

\* checker = readyChecker, under mu.
SwapChecker(r) ==
    /\ In(r, "swap")
    /\ checker' = [checker EXCEPT ![r] = TRUE]
    /\ Goto(r, "serving")
    /\ UNCHANGED <<environment, lock, schema, degraded, session, handler, leaked>>

\* The process ends: buildAppHandler fails (no issuer), or it is killed.
Exit(r) ==
    /\ ~In(r, "down")
    /\ Goto(r, "down")
    /\ degraded' = [degraded EXCEPT ![r] = FALSE]
    /\ handler' = [handler EXCEPT ![r] = FALSE]
    /\ checker' = [checker EXCEPT ![r] = FALSE]
    /\ session' = [session EXCEPT ![r] = FALSE]
    /\ lock' = IF lock = r THEN Orphaned ELSE lock
    /\ leaked' = [leaked EXCEPT ![r] = {}]
    /\ UNCHANGED <<environment, schema>>

\* What a live process does next without waiting for the lock.
Proceed(r) ==
    \/ Connect(r) \/ Migrate(r) \/ OpenFails(r) \/ Retry(r)
    \/ BuildAppHandler(r) \/ StoreHandler(r) \/ SwapChecker(r)

Next ==
    \/ DatabaseStops \/ DatabaseStarts \/ OtherTrouble \/ ReleaseOrphan
    \/ \E r \in Replicas :
          \/ LockConnectionLost(r)
          \/ Start(r)
          \/ AcquireLock(r)
          \/ Proceed(r)
          \/ Exit(r)

Spec == Init /\ [][Next]_vars

\* Goroutines are scheduled, timers fire, statements return, Postgres serves
\* waiters for a lock in order and drops dead clients.  Nothing is assumed of
\* outages, crashes or restarts.
Fairness ==
    /\ \A r \in Replicas : WF_vars(Proceed(r)) /\ SF_vars(AcquireLock(r))
    /\ WF_vars(ReleaseOrphan)

FairSpec == Spec /\ Fairness

------------------------------------------------------------------------------
TypeOK ==
    /\ dbUp \in BOOLEAN /\ migratable \in BOOLEAN /\ oidcUp \in BOOLEAN
    /\ lock \in {Free, Orphaned} \union Replicas
    /\ schema \subseteq {Version[r] : r \in Replicas}
    /\ phase \in [Replicas -> Phases]
    /\ degraded \in [Replicas -> BOOLEAN] /\ session \in [Replicas -> BOOLEAN]
    /\ handler \in [Replicas -> BOOLEAN] /\ checker \in [Replicas -> BOOLEAN]
    /\ leaked \in [Replicas -> SUBSET Connections]

\* db_postgres.go:11-15: two replicas do not migrate at once.  That lasts as
\* long as the lock's connection: the migration goes on without it on the
\* pool's other connections, and does not notice.
MigrationsSerialized ==
    \A r, q \in Replicas :
        r # q /\ In(r, "migrate") /\ In(q, "migrate") => ~session[r] \/ ~session[q]

\* A replica that holds the lock is migrating: a failed migration, a crash or an
\* outage leaves no lock behind that a live process would keep.
LockHolderMigrates == \A r \in Replicas : lock = r => In(r, "migrate") /\ session[r]

\* The advisory lock as a whole: it serializes while its connection lasts, and
\* is not kept beyond its use.
BootInv == TypeOK /\ MigrationsSerialized /\ LockHolderMigrates

\* health.go:19-23, main.go:247-249: whoever is told "ready" finds the
\* application behind the same listener, on a schema that was migrated to this
\* binary's version.
ReadyMeansServing == \A r \in Replicas : Readyz(r) => handler[r] /\ Version[r] \in schema

\* Nobody waits for the lock for ever, whoever dies with it.
EverybodyGetsTheLock == \A r \in Replicas : In(r, "lock") ~> ~In(r, "lock")

\* main.go:242-249: a replica that stays alive becomes ready once the database
\* and the issuer stay available, however long they were not.  It does not if
\* the pools of its failed attempts hold every connection.
RecoversWithTheDatabase ==
    \A r \in Replicas :
        <>[](dbUp /\ migratable /\ oidcUp /\ ~Exhausted /\ ~In(r, "down")) => <>[]Readyz(r)
==============================================================================
