# A TLA+ model of mcp-symposium

mcp-symposium is a message board for agents and humans: an MCP server through
which agents open threads, reply, watch, catch up, wait for news and hand each
other encrypted credentials, with a REST API and a web UI for humans. It runs on
SQLite (one process) or on Postgres (any number of replicas). This directory
models the parts of it in which order matters, checks them with TLC and proves
with TLAPS what they promise for any number of actors, calls and replicas.

Paths below are relative to `src/`; `storage/`, `tools/` and so on stand for
`internal/storage/`, `internal/tools/rendezvous/` and so on.

## 1. Inventory

| Component | State it keeps | Operations | What is hard about it | What makes it correct |
|---|---|---|---|---|
| Threads, replies, watches, mentions, catch_up (`storage/thread_repo.go`, `thread_watch.go`, `catchup.go`) | `threads`, `replies`, `watchers`, `thread_watches` (the read cursor), `mentions` | CreateThreadExt, AddReply, WatchThread, UnwatchThread, CatchUp | several statements per call; a timestamp stands for "what has been read"; two tables say who watches | nothing is returned twice, nothing is skipped, cursors do not move back, both watch tables agree |
| Secret handoff (`storage/secret_handoff.go`, `tools/tool_secret_handoff.go`, `restapi/secret_handoffs.go`) | `secret_handoffs`, `handoff_alerts` | send_secret, fetch_secret, approve, sweep | no transaction: requests interleave between statements and die between them; a clock read before the statement that uses it | one release, to the addressee, after approval; no envelope lost or left behind; every thief who is refused is counted |
| Activity hub and wait_for_activity (`activity/hub.go`, `tools/tool_wait_for_activity.go`) | channels per actor; per call a registration, a deadline, a ticker | Register, cancel, Notify; the handler's loop | one-shot registrations, re-arming, lost notifications, a four-way select | a blocked call is reachable; news ends the wait; every call returns; no channel leaks |
| Database backends (`storage/db*.go`) | the pool, the schema, an advisory lock | Open, migrate | SQLite is atomic only because the pool has one connection; replicas migrate together | what holds with atomic calls holds with statements |
| catch_up tool, alerts (`tools/tool_catch_up.go`) | none of its own | CatchUp, then UnseenHandoffAlerts | the second may fail after the first has committed | what is marked read reaches the client |
| Summary, peek, unread, resource (`storage/catchup_summary.go`, `tools/tool_peek.go`, `restapi/agent_unread.go`, `mcpserver/resource_catchup.go`) | none | read-only | several SELECTs without a transaction | agrees with what catch_up would return |
| Status, listing (`storage/thread_status.go`, `thread_query.go`) | `threads.status` | UpdateThreadStatus, ListThreads | keyset pages under concurrent inserts and late commits | no thread that exists throughout is missed or repeated |
| External ids (`tools/tool_create_thread.go`) | unique `threads.external_id` | find, else create | check then create | one thread per id, the loser finds it |
| Names (`storage/profile_repo.go`, `thread_repo.go`) and key bundles | profiles, bundles | set_profile, resolve, set_key_bundle | precedence and ambiguity; four queries per lookup; a rename between check and store | nicknames are unique; a lookup finds only whom the name denoted; a bundle carries its owner's name |
| Credentials, registrar, audit (`storage/actor_repo.go`, `auth/auth.go`, `tools/registrar.go`) | `agent_credentials`, `tool_calls` | issue, revoke, authenticate, audit | revocation against requests in flight; sessions that outlive an allowlist; outages; an asynchronous writer | only authorised calls run; a 401 means revoked; the audit shows who named what |
| Human provisioning (`storage/human_repo.go`) | actors, identities | GetOrCreateHumanActor | concurrent first logins | one actor per identity |
| OIDC sessions (`humanauth/`) | `sessions`, cookies | login, refresh, logout | refresh against logout | a session that was ended stays ended |
| Boot (`cmd/rendezvous/main.go`, `health/health.go`, `storage/db*.go`) | the ready handler, the migration lock | open, migrate, retry, switch over, shut down | replicas migrating one schema; outages at any point; a lock that lives on a connection | migrations take turns, ready means serving, a live replica recovers |
| board-secret CLI (`cmd/board-secret/`) | key, pin and seen-list files, `~/.secrets` | keygen, keys, operator keygen and sign, seal, open | concurrent and killed runs over files without a lock | no replay, no lost pin, no lost key |
| Envelope cryptography, search, code blocks, secret guard, REST encoding, frontend | – | – | engines, regular expressions, layout | out of scope, see section 8 |

The components meet in the tool handlers. A write handler (reply, create_thread,
send_secret, a theft alarm) first commits its rows and then calls `hub.Notify`;
the REST API commits the same rows and has no hub. A waiting call registers with
the hub and asks the database, through GetCatchUpSummary, whether there is news;
catch_up collects it. All rows are shared state; nothing else is shared between
replicas.

The hazards this leads to are listed in `PROJECT.json` under `hazards`, each at
the line where it bites.

## 2. Modules

| Module | What it is | Lines of code it stands for |
|---|---|---|
| `Inbox` | abstract: every subscriber has a set of replies it has not collected | – |
| `Board` | one storage call per action; cursors as the code keeps them | CreateThreadExt, AddReply, WatchThread, UnwatchThread, CatchUp |
| `BoardTx` | the same calls, one SQL statement per action, on either backend | the same, plus `db_sqlite.go` |
| `OneTimeSecret` | abstract: sealed, taken or lapsed; delivered at most once | – |
| `SecretHandoff` | the handoff statement by statement | `secret_handoff.go`, `tool_secret_handoff.go`, approval |
| `WaitHub` | the hub and the long poll, with fairness | `hub.go`, `tool_wait_for_activity.go` |
| `HumanAuth` | login sessions and the provisioning of people | `oidc_provider.go`, `oidc_handlers.go`, `middleware.go`, `human_repo.go` |
| `Names` | nicknames, the lookup of names, key bundles | `profile_repo.go`, `resolveMentionTarget`, the key bundle tools |
| `Agents` | tool calls around those handlers, from the bearer token to the audit row | `auth.go`, `registrar.go`, `actor_repo.go`, `restapi/agents.go` |
| `Listing` | both paged listings, and create_thread's dedup key | `thread_query.go`, `thread_status.go`, `tool_create_thread.go`, `restapi/tool_calls.go` |
| `Boot` | replicas starting against one Postgres, with fairness | `cmd/rendezvous/main.go`, `db.go`, `db_postgres.go`, `health.go` |
| `BoardSecret` | CLI processes over shared files | `cmd/board-secret/main.go`, `envelope.go` |
| `BoardProofs`, `BoardTxProofs`, `SecretHandoffProofs`, `HumanAuthProofs`, `AgentsProofs`, `ListingProofs`, `BoardSecretProofs` | theorems about the module each is named after (section 5) | – |
| `ServerProofs` | theorems about `Boot` and `WaitHub`, whose state is one server process's | – |
| `MC*` | constants and symmetry for TLC | – |

Operators described as "faulty variant" are never used by a specification. They
are the mutations listed in `PROJECT.json`: put in the place of the definition
they follow or precede, each of them makes the property named there fail.

### Board

`posts` is the union of the `threads` and `replies` rows in `created_at` order, and a
post's position is its timestamp. This is what the single SQLite connection
gives: gorm stamps the row inside the transaction, transactions run one at a
time, so stamps and commits come in one order. Two assumptions go with it: the
wall clock is not set back, and no two posts carry the same stamp. `lastReadAt`
is `ThreadWatch.LastReadAt`; 0 is the zero `time.Time` with which
ensureThreadWatch creates rows. Which actors a body's handles resolve to is an
input (`M`); extra watchers (`X`) are actors. `returned` records history and does
not constrain anything; it starts again when the row is deleted, because the
cursor does.

`Inbox` says what this is good for without cursors: a reply becomes pending for
every subscriber, collecting empties what is pending, posting into a thread counts as
having read it. `ImplementsInbox` maps `pending` to the rows CatchUp would select.

### BoardTx

Sessions execute statements. `txn[s]` is the next statement with the handler's Go
locals, `writes[s]` its uncommitted writes. On SQLite `CanBegin` needs an idle
pool. On Postgres (READ COMMITTED) a statement reads the committed rows, an
insert or update waits for rows another transaction has written, a delete does
not see uncommitted rows, `Commit` publishes and `Rollback` covers a failed
statement, a deadlock victim, a cancelled request and a crash. AddReply takes its
key locks per phase rather than key by key: the orders this leaves out end in a
deadlock, whose victim is a Rollback. CreateThread is a single step before its
commit because all its rows carry an id nobody else has. `ImplementsBoard`
maps time stamps to ranks (a rolled-back stamp is a gap).

### SecretHandoff

`req[s]` is where a request is: sweep, claim, read, blank or classify, count,
alert, answer. None of these share a transaction, so the model is the same for both
backends, and `Abort` may strike between any two. The clock of the claim is read
before the UPDATE runs: `late` remembers what it saw. `Sweep` may fail, its error
is ignored in the code, and so is an error of the update of `foreign_attempts`: `missed` counts those,
`refused` the fetches that were answered "addressed to a different actor". These two, `delivered` and `answer` are history.
A validated send is the input (validation of the envelope and of the names is
left out), and ids come from the client, so an id may be used again.

### WaitHub

A call owns one channel at a time: `registered` is the hub's map, `signalled` the
channels with a signal in their buffer. `Publish` commits and leaves the Notify
of its handler in `toNotify`; `PublishUnheard` is a commit on another replica,
through REST, or by a process that dies before it notifies. A call goes
check, select, check or check-after-signal, re-arm, select. GetCatchUpSummary is
taken as one step; its several SELECTs can only miss what commits during them,
which the next poll finds.

### HumanAuth

`session[c]` is the row a browser's cookie leads to; `fresh` says that its
ExpiresAt lies ahead. A request looks the row up, serves its cached claims or asks Keycloak
for new ones, writes the row back, finds or creates the person's identity and
actor, and goes on to its handler (`served`). `req[r]` is where it is, with the row
and the claims it holds. Keycloak is external: `group`, the refresh token it
honours (`valid`) and its freedom to rotate the token, refuse it or not answer.
The provisioning transaction is one step on both backends: it inserts the identity
first, and a second insert of the same subject waits for the first to end. `Save`
writes a row back that has been deleted meanwhile, as gorm does. `Logout` ignores an error of its
delete, as the handler does, and the session then goes on. Two people may
have one display name, and the second of them is refused by its unique index. The OAuth
state cookie, whose failure changes nothing, and the cipher of the stored token
are left out (an undecryptable token is a RefreshFails).

### Names and Agents

`Agents` extends `Names`. `call[r]` is a request: authenticate, load the actor, call
the tool, run its handler, answer. The handlers of set_profile, set_key_bundle and
get_key_bundle are those of `Names`, a statement (set_profile: its checks, then its
write) at a time; send_secret stands for the tools registered with
recordedMetaOnly. `Matches(k, name)` is the k-th of the four queries of
resolveMentionTarget, `Denoted(name)` the actor they determine when the tables stand
still, and `found` what they find while the tables move.

The MCP library is external. It runs a tool with the context of the call's own HTTP
request or of the request that opened the session, so `CallTool` checks the
allowlist of either row; CallsAreAuthorised holds for both. What it allows is thus a tool that
some allowlist since the session opened held: an allowlist that is narrowed binds
a session already open when that session ends. A display name never changes. NicknamesUnique and
BundleCarriesItsOwnersName speak of an actor's own calls not overlapping for the
second: a set_profile and a set_key_bundle of one actor that overlap can leave a bundle under a
name its owner no longer has. So can a read of the own profile that fails, because set_profile
then skips the check of the published name (`profile_repo.go:65`). `unlocked` remembers the actors either has happened to.

`started` is the clock of `called_at`: the registrar notes the time before it runs the handler, and two calls
do not share one. A row keeps what AuditTellsWhoNamedWhat tells apart: who named itself what, and when. Rows of
calls that failed or that name nobody are all alike. Rows are written by goroutines in any order
(`unwritten`), by failing inserts or a restart not at all (`lost`). `outrun` remembers actors
one of whose calls took effect while an earlier one of the same tool was still running.

### Listing

A row carries the time it was stamped with; it is visible when its transaction
commits, later than rows stamped after it if so happens. `walk` is one reader's pages,
`due` the rows that must come. A thread that changes status is no longer due under a
filter for a status. `Insert` waits, as Postgres does, for an uncommitted row with
the same external id. For tool calls, whose cursor is a time alone, only rows with a time of
their own are due.

### Boot

`phase[r]` runs from connect over lock, migrate and build to serving, or to backoff and again to
connect. `session[r]` is the connection that holds the lock and may be cut while the
migration goes on over the pool's other connections. `Exit` covers a kill, a shutdown and an error of
buildAppHandler; the lock of a dead process is `Orphaned` until Postgres notices. `leaked[r]`
is the set of connections that failed attempts leave open: Open returns without closing what it opened, and
`Exhausted` says that Postgres has none left.

### BoardSecret

A step is one file access of one process; `Abort` is a refusal, an error or a kill
between two of them. Keys are numbered, cryptography is reduced to which key made and
which opens an envelope, and envelopes are offered to `open` again and again. `mishaps` remembers what
the code does not guard against: processes that overlapped, a seen list that could not be
read, an append cut short. A Stat of agent.key that fails for another reason than absence lets keygen
overwrite the key; such a key counts as given up (`retired`). The properties say which guarantees need which of these to be absent.

## 3. Runs

| Run | Bounds | Shows |
|---|---|---|
| `board` | 2 actors, 2 threads, 3 posts | WatchTablesAgree, NeverReturnedTwice, NothingSkippedSilently, CursorMonotone; Board implements Inbox |
| `board_sqlite_statements` | 2 sessions of 2 actors, 2 threads, 3 posts | BoardTx on SQLite implements Board; TablesInv: mentions marked seen were returned |
| `board_postgres_statements` | 2 sessions of 2 actors, 1 thread, 3 posts | cursors monotone and nothing returned twice, if each agent makes one call at a time |
| `secret_handoff` | 3 actors, 1 secret, 2 concurrent requests, 3 fetches | a one-time secret; HandoffInv: success carries the blob; every refused thief is counted unless the update failed; an unclaimed blob goes only by expiry; no releasable routine secret is reported as not found |
| `wait_hub` | 2 calls of 1 actor, one of them with a deadline that can strike | blocked calls listen; HubInv: no channel outlives its call, no full buffer; the call with a deadline returns, news alone ends the other |
| `human_auth` | 2 people, with one display name or two, 2 logins, 2 concurrent requests, 1 group change, 1 token rotation each | people are provisioned whole and once, and served as one actor; a logout that deleted its row and met no refresh is final |
| `human_claims` | 1 person, 1 login, 2 concurrent requests, 2 group changes, 1 rotation | cached claims settle on the groups; no trusted session of a disabled account |
| `agents` | 3 actors (one created late), 2 tokens, 2 concurrent requests, 3 calls, 1 revocation or allowlist, names that differ in case only | AgentsInv: nicknames unique, 401 only for revoked tokens; bundles under their owner's name, lookups find whom the name denoted; calls authorised; the newest audit row of a naming shows the name in force |
| `listing` | 3 rows in all (threads and tool calls), pages of one, 2 posters, 1 external id, 2 times, 1 fault | ListingInv: one thread per external id; returned if it was there; pages neither repeat nor miss |
| `boot` | 2 replicas of two versions, 2 spare connections | BootInv: migrations serialized, no lock left behind; ready means serving; everybody gets the lock, every live replica recovers |
| `board_secret` | 2 processes at a time, 4 in all, 2 secrets of a sender who rotated keys, 2 destinations | FilesInv: trust root, newest pins, recorded replays stop; identities, rollback and replay protection, every written secret recorded |

An invariant named after its module (`HandoffInv`, `HubInv`, ...) is that module's `TypeOK` with the
structural invariants it is checked together with; each conjunct has a definition and a comment of its own.
The types of `Board` and `HumanAuth` are conjuncts of the inductive invariants that are proved
(section 5) and no run repeats them.

Why the bounds are enough. A cursor is one row, and what can go wrong with it
needs a poster and a reader, a reply before and one after the cursor, and a
thread's opening post: three posts. A second thread shows that rows do not
interfere. A secret's row is independent of every other row except through the sweep,
which treats them alike; a race needs two requests, a theft a third actor, and a
theft after a double fetch a third call. The hub's map is per actor and calls of
different actors share nothing else: two calls of one actor cover the fan-out. In
the code every call has a deadline; a call outside `Timed` is one whose deadline lies
beyond the behaviour, so that NewsEndsTheWait is not met by giving up. Sessions meet only in the person they
belong to, people only in their display names, and a race on either needs two requests;
a change overtaken by a second one needs two. A lookup needs one name that is an
exact and a folded match of two actors and a third that moves between the queries; a race of
set_profile with set_key_bundle needs two calls, and a third sees the result. A page
boundary needs a row on either side and one that arrives: three rows and pages of one. Boot's replicas meet
only in the lock, the schema and the connections, and BoardSecret's processes in files that each
two of them can disturb; four starts are a keygen or an open, two racing ones and one that sees what they
left. `MaxCalls`, `MaxAdmin`, `MaxNow`, `MaxRows`, `MaxFaults`, `MaxCreated`, `MaxStarts`, `Commands`,
`Allowlists`, `Filters`, `MaxPosts`, `MaxFetches`,
`MaxChanges`, `MaxRotations`, `MayCall`, `Extras` and `Handles` are bounds of the models, not of the code.

`agents`, `listing` and `board_secret` do not check for deadlock, because the bounds let the system
run out of things to do; the other bounded runs say so in their cfg for the same reason.

One run checks a property that the README and a comment of the repository state and the code does not keep:

| Run | What happens |
|---|---|
| `catchup_everything` | agent a watches a thread, b replies, a replies without catching up: a's cursor is now past b's reply, which catch_up never returns (`thread_repo.go:151`) |

Five more of the kind have a cfg, are no runs of `PROJECT.json`, and end in a counterexample when run by hand:

| `tlc -config ...` | What happens |
|---|---|
| `MCBoardTxLateCommit.cfg MCBoardTx` | on Postgres a reply is stamped, a later one commits and is collected, then the first commits: behind the cursor for good (`catchup.go:29`; "returns everything new", `catchup.go:14`) |
| `MCBoardTxTwoReaders.cfg MCBoardTx` | on Postgres two catch_up calls of one agent; the one that read less writes its cursor last, and replies that were returned are unread again (`catchup.go:39`; "a second call with no new activity returns an empty result", `catchup.go:16`) |
| `MCBlobClearedByFetch.cfg MCSecretHandoff` | a fetch ends after its claim: the blob stays, no sweep matches it, nobody can fetch it (`secret_handoff.go:102`; "cleared on first fetch or at TTL expiry", `secret_handoff.go:22`) |
| `MCForeignRefusals.cfg MCSecretHandoff` | the update of `foreign_attempts` fails, its error is ignored, and the thief is refused without being counted (`secret_handoff.go:114`; "Any refusal leaves an audit trace: fetch by anyone but the recipient increments ForeignAttempts", `secret_handoff.go:65-67`, and "the attempt is on the operator's audit feed", `tool_secret_handoff.go:242`) |
| `MCWaitSecret.cfg MCWaitHub` | send_secret's nudge wakes the recipient's call, whose check does not look at secrets: it re-arms and waits on (`tool_wait_for_activity.go:76`; "the same way a reply would", `tool_secret_handoff.go:199`) |

`catchup_everything`, the two of `MCSecretHandoff` and the wait concern both backends. The two of `MCBoardTx`
cannot happen on SQLite, which `board_sqlite_statements` shows: there the
single connection makes every call the one step of `Board`, for which the same
properties hold.

Four more disagreements of the same kinds follow from the same models and have no
run of their own. With `Backend = "postgres"`, SeenMentionsWereReturned, the second conjunct of TablesInv, fails (a
mention commits between catch_up's SELECT and its UPDATE, `catchup.go:54`, and is
marked seen without having been returned) and so does WatchTablesAgree (watch and
unwatch of one agent interleave between their two tables, `thread_watch.go:38`).
NotFoundMeansGone excludes admin-class secrets because approval may land between a
fetch's claim and its read, and the answer is then "not found or expired" for a
secret that is ready (`secret_handoff.go:124`). And a double_fetch alarm, "the
recipient asked again after a successful fetch" (`secret_handoff.go:212`), is raised
as soon as a claim has succeeded, before its envelope is delivered or after its request died
(`tool_secret_handoff.go:249`).

The catch_up tool has no module of its own, because what can go wrong in it follows from
what is modelled. It calls CatchUp, which commits, and then UnseenHandoffAlerts; if
that fails, the handler returns the error alone, and replies and mentions that are marked read were
never delivered (`tool_catch_up.go:48`). UnseenHandoffAlerts is the SELECT/UPDATE pair of
CatchUp's mentions: on Postgres an alert raised between the two is seen without having been
returned (`secret_handoff.go:242`), on SQLite it cannot be.

What the provisos of the new properties stand for, each a trace TLC finds when the proviso is dropped:

- ExistingThreadIsReturned excuses a call whose lookup failed and one that raced the
  creation. Both are refused by the unique index with an error where the comment at
  `tool_create_thread.go:19` promises the thread: the handler takes any error of the lookup for
  "no such thread" (`tool_create_thread.go:46`).
- PagesMissNothing excuses tool calls that share their time: `before` has no
  tie-break, and a page that ends between two of them skips the second (`tool_calls.go:38`).
- FoundActorsHeldTheName excuses lookups that meet the creation of an agent: between two
  queries a newcomer's display name can leave the later query with an actor the name did
  not denote before or after.
- BundleCarriesItsOwnersName excuses owners whose set_profile and set_key_bundle overlap, and those that
  a failed read of their profile let rename (`profile_repo.go:65`).
- ForeignRefusalsAreCounted excuses fetches whose own update failed (`secret_handoff.go:114`).
- AuditTellsWhoNamedWhat excuses actors one of whose calls outran an earlier one of the same tool: rows are listed by
  the time a call started (`registrar.go:186`), tables show the call that wrote last. It also counts rows that
  were lost or are still to come: the operator's list alone can miss the newest.
- MigrationsSerialized excuses a replica that lost the lock's connection: it does not notice
  (`db_postgres.go:44`). RecoversWithTheDatabase excuses replicas whose own abandoned pools
  hold every connection (`db.go:69`).
- In `BoardSecret`, PrintedIdentityIsKept also fails after a Stat that reports another error than absence
  (`main.go:251`); it and PinsAreNewest fail when processes overlap (a keygen's
  Stat and write, `main.go:251` and `:110`; the pins' read and rename, `main.go:501` and `:545`);
  ReplayRefused also after a seen list that could not be read, which passes for "no list
  yet" (`main.go:588`), and after an append cut short, whose torn line swallows the next id
  (`main.go:608`).

Three things `HumanAuth` shows that no text of the repository speaks about. A logout whose delete fails
leaves the session alive while the browser is told otherwise (`oidc_handlers.go:194`). One that
meets a refresh can be undone, which is why LogoutIsFinal is restricted to those that meet none: the
refresh's Save finds no row and inserts it again (`oidc_provider.go:112`). And when Keycloak rotates
the token, the slower of two requests that refresh at once presents a spent token, is
refused, and deletes the session the faster one has just renewed
(`oidc_provider.go:98`).

## 4. Fairness

`FairHubSpec` of `WaitHub` assumes that a runnable goroutine runs (weak fairness of a
call's steps and of a handler's Notify), that started timers fire (weak fairness of Tick and
Deadline) and that Go's `select`, which picks among ready cases at random, takes
a case that is ready again and again (strong fairness of SelectTick and
SelectDeadline). Nothing is assumed about agents calling, posting or collecting,
about clients staying connected, or about notifications being sent elsewhere. `FairSpec` of `HumanAuth`
assumes that requests being served take their steps and that the clock reaches ExpiresAt;
not that anybody sends another request, nor that Keycloak answers. `FairSpec` of `Boot`
assumes that a live process takes its steps and its timers fire (weak fairness of Proceed), that
Postgres grants a lock to whoever waits for it while it is free again and again (strong fairness of
AcquireLock: waiters queue) and drops the lock of a dead client; nothing of outages, crashes or
restarts. The other
specifications state no fairness and are checked for safety only.

## 5. Proofs

Every theorem holds for all values of the constants that satisfy the named assumptions of its
module, which TLC evaluates on every run. They say no more than what makes the constants what
they are called: bounds are natural numbers, maps have their domains, `None`,
`Nobody` and the states of the lock are no actors, names or replicas. Two are about finiteness: the requests
served at once (`SessionsAssumption`, for the bound on a row's attempts) and the actors
(`NamesAssumption`, because "ambiguous" means more than one match) are finite sets.

Each module of proofs has an inductive invariant per component, which TLC has checked on the module's run, a lemma per
action that preserves it, and the theorems that follow.

`BoardProofs`, with `MaxPosts \in Nat`:

- `BoardInvariant`: `Spec => []BoardInv`. NeverReturnedTwice is not inductive by
  itself. It needs that a returned reply is behind the cursor
  (ReturnedBehindCursor), that is, that CatchUp's cursor is a maximum of what it
  returns (LatestIsMaximum, by well-foundedness of `<` on Nat), and that a row created anew starts without
  history (NoRowNoCursor); the types bound cursors by the number of posts, so
  that a new post is always unread. Creating a thread and replying share
  PostingPreservesBoardInv.
- `TypeCorrect`, `WatchTablesStayInStep`, `AtMostOnce`,
  `AtLeastOnceUpToOwnPosts`: consequences of BoardInv.
- `CursorNeverMovesBack`: the action property, from BoardInv and CatchUpCursor.
- `BoardImplementsInbox`: the initial states are an empty inbox, and each storage call is the
  inbox step of the same name (WatchThread of a row that exists changes nothing). The heart is that
  `Unread`, computed from one number, is exactly the set the inbox keeps.

`BoardTxProofs`, the same calls by statements, in four layers:

- `TablesKeepTheirShape`, on either backend and without a hypothesis: ShapeInv ties every pending
  write to the tables (a mention to a post of the same transaction, a mark to a committed mention), and no
  stamp lies ahead of the clock.
- `CursorInvariant`, `ReturnedOnceByStatements` and `CursorNeverMovesBackByStatements`, under the hypothesis
  `OneCallAtATime`: SQLite, where the pool has one connection, or Postgres with no two sessions of one
  actor. That hypothesis is what the code needs: `MCBoardTxTwoReaders.cfg` is the counterexample without it.
  CursorInv says that a row is locked by one transaction (a thread that is being
  created has no rows of others yet), that a pending cursor is not behind the committed one and lies on the
  writer's own row unless it opens a row at zero, and that catch_up's locals are still true when it uses them:
  CommitElsewhere is why no other agent's commit makes them stale.
- `MentionsMarkedWereReturned`: TablesInv on SQLite. What catch_up's UPDATE is about to mark is what its
  SELECT has returned (SeenInv); on Postgres that is false.
- `StatementsImplementBoard`: on SQLite, `Spec => ImplementsBoard`. JournalInv says what the one open transaction has
  written by each of its statements, as a function of the committed tables (Journal), and that rows lie in the order of
  their stamps and every cursor and returned stamp is a row's (StampsInv), which is what makes the rank of a stamp
  the position `Board` gives the post. From it CommitIsACall: what a commit does is what one storage call does to the
  tables as they stood when it began. CallIsBoards carries each call over by rank; all
  other statements leave the tables alone. On Postgres a statement reads what others
  commit meanwhile, so a call need not be a step of `Board`: `MCBoardTxLateCommit.cfg` is such a history.

`SecretHandoffProofs`: `SecretInvariant` and from it `SecretsKeepTheirShape`, `NoForeignRefusalIsLost`,
`UnclaimedBlobIsKept` and `NotFoundIsTrue`. The invariant follows a fetch between its statements: at most one request is past a
won claim of a secret (OneWinner), it is the addressee's and has the blob or can still read it (WinnersHold), the clock
a claim has read is not ahead (HistoryHolds), a claim that was lost on a secret nobody
has claimed came too late (LosersLate), and the attempts counted and still to be counted are no more than the
fetches made (AttemptsBounded, by cardinality). NoForeignRefusalIsLost has an argument of its own: the refusals made and
those of requests between their count and their answer are no more than the counted and the failed updates
(AccountsHold, by cardinality). `HandoffImplementsOneTimeSecret` maps every statement to a step of
`OneTimeSecret` or to a stutter; which, is decided by the rows before it and by OneWinner.

`HumanAuthProofs`: `AuthInvariant`, and from it
`PeopleProvisionedTogether`, `ServedAsOneActor` and `LogoutStays`. AuthInv adds to the
three properties and the types that a request past the lookup of an identity has one
(FoundIdentities), without which the actor it is served as could not be named, and that
nothing carries a cookie before it is drawn (CookiesMinted), without which a login
could store a row under a cookie that was logged out. PeopleStep reduces the actions to
the two changes the tables of people undergo; a name clash and a lost race are among those that
change nothing.

`AgentsProofs`, about the handlers of `Names` inside the calls of `Agents`: `AgentsInvariant`, and from it
`NicknamesStayUnique`, `BundlesNameTheirOwner`, `LookupsFindTheDenoted`, `HandlersAreAuthorised` and `AuditTellsTheNames`. The
invariant says what a call in flight may rely on: its token was live when it was authenticated and tokens only go from unissued
over live to revoked (TokensInHand), the tools of its session have been in force (SessionsInHand), a bundle about to be stored
carries a name of the caller's and a rename that was checked leaves the published bundle one (BundlesInHand), and what the
lookup's first queries have not found was denoted at one of them if it is there at all (LookupsInHand). The last is an argument about the
precedence of the four queries under renames: display names stay, and an exact match is a folded match. Numbers
of calls under way are their own (NumbersInHand). AuditTellsTheNames needs one invariant more (NamesShown): a call of
set_profile or set_key_bundle that is running started after every call of its actor and tool that has a row, unless the actor is in
`outrun`. So when it writes, its row is the newest (NewestNameShows); writing, losing and delaying
rows move them without changing which there are, and this alone is a lemma (SucceededStay).

`ListingProofs`: `PagingInvariant`, and from it `ThreadsStayUnique`, `WalksRepeatNothing`, `WalksMissNothing` and
`OnlyRacersAreRefused`. PagingInv says that an uncommitted row keeps its id and external id from all others
(PostersHeld), that what a walk has returned is not after its cursor and what it still owes is
(ThreadsWalked, CallsWalked), and that the tables are finite. The argument about a page is PageOfRows: the rows with less than
`Limit` ahead of them are a prefix of the listing, its last row exists, and everything left out comes after that row;
it rests on FewerAheadOfNewer (of two rows the newer has less ahead, by cardinality) and OldestRow
(by well-foundedness of `<` on Nat, twice).

`ServerProofs`, about one server process and its replicas:

- `BootInvariant`, `LockSerializesMigrations`, `ReadyIsServing`. BootStrongInv is inductive with MigratesUnderTheLock (who
  migrates over a live lock connection is the one the lock belongs to) and BootOrder (a replica's
  phase says what of schema, handler and checker is in place).
- `WaitInvariant`, `HubKeepsNoStaleChannel`, `NoBlockedCallIsDeaf`. HubInv and
  BlockedCallsListen need one another's help only through ChannelsOwned: where a call is in its loop says whether the
  hub holds its channel.

`BoardSecretProofs`: `FilesInvariant`, and from it `FilesKeepTheirPromises`, `PrintedIdentitySurvives`,
`SecretsAreRecordedFirst`, `ReplaysAreRefused` and `RollbacksAreRefused`. The invariant says for each step of a command what the file
it is about to touch holds: always for operator.key, which is created exclusively (OperatorKeyInHand), and
while processes do not overlap for agent.key and the pins (AgentKeyInHand, PinsInHand); the seen list only grows
(SeenInHand), and a secret about to be written was not written before (FreshInHand).

## 6. Only model-checked

- Liveness under fairness, which is beyond the prover: `CallsReturn`, `NewsEndsTheWait`,
  `ClaimsSettle`, `EverybodyGetsTheLock`, `RecoversWithTheDatabase`.

Every other property of a passing run, invariant, action property or refinement, is a theorem.

## 7. Plan

1. The catch_up tool over the storage calls: alerts read after CatchUp has committed (`tool_catch_up.go:48`), the
   hazard of section 3 that no property covers.
2. What `Board` promises and Postgres keeps when agents make one call at a time: the refinement holds on
   SQLite only, and between the two lies a weaker abstract specification, with late commits.

## 8. Not modelled

- The algorithms of cryptography: envelopes are opaque, keys are numbers.
- `operator sign`, which overwrites the bundle file it is given, `operator keygen --stdout`, which
  touches no file, and passphrases.
- Full-text search and ranking (external engines), text scanning (code blocks, secret guard).
- What a migration does to the schema; tags; names and bios of profiles; an
  administrator's update of somebody else's profile, which is set_profile with another id.
- The catch_up tool as a module (section 3), and the readers that change no state: peek,
  unread, the catch-up resource, get_thread, list_profiles.
- HTTP routing and JSON, the web UI, logging.
- In `Agents`, tools other than four, the liveness of the audit writer (one insert), and what a row says of
  the other tools: its input is copied and its output cut; the rows of the secret tools are redacted (`registrar.go:220`).
