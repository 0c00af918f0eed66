# Verification of the Granite platform

TLA+ models of the parts of this repository whose correctness depends on the
order in which concurrent steps happen, the TLC runs that check them on small
instances, and theorems that the TLA+ proof system checks for every instance.
Paths below are relative to the repository; `app/` stands for
`backend/src/app/`.

    cd tla
    tlc -workers 2 -config outbox_two_relays.cfg MCOutboxRelay
    tlapm OutboxProofs.tla

`PROJECT.json` maps every definition to the lines it models, those whose detail
it abstracts included (`RateLimit!Ask` stands for the choice of address and
category as well, `OutboxRelay!Fairness` for the whole of `listen_and_relay`; the
tables are mapped to the migrations that create them), and lists the runs, the
mutations, the hazards, the findings and the theorems.

## 1. The system

Granite is a multi-tenant web platform: a Litestar application in several
worker processes, PostgreSQL with row-level security, Valkey for locks,
counters and Pub/Sub, a SAQ worker with cron jobs, an outbox daemon, a Go
service that ingests telemetry, and a React front end.

A request passes CORS, request metrics, the idempotency middleware, the rate
limiter (inside the idempotency middleware), authentication guards, and a
handler that works in one database transaction. A handler that must tell the
rest of the world something inserts an outbox event in its transaction; relays
publish it later.

| Component | State | Operations | Interacts with | Hard because of | Correct if |
|---|---|---|---|---|---|
| Transactional outbox (`app/adapters/outbox/relay.py`, `app/domain/events/`, `backend/scripts/outbox_cli.py`) | tables `outbox_events`, `dead_letter_events`; row locks; ORM copies in a sweep's session | `create_event`, `process_sweep`, `record_failure`, `mark_batch_processed`, `replay_dead_letter`, the CLI's `sweep`, `replay`, `status` | producers' transactions, Valkey Pub/Sub, cron, daemon, operators | several relays at once; commits in the middle of a sweep; stale copies; row locks awaited in a circle; crashes between PUBLISH and commit | at least one delivery before PROCESSED; nothing undelivered is lost from sight; quarantine after real failures only |
| Idempotency middleware (`app/core/idempotency.py`) | one Valkey record per key, with a TTL | SET NX, GET, handler, DELETE, SET | clients that retry, handlers, the rate limiter inside it | two calls where one is meant; calls that fail after being executed; expiry while in use; dying workers | one effect per key, only real successes replayed |
| Rate limiter (`app/core/rate_limit.py`) | a counter per category, address and minute, with a TTL | one Lua script per request | clock, Valkey | clock read before an await; window boundaries; rounding; fail-open | quota per window and, less strictly, in any span, while scripts run in time; no lock-out |
| Circuit breaker (`app/core/circuit_breaker.py`) | state, two counters, time of the last change | `call`, `_check_state_transition`, `_on_success`, `_on_failure` | callers, the protected service, clock | calls that end in another state than they began | trips on streaks only, keeps its cooldown, recovers |
| Database sessions, tenants, row-level security (`app/core/database.py`, `backend/alembic/versions/0004`-`0007`) | contextvars, `session.info`, `set_config` of the transaction, policies | `unit_of_work`, `tenant_session`, `set_tenant_context`, the audit trigger | every handler and job | context that outlives its block; blocks nested on one session | a transaction acts for the identity its session was opened for, never with the rights of two |
| User accounts and start-up (`users_controller.py`, `auth_controller.py`, `user_repository.py`, `app/__init__.py`) | `platform_users` | sign-up, create, edit, password, delete, log in, `init_admin_user` | PostgreSQL, Argon2 in an executor | check-then-insert; a User loaded before an await and written after it; four workers seeding at once | addresses unique, nothing undone, rights only from administrators |
| Tokens and sessions (`app/core/security.py`, `auth_guard.py`, `auth_controller.py`, `frontend/src/features/auth/AuthContext.tsx`, `frontend/src/lib/api.ts`) | tokens, revocation keys with a TTL; the tab's store and state | log in, guard, log out, refresh, reload | Valkey, the tab | clocks against whole seconds; answers that arrive late | a revoked token stays refused; a late answer revives no session |
| Telemetry (`telemetry_controller.py`, `telemetry_repository.py`, `valkey_service.py`, `services/telemetry-ingest/main.go`, export job) | `telemetry_readings`, a cache of latest readings | COPY, INSERT, SET, expiry, shutdown, export | devices, PostgreSQL, Valkey | answers lost after a commit; SETs in any order; a shutdown with a deadline | a batch is stored whole, once, or not at all; the cache shows committed readings, in the order of the requests |
| Backup (`scripts/backup.sh`) | files, `dump.rdb`, the save under way | dump, snapshot, prune, restore, dry run | PostgreSQL, Valkey | a step of several failing; a save that is not one's own; two runs at once | pruning never removes the last dump a run completed; success means a dump |
| Worker jobs (`app/core/worker.py`) | none of their own | cron jobs | outbox, telemetry | overlap | see outbox and telemetry |
| CSRF, health, metrics, logging, settings, mail, search, other front end, generated client, benchmarks, deployment | none, or observation only | | | | not modelled, see 5 |

How they interact: producers' transactions, the relays and operators meet in
two tables (`OutboxRelay`); the rate limiter runs inside the idempotency
middleware, which sees its 429 as one more error status (`Reject`); login and
the guards (`Sessions`) use the accounts (`Accounts`) through the claims of a
token only, and both models say so: `Accounts` keeps the claims that were
issued, `Sessions` never looks at a row. Every handler's statements run in a
session of `TenantContext`.

## 2. What is modelled

### OutboxDelivery, OutboxRelay

`OutboxDelivery` is the promise: four sets of events (accepted, arrived,
closed, quarantined) and the steps an outbox may take. Nothing is closed that
did not arrive, nothing arrives that was not accepted
(`app/domain/events/models.py:4`).

`OutboxRelay` is the protocol. An action is what runs between two suspension
points that matter: one SQL statement or transaction, or one PUBLISH.

| Code | Actions |
|---|---|
| `create_event` inside the caller's `unit_of_work` | `CreateEvent`, `EndTransaction` |
| `get_pending_events` with FOR UPDATE SKIP LOCKED | `Fetch` (guards in `Eligible`, `Batch`) |
| `publish_event` and the `except` around it | `PublishOk`, `PublishFail` (delivered or not) |
| `record_failure` with its flush and commit | `RecordFailure` |
| `mark_batch_processed`, which locks row by row, and the end of the session | `LockRow`, `MarkBatch`, `EndSweep` |
| a dying process, a cancelled job, a failing statement | `CrashSweep` |
| the error PostgreSQL gives one of several UPDATEs that wait for each other | `DeadlockVictim` |
| `outbox_cli.py replay` | `ListLetters`, `ReadLetter`, `LoadEvent`, `CommitReplay`, `EndReplay` |

`holder` holds the row locks; every commit or rollback of a relay releases all
of its locks (`Unlocked`). The UPDATE of `mark_batch_processed` takes the locks
it lost in any order (the plan's) and waits with those it has; `InCircle` says
that a relay waits, through others, for itself. `seen` is what the ORM session loaded:
`expire_on_commit=False` and a SELECT that meets a loaded object do not
refresh it, so `record_failure` computes from the copy of the start of the
sweep (copies of events it is through with are forgotten: nothing reads them). A flush writes only the columns that differ from that copy (`Flush`).
`delivered`, `failures` and `doubted` are history that only properties read.

Abstractions: dead letter ids tell the letters of one event apart, and the
lowest free one is taken; `Flaky` names the events whose PUBLISH may fail (all of
them, in the runs); an event's payload, tenant and error text; the time of
`created_at` (events are numbers in that order, without ties); the LISTEN
connection, which only decides when a sweep starts. `mark_processed` is called
by nothing, and PROCESSING is written by nothing. A PUBLISH without
subscribers counts as delivered to the channel, as the code has it. The CLI's
`status` takes row locks and rolls them back: that is `Fetch` followed by
`CrashSweep`. The tenant context of a session is set again at the begin of
each transaction, so the commit inside `record_failure` does not lose it and
no row becomes invisible. `Daemons` are the relays of `listen_and_relay`, where
an error other than a timeout ends the loop for good; the others are the
worker's cron job.

### Idempotency

Requests that share a cache key race for one record. Every Valkey call is an
action, and each has a second action in which it raises, executed or not
(`AcquireError`, `ReadError`, `SaveError`, `deleted = FALSE` in `Raise`).
`Commit` is the handler's own transaction, `Succeed`, `Reject` and `Raise` the
ways in which the inner application ends, `Expire` the two TTLs, `Crash` the
death of a worker or a cancellation. A client's retry is one more member of
`Requests`. `faulted` and `gaps` record, per key, what the middleware cannot
prevent (a failing call, an expiry of a record in use, a failure after the
commit) and the gap between SET NX and GET, so that the properties can say
exactly when the promise holds. Header and body formats are left out.

### RateLimit

The counters that one category and client address share. `Ask` reads the
clock; `Allow`, `Throttle` and `FailOpen` are the script as Valkey runs it,
up to `MaxDelay` slots later, and what the middleware makes of the answer. The
client of Valkey has no timeout, so `MaxDelay` is a bound of the model and of no
theorem's argument: `late` records by how many windows a script ever ran late,
and the quotas say how much of that they stand.
`Get` is a GET of a key that may have expired, `CountIn` the INCR with its
EXPIRE, `Estimate` the weighted count. The script computes with doubles, and
where the exact product is a positive whole number the double may lie just
below it: `Estimates` is the set of results that rounding allows. A slot
stands for a second, `Window` slots for a window. Choosing the category, the
address and the exempt paths is a pure function of the request and only
selects which counters are meant.

### CircuitBreaker

Critical sections of the `asyncio.Lock` do not suspend, so entering `call`
(`Admit`, `Probe`, `RejectCall`) and leaving it (`CallSucceeds`, `CallFails`,
`CallEscapes`) are one step each, and between the two the breaker may pass
through any states. `age` is the time since `_last_state_change` in ticks.
`streak` and `quiet` are history. The names of the specification carry `CB`
because `ResilienceProofs` extends this module together with `Idempotency`. The service that is protected is `healthy`
or not, as it likes. The class says it is thread-safe; it is used on one event
loop, and only that is modelled. At this commit nothing but tests constructs a
breaker: the model is of the class as a component.

### Accounts

Requests on `platform_users`, each as the statements it is made of. Between two
statements of a request PostgreSQL runs those of others; Argon2 runs in an
executor, with the User already loaded.

| Code | Actions |
|---|---|
| guards and the request's body | `BeginRegister`, `BeginCreate`, `BeginUpdateMe`, `BeginPassword`, `BeginDeleteMe`, `BeginUpdate`, `BeginDelete`, `BeginLogin` |
| `get_by_id`, `get_by_email` and the checks on the User found | `Load`, `Lookup` |
| `create`, `update`, `delete` of the repository with their commits | `Add`, `Update`, `Delete` |
| `create_access_token` | `Issue` |
| `init_admin_user` in `on_startup` of every worker | `SeedLook`, `SeedInsert`, `SeedError` |

`Flush` is SQLAlchemy's UPDATE: the columns whose value differs from the copy
the session loaded, whatever the row holds by now. `Violates` is the unique
constraint on the address. A token carries claims, not a reference to the row:
`issued` keeps them. Argon2 hashes are the passwords themselves; that a new
hash always differs from the old one is in `Flush`.

### Sessions

One browser tab, its calls under way, the API's guard and the revocation keys.

| Code | Actions |
|---|---|
| the buttons, the login form, the first effect of `AuthProvider` | `ClickRefresh`, `Login`, `Logout`, `Reload` |
| what follows the awaits in `refreshProfile`, `login`, `logout` | `ProfileArrives`, `TokenArrives`, `LogoutArrives`, `Unheard` |
| `_authenticate` with `create_access_token` | `Issue` |
| the guard: signature and expiry, then the GET of the revocation key | `Decode`, `Check` |
| `logout`: the TTL, then the SET | `Check`, `Revoke` |
| anything else that can go wrong | `Fails` |

Time runs in fractions of a second (`Second` ticks), because the `exp` claim
and the TTL of the key are whole seconds: `Issue` cuts, `Remaining` cuts and
takes at least one. A page that is reloaded does not hear the answers to the
calls of the page before.

### TenantContext

One task, a request or a job, that opens and leaves `tenant_session` and
`unit_of_work` in any nesting, each on a session of its own or on one it was
given, and runs statements on any session it holds.

| Code | Definitions |
|---|---|
| contextvars and their reset tokens | `ctx`, `saved` in a block, `Restored` |
| `session.info`, filled on entering a block and left as it is by a block that was given the session | `info`, `Named` |
| the `after_begin` listener | `Settings`, `Begins` |
| `tenant_session`, `unit_of_work` | `EnterTenantSession`, `EnterUnitOfWork`, `LeaveBlock` |
| a statement of the code | `Execute` |
| what `process_audit_log` writes with a change to `platform_users` | `AuditRow` |
| the policy of `audit_logs`, with SQL's NULL | `Policy`, `Readable` |

Two things the code leaves to its callers are recorded in `mixed`, per
session: a block that names a second identity on a session that has one, and a
transaction that begins on a session without all of an identity of its own
while another block is innermost. `ActsForOwner` says that nothing else makes a
transaction act for somebody else. Mixed sessions do read another tenant's rows;
of them `RightsOfOneIdentity` says that each transaction still has the rights of
one identity that the task was given (`given`), and is never of one tenant with
the role of another. `LeaveBlock` has three ends: the end of the body, an
Exception, and a cancellation, which the `except Exception` of `unit_of_work`
does not catch.

### Telemetry

Requests to the API and to the Go service, which share one table and one
cache. COPY and INSERT are one statement each that commits or not, with its
answer lost either way (`Fails`); the SETs of a request are executed in any
order, also after it was answered (`gather` does not cancel, a pipeline that
timed out is on its way), or not at all (`LoseSet`). `Terminate`, `Exit` and
`Abort` are the shutdown of the Go service with its five seconds. `stale`
records what makes the cache a matter of chance: requests that overlap, failed
writes, expiry. `last` is the request that came last of those that name a
transformer, which is the one the cache follows, even when its reading is older. `Export` is the worker's
export through `stream_dataset_batches`. A body is a function on `1..Size(b)`,
and what the loops over it compute (`Latest`, `Streamed`) are recursive functions:
in this form the prover can reason about them. The mapping names the lines of both
programs, one definition standing for both where they do the same.

### Backup

Runs of the script in every mode, with every command failing
(`set -euo pipefail`), beside a Valkey that is written to and saves by itself.
What Valkey holds, in memory, in `dump.rdb` and in a save under way, is a
version; a file remembers who wrote it, when, and whether it is whole. `Status`
and `NewStatus` are the two LASTSAVEs of the waiting loop, `Bgsave` may be
refused without the script noticing. Files are named by the second: two runs
started in the same second share names, which is left out, and so are two
restores at once.

### Mutated forms

Operators named `Broken...` are definitions with one plausible bug. Putting
one in the place of the definition it mutates makes the property named in
`PROJECT.json` fail: each property of a passing run is shown to depend on the
code that way.

## 3. What the runs check

| Run | Instance | Shows |
|---|---|---|
| `outbox_two_relays` | 3 events, cron and daemon, no operator, 2 retries, 1 crash, fair | `ProcessedWasDelivered`, `QuarantinedAfterRetries`, `NeverStranded`; every committed event is delivered or quarantined (`EventuallyDealtWith`), every sweep ends, also those that wait for each other (`SweepsTerminate`) |
| `outbox_single_relay` | 2 events, 1 relay, 1 operator, 3 retries, 2 crashes | `OutboxRelay` implements `OutboxDelivery`; dead letters match the status column; PROCESSED is final; only unrecorded publishes are repeated; replays strand nothing (`NeverStranded`) |
| `outbox_lock_release` | 2 relays, no crash | violation, finding 1 |
| `idempotency_two_keys` | 3 requests on one key, 1 on another | one effect per key without faults and gaps; effects are remembered; replays are genuine even with faults |
| `idempotency_race_window` | 4 requests on one key | violation, finding 2 |
| `breaker` | 3 callers, threshold 2, timeout 2, 2 trials, fair | counters fit the state, trips on streaks, cooldown, recovery |
| `rate_limit` | 2 requests in flight, limit 3, 3 windows of 3 slots, scripts up to 4 slots late | quota of a window while no script runs later than in the next, less than twice the quota in any span while none runs late, no lock-out one slot into a window, waiting never costs quota |
| `accounts` | 2 requests at once, 4 in all, 2 accounts, 2 workers | addresses unique, no column undone, deleted accounts stay deleted, rights only from administrators or the seed |
| `sessions` | 1 user, 2 tokens, 2 calls, 5 half seconds, fair | a confirmed logout has revoked, a revoked token stays refused to its last second, only a login signs in, the loading screen ends |
| `tenant_context` | 2 tenants, 3 callers, 3 scopes, nesting 2 | transactions of sessions that served one identity act for it, all others with the rights of one, contexts nest |
| `telemetry` | 2 requests, 4 bodies | batches whole, once or not at all, the cache shows committed readings and, undisturbed, follows the requests in their order, exports count rows |
| `backup` | 2 runs, 3 days, retention 1, 2 attempts, 2 versions, fair | a snapshot the script is sure of is fresh, the last completed dump stays, success is a dump, runs end |

A type invariant or a consequence of an inductive invariant that is proved for
every instance is not run again (section 4 lists them); runs are spent on what
could be wrong about the order of events, and each of their properties has a
mutated form of the code that breaks it.

### Bounds, and why they are enough

* Two relays are what it takes for a lost lock, a stale copy or a circular
  wait. Two events and a batch of two make a failure path release the lock of
  an event still in hand; a third makes the circle: a failure releases two that
  both sweeps then publish, and each locks one of them first. Without
  `DeadlockVictim` the run fails there. `MaxRetries` 2 or 3 instead of 3 keeps first,
  middle and last failure apart.
* `MaxCrashes` bounds the sweeps that die; with no bound a relay could die for
  ever and nothing would be delivered, which is true and says nothing.
* `DeliveryCap` 2 distinguishes none, one and several deliveries; 1 is enough for
  `outbox_two_relays`, which asks only whether there was one. `LetterIds`
  bounds the dead letters of one event that are alive, not those ever written:
  ids are reused once no row and no operator has them. A quarantine with no
  id left would block: with these numbers it does not.
* Three requests on one key are the least that show the gap between SET NX and
  GET (owner, request without a lock, next owner); the fourth has a key of
  its own, or is a late retry.
* Three breaker callers exceed the threshold and the trials by one: a call
  can be outstanding while the others trip the breaker or close it.
* `accounts`: two requests in flight are a loaded copy and what overtakes it;
  four in all are a sign-up, a login, an edit and the request that races it.
  `MaxAsked` 1 column per edit keeps edits distinct; two accounts can compete
  for one address and for the seed's. `Room` only keeps identifiers in supply.
* `sessions`: a second of two ticks tells a cut second from a whole one, a life
  of two seconds leaves time for a logout before the last one; two calls are
  one that races another, two tokens a session after the first.
* `tenant_context`: two levels are the least where a session is used inside a
  block that is not its own; a third adds only another saved context, which
  the proof covers for every depth. Callers and scopes include every kind that
  the properties tell apart: own or other tenant, user or none, superadmin.
* `telemetry`: two requests overlap or follow each other; the bodies are empty,
  out of order, for two transformers, partly invalid. `Limit` 3 and `Chunk` 2
  make a full and a part chunk and cut an export.
* `backup`: on day 2 files of day 0 are older than `Retention`; two versions
  tell a save before BGSAVE from one after it; one run prunes what the other
  left. Two that prune at once while old dumps of others lie there would take more
  runs: that is left to `DumpsStay`, which is for any number. `MaxVersion` and `MaxDay` bound the application and the calendar.
* Three windows let the first one's key expire. `Limit` equals `Window`, so
  weights do not always give whole numbers; two requests in flight give
  answers out of order. `MaxDelay` 4 lets a script run in the next window and in
  the one after it, where the key may be gone. `MaxTime` is the end of the clock.

Symmetry is used in safety runs only, over relays, operators and
requests in flight; never with fairness. Deadlock is not checked where the
system may stop: producers run out of events, every request is answered, the
clock reaches its bound, every relay waits for work. It is checked for the
breaker and for `TenantContext`, which never stop.

### Fairness

* Outbox: a sweep that was started runs on (weak, every relay); the cron job
  starts another one every minute (weak, relays that are not daemons). A daemon
  promises no next sweep: an error other than a timeout ends its loop.
  PostgreSQL looks for circles of waiting transactions after `deadlock_timeout`
  (weak, as a step of the sweep it ends). None for
  producers, operators, crashes, and none for a publish to succeed.
* Breaker: callers keep calling, calls end (weak), time passes (weak), and
  no caller is cancelled each time it would have succeeded (strong). The last
  one is about callers, not about the class: a breaker whose trials are all
  cancelled learns nothing and stays HALF_OPEN.
* Sessions: every call is answered, if only by an error, and the page goes on
  with the answer (weak). The user may never click, the clock may stand still.
* Backup: the commands of a run end, well or not (weak). Neither a save of
  Valkey nor the start of a run is assumed: the waiting loop ends by itself.

These are assumptions about what surrounds the code. Without them (a worker
that never starts again, calls without a timeout) the liveness properties are
false.

### Findings

1. A comment in `process_sweep` says locks are kept over the whole sweep;
   `record_failure` commits inside it and releases them, and a second relay
   publishes the same events (duplicates, which consumers must expect
   anyway; `ProcessedWasDelivered` survives).
2. A comment says SET NX eliminates the race window. A request whose SET NX
   was refused and whose GET finds nothing runs without any lock.

Met while modelling, without a run of their own:

* `ARCHITECTURE.md` describes an increment in SQL; the code adds one to a stale
  copy, so increments of two relays can be lost. An event is then tried more
  often than three times, never less often (`QuarantinedAfterRetries`).
* Two sweeps that lost their locks to a failure lock the same rows again in
  `mark_batch_processed`, and can wait for each other in a circle. Nothing in
  `relay.py` prevents it; PostgreSQL fails one of the UPDATEs, and the events that
  sweep had published are published again.
* With several relays and a replay a stale copy can leave an event FAILED with its
  retries used up, where no sweep selects it; `NeverStranded` is claimed without
  replays, or with one relay and one operator.
* The docstring of `tenant_session` (`app/core/database.py:124-126`) promises
  "100% isolation": a session that two blocks named, or that is used inside
  another block without an identity of its own, reads the rows of the wrong
  tenant. `Session.info` is not restored when a block is left.
* The docstring of `unit_of_work` (`app/core/database.py:165`) has "rolls back on
  exception"; a cancellation, which is no `Exception`, leaves the transaction of a
  session that was passed in open.
* A request that was answered with an error status keeps its idempotency lock:
  for a minute retries hear that a request is in progress.
* HALF_OPEN admits any number of callers, where a docstring has a limited
  number; successes of calls admitted before the trip count as trials, and a
  failure of such a call restarts the OPEN period.
* The `retry-after` of a 429 names the start of the next window, where the
  previous count still weighs everything: a client that returns at exactly that
  second is refused once more; `RefusalsEnd` says that one slot later it is
  not.
* A revoked token can be let through again in the last second before its
  expiry, because the TTL of its key is cut to whole seconds.
* The script of a request that is two windows late finds the key of its window
  gone, and counts anew; requests that a failing script lets through are not
  limited at all.
* A comment in `ingest` (`app/presentation/api/v1/telemetry_controller.py:61-62`)
  says that a newer state is never overwritten with an older one that arrived out
  of order. Only the readings of one body are compared: a later request with an
  older reading overwrites the newer, and of overlapping requests either may win.
* `backup.sh` restores also with `DRY_RUN` set, which its header says skips
  writes; a snapshot that could not be copied is a warning and exit 0, where
  the header has a non-zero exit on any failure; a BGSAVE that Valkey refuses
  goes unnoticed.

## 4. What is proved

All theorems are of the specifications as they are, for every value of the
constants that satisfies the modules' assumptions. The assumptions are only
about ranges (limits are positive, `None` is no relay, row or block, `keyOf` is
a function), and TLC evaluates them in every run. Three hypotheses stand in the
theorems themselves, because the property is false without them:

* `Alone`, at most one relay and at most one operator, for what several of them
  can spoil with stale copies: `LettersMatchStatus`, `DuplicatesAreDoubted`,
  `ProcessedIsFinal`. Finding 1 shows how two relays publish the same event, and
  one of them can put a status back that the other has changed.
* `Operators = {} \/ Alone` for the accounting of retries: a replay resets the
  count under another relay's sweep that holds an older copy.
* `Window > 1` for the quota in any span: the code has 60. In a window of one slot
  a span is a window, which admits `Limit`, where the formula of the bound says 1.

Some properties have their condition in themselves, as part of what they say:
the quotas hold while no script has run too late (`late`), which the code does not
ensure; `ActsForOwner` is of sessions that are not `mixed`; `CacheFollowsRequests`
of transformers that are not `stale`; `AtMostOneEffect` of keys without a fault or
a gap.

| Module | Theorem (property) | Inductive invariant |
|---|---|---|
| `OutboxProofs` | `TypeCorrect`, `AtLeastOnce` (`ProcessedWasDelivered`), `NoOrphanedLocks` (`LocksBelongToSweeps`), `Refinement` (`ImplementsDelivery`), `PromiseKept` (`AtLeastOnceBeforeClose` of `OutboxDelivery`, by the refinement) | `IInv`: types, ids in a relay's `sent` were delivered, events in a relay's hand committed, locks belong to what is in hand. Without the second part `MarkBatch` could close an event that never arrived; without the third `Arrive` could happen to an event that was never accepted |
| `OutboxProofs` | `QuarantineIsEarned` (`QuarantinedAfterRetries`), `NothingStranded` (`NeverStranded`), where `Operators = {} \/ Alone` | `Accounts`: every copy a session holds is at most the failures counted, which bounds what a stale write can put in the row (`CopiesCountFailures`) |
| `OutboxProofs` | `DeadLettersAgree` (`LettersMatchStatus`), `NoDuplicateWithoutDoubt` (`DuplicatesAreDoubted`), `ProcessedForGood` (`ProcessedIsFinal`), where `Alone` | `SoleInv`: what the one sweep has in hand and the one operator is about to replay agrees with the rows (`InHandIsCurrent`, `ReplaysAreCurrent`), and a delivery that nobody doubts is PROCESSED or about to be (`FirstDeliveryIsKnown`) |
| `ResilienceProofs` | `TypeCorrect`, `EffectsAreRemembered`, `Idempotent` (`AtMostOneEffect`), `GenuineReplays` | `LockInv`: on a clean key a request in flight holds its own lock, and an effect is protected by its lock or its response. `ReplyInv`: whatever is stored was sent as a success |
| `ResilienceProofs` | `BreakerTypeCorrect`, `CountersAreConsistent`, `TransitionsAreLegal`, `TripsOnlyAfterStreak`, `CooldownHolds` | `BreakerInv`: the counters fit the state; while CLOSED `failure_count` is at most the streak; while OPEN `age` is at most the time since the last failure |
| `RateLimitProofs` | `TypeCorrect`, `NobodyIsLockedOut` (`RefusalsEnd`), `TimeHelps` | requests carry times that have come; no window after the present one has a count. The rest is arithmetic: a previous count of at most `Limit` weighs less than `Limit` after one slot; weights fall by at least the count per slot, which is more than rounding can hide |
| `RateLimitProofs` | `WindowQuotaHolds` (`QuotaPerWindow`), `SpanQuotaHolds` (`QuotaInAnySpan`, `Window > 1`) | `QuotaInv`: a window's key lives until that window and the next are over (`KeysOutlive`), so that, as long as no script ran later, its counter covers what was admitted in it (`Covered`) and no estimate misses a count; nothing is admitted ahead of the clock. Admissions are counted with the cardinality theorems, not with sums |
| `AccountsProofs` | `TypeCorrect`, `AddressesUnique` (`EmailsUnique`), `DeletedStays`, `NothingUndone` (`OnlyAskedColumns`), `RightsAreGiven` (`OnlyAdministratorsPromote`), `SeedIsThere` (`SeedReached`) | `Ready`: what a request has by the statement it has come to; in it, `Entitled`: whoever asks for superuser rights came with an administrator's token. Identifiers in use are never given out again, so that a deleted row stays deleted |
| `SessionsProofs` | `TypeCorrect`, `StoreAgrees` (`StoreMatchesState`), `LogoutRevokes`, `RevokedIsRefused`, `OnlyALoginSignsIn` | `Covers`: from the moment its TTL is computed, the key a logout is about to set lives on until the token's last second, however long the SET takes; `Keys` says so of the keys that are set. Time only helps: a later SET expires later |
| `TenantContextProofs` | `TypeCorrect`, `RightIdentity` (`ActsForOwner`), `RightsAreNotMixed` (`RightsOfOneIdentity`), `ContextNests` (`ContextRestored`) | `Nested`: each block saved what was current outside it; `Faithful`: what was set on a session that served one identity is of the identity it started out with (`Base`), which is its `Owner` (lemma `OwnerIsBase`, by the greatest block that names one); `Fresh`: a session that was closed carries nothing over to the next one at its depth. `RightsInv`: the contextvars, each session's information and each transaction's settings have the tenant and the role of one identity the task was given |
| `TelemetryProofs` | `TypeCorrect`, `CacheIsBacked` (`CachedIsStored`), `BodiesAreWhole` (`AllOrNothing`), `CacheIsLastRequests` (`CacheFollowsRequests`), `ExportsAreExact` (`ExportCountsRows`) | `Asked`: what a request has still to SET is named in its body; `RowsAreWhole`, `StoredFirst`: rows of a body are in the table together and before any SET of it. For a transformer that nothing disturbed, `Undisturbed`: the request that came last is known (`Known`), no other that names it is under way (`Sole`), and its SET is still to come or its newest reading shows (`Due`) |
| `BackupProofs` | `TypeCorrect`, `SnapshotsAreFresh`, `DumpsStay`, `SuccessLeavesADump`, `DryRunsTouchNothing` | `IsAwaited`: what a run asked Valkey for is in the save under way or on disk; with `SavesGrow` this makes the change of LASTSAVE a proof of freshness. `HasDumped`: past its dump a run finds it, and it is not a day old, so no pruning takes it |

Proofs are by cases on the actions; what the arithmetic needs is in lemmas
(`DivFacts`, `WeightFalls`, `NextSlot`, `EstimateFacts`). `Least` and `Greatest`,
of sets of numbers, give the innermost block of `TenantContext`
and the first number at which an induction could fail. The recursive functions of `Telemetry` are what they say
they are by `LoopExists`, and what they compute follows by `Induction`, stated
for a set of numbers because a theorem with an operator as parameter cannot be
instantiated here.

Proved and not run again: the type invariants,
`LocksBelongToSweeps`, `LegalTransitions`, `StoreMatchesState`, `SeedReached`,
`DryRunKeepsBackups`.

Only model-checked: liveness (`EventuallyDealtWith`, `SweepsTerminate`,
`RecoversWithTheService`, `SpinnerEnds`, `RunsEnd`), which the prover cannot do
under fairness. Every other property of a passing run is a theorem.

## 5. What is not modelled

* `TenantBase` and the other mixins of `app/domain/base.py`: optimistic locking
  is used by no table of the template, the audit mixin sets timestamps, the
  pagination envelope is arithmetic on one response.
* The strict policies of migration 0007, which applications built from the
  template attach to tables of their own; connection pools, which are
  SQLAlchemy's.
* Tokens in the cookie beside the bearer token, several tabs, scoped tokens
  (nothing decodes them), signatures.
* `mark_processed` (called by nothing), the set-up of the NOTIFY trigger and
  the LISTEN connection, which only decide when a sweep runs.
* `send_transactional_email` sleeps, `process_telemetry_aggregation` only
  reads, `prune_expired_sessions` gives an expiry to idempotency keys without
  one, which the middleware never writes. The file and memory view streams of
  `app/core/streaming.py` are called by nothing.
* Mail: renders templates and hands them to SMTP; only an administrator's test
  mail (`admin_ops_controller.py`) calls it.
  CSRF: a predicate of one request. Health, metrics, logging, settings, API
  documents: observation and configuration. Hybrid search: SQL text.
* Two backups started in the same second, two restores at once, a restart of
  Valkey that changes LASTSAVE while a run waits for a save.
* The compression and retention policies of `telemetry_readings`
  (`backend/alembic/versions/0003_timescaledb_policies_and_outbox.py:70-74`):
  TimescaleDB drops readings whose time is more than 90 days past. What the cache
  shows is then gone from the table only if it was that old, or almost, on arrival:
  the model has no such late readings, and `CachedIsStored` says nothing of them.
* Presentation in the front end, the generated client, benchmarks and the Go
  baseline, deployment and template files: no state of the running system.

What is left to do: the optimistic locking of `app/domain/base.py`, for
applications that use it, and a second browser tab in `Sessions`: tabs share a
cookie, not a store.
