# A verification project for Lenso

Lenso is a TypeScript library of server-side building blocks (packages under
`packages/`): an application lifecycle with plugins, a durable task queue, a
scheduler, events, webhooks, notifications, payments, storage, authentication and
others. Most of them keep their truth in a database that several processes share, and
all of them are written as `async` code in which anything may happen at an `await`.
That is what the modules here are about: what happens when two processes, a timer, a
crash, a lost answer and an operator meet.

## 1. Inventory

| Component | State | Operations | What is hard | What makes it correct |
|---|---|---|---|---|
| `tasks` job table (`d1.ts`) | one row per job: state, attempt, max attempts, cancel request, run-at, lease, lifetime | fetch (recovery + claim), pulse, settle, enqueue, cancel, retry | late or superseded callers, host clocks, crash between claim and settle, cancel against everything | each attempt ends once; outcomes are honest; cancellation wins; one job per key |
| `tasks` worker (`worker.ts`) and facade (`index.ts`) | flags of a worker, lanes, per-claim controller, heartbeat | start, stop, lane loop, run, heartbeat, timeout, batch | stop racing fetch and first pulse, failed calls, lanes sharing a budget, handlers that hang | only executed attempts succeed; no attempt runs twice; nothing begins after stop; jobs end, workers drain |
| `scheduler` (`index.ts`, `d1.ts`, `rules.ts`) | schedules with revision and cursor, outbox of occurrences with leases | create, update, pause/resume/cancel, trigger, tick | several hosts ticking, editors with old snapshots, lost enqueue answers, expired leases | an instant is reserved once; enqueued means accepted; nothing reserved for a cancelled schedule; everything reserved is dispatched |
| `lenso` lifecycle (`lifecycle.ts`) | setup position, services, finalizer stack, stop promise | setup, onCleanup, dispose, stop, rollback, withApp | disposers racing stop, failing cleanups, failing setups | cleanups exactly once, LIFO, failures reported, lifetime ends |
| `lenso` initialization | one record: owner, phase | inspect, apply, activate | two first owners, unknown outcome of a write | one owner; ready only once activated |
| `events` | events, deliveries with leases, subscriptions | publish, claim, acknowledge, close | fan-out under a race, close during claim | each subscriber gets each event, at least once |
| `webhooks` | endpoints, deliveries, attempts | accept, deliver, recover, replay | two leases and one HTTP request; recovery of accepted work | no lost delivery; admission limits hold |
| `notifications` | records with a sending lease | send, retry, markDelivered | sender died while sending; idempotency window over | never two messages by mistake; unknown is never called failed |
| `payments` (`index.ts`, `stripe.ts`) | payment record changed by compare-and-set, lease, refunds, webhook inbox | create, refund, run, webhook receive, drain | lease or replay window ends before the provider call; lost answers; takeover | money moves once; refunds within the charge; recorded outcomes are true and complete |
| `limits` | windows and concurrency holders | consume, acquire, release | window rollover, clock regression | admission within the limit |
| `cache` | entries, generations, flights | get, load, invalidate | single flight with aborts; stale write after invalidate | no value older than the last invalidation |
| `realtime` | subscriptions, cursors, grants | subscribe, signal, renew, revoke | signals during the snapshot; renewal against revocation | no gap; nothing after revocation |
| `storage` | file records and objects | upload, finalize, delete, clean | crash between record and object; lost answers | no ready record without object |
| `auth`, `api-keys` | sessions, grants, consents, keys | issue, renew, revoke, redeem | renewal of what was just revoked; double redemption | revoked stays revoked; a code redeems once |
| `organization` | memberships, invitations | join, leave, transfer | last owner, capacity under concurrency | an organization has an owner |
| `media` | derivation record with a fence, artifacts, file records and objects | request, execute, cancel, retry, recover | overlapping attempts, PUTs that land after their deletion | what is published stays; recovery leaves nothing else |
| `tasks` PostgreSQL provider (`postgres.ts`) | pg-boss's rows and a relation of keys, inputs and cancel requests | enqueue, settle, cancel, retry | pg-boss replaces rows under a waiting lock; late claims | attempts end once; an answer of cancel holds; one job per key |
| `engine` development supervisor (`dev.ts`) | runtime process, engine cycle, connection file | restart, ready, stop, close | coalesced restarts, stale hooks, close in the middle of a start | one runtime; every change taken up unless a restart is rejected; close leaves nothing |
| `authorization`, `audit`, `search`, `manage`, `mcp`, `web`, `workers`, `cli`, `runtime`, `log`, `otel`, `db` | little or none of their own | — | — | evaluation, adapters and I/O |

How they interact: applications compose plugins through the lifecycle; the scheduler,
webhooks, notifications, media and audit hand work to `tasks` under deduplication keys
and rely on *one job per key*; webhooks take admission from `limits`; media keeps
its images in `storage`; `tasks` workers call application handlers. The hazards of every component are in `PROJECT.json`.

## 2. Modules

| Module | Models | State and steps |
|---|---|---|
| `JobLifecycle` | abstract: what every task provider promises of a job | one record per job |
| `TaskStore` | the D1 job table and every statement on it, under arbitrary callers | implements `JobLifecycle` |
| `TaskWorker` | worker processes, lanes, heartbeats, executeAttempt | extends `TaskStore` |
| `PostgresTasks` | the PostgreSQL provider over pg-boss | one record per row of the two tables, one per waiting transaction |
| `Scheduler` | schedules, outbox, ticking hosts, editors | the queue is its deduplication contract, shown in `TaskStore` |
| `Media` | a derivation, its attempts, artifacts, files and recovery | the queue and the object store are their contracts |
| `Webhooks` | deliveries, attempts, execute, recover, replay, prune | uses `LimitState` for its admission leases |
| `LimitState`, `Limits` | window and lease arithmetic (`state.ts`); the service with close() | operators; calls and a stored bucket |
| `Notifications` | submit, deliver, requeue, reconcile, with a provider that forgets keys | sender `pc`s and the record each has read |
| `Events` | the asynchronous bus of several processes over the D1 store | fan-out, claims, handlers, subscription changes |
| `Payments` | a payment and its refunds: runs, callers, inbox, provider | run `pc`s, writes in flight, the provider's memory |
| `Cache` | getOrSet with shared flights, set, delete, invalidate, close, eviction | flights, mutations, one entry and its generation |
| `Realtime` | one connection: subscribe, renew, receive, sweep, send | cursors, a queue of events, a provider that loses and repeats |
| `Files`, `LocalStore` | a file's row and its object; an object as a directory, call by call of the file system | call slots over one row, one path |
| `Sessions`, `OAuthGrants`, `ApiKeys` | credentials that are issued, rotated and revoked | call slots over one row or record |
| `Organization` | members and invitations behind compare-and-swap | calls with the version they read |
| `Initialization` | apply and activate of several processes | calls with the record they read |
| `AppLifecycle` | startApp, plugins, cleanups, stop, withApp | position of setup, finalizer stack |
| `DevSupervisor` | the restart loop, stops, hooks, close | one `pc` per asynchronous activity |
| `*Proofs` | theorems (section 4) | |
| `MC*` | instances for TLC: constants, fairness, unions | |

Definitions introduced by *Slip* are not part of a model. Each is a plausible mistake
in the definition below it; `PROJECT.json` ("mutants") substitutes them one at a time
and expects a property to fail.

Conventions in all modules. One action is what the program does between two awaits; a
database call is atomic, because the code uses one statement, batch or transaction for
it. `pc` is the await at which an activity stands, and the record beside it is what the
closure still remembers. Failing calls take place with and without their effect, and a
process may die wherever the code has durable state to recover from; both are counted
against a bound (`Max...Faults`), so that they cannot happen for ever. Clocks of hosts
differ by at most a `Skew`; where the code uses the database's clock there is none.
Variables called history or ghost only record what callers were told.

**TaskStore.** `jobs` is the table `lenso_d1_task_job`, `0` is NULL. `Fetch` is recovery
followed by the claim, `Pulse` and `Settle` are fenced by attempt, lease and lifetime
(`Fence`), `Enqueue` is insert-unless-conflict and read-back. The callers are arbitrary:
any claim ever handed out may be pulsed or settled at any time. A statement carries any
value of `HostTimes`: an old reading, a slow network and hosts that disagree are the
same thing to the table. Left out: results, errors and traces (no guard reads them),
several queues in one table (each statement is confined by `queue_name`). The retry
delay is the code's expression with `ShiftLeft` for SQLite's `1 << n`.

**TaskWorker.** `worker[w]` holds the variables that `createTaskWorker` closes over.
Each call may fail, with or without effect, a process may crash, and `Stop` may come at
any time. Validation and handler may take any time and end either way.

**PostgresTasks.** pg-boss is modelled by what the provider relies on: supervision may
end any active attempt, pruning any row that is not active, and a failed attempt is
ended by deleting the row and inserting it again (`copy`), which is why the provider's
lock looks again. It does not claim to implement `JobLifecycle`: pg-boss's supervision
knows nothing of requests to cancel, and may retry a job whose cancellation was
requested, which that specification forbids and the provider does not promise.

**Scheduler.** `hosts[h].pc` is the await of a tick. An editor reads (`Load`) and later
writes conditionally (`Replace`, `Trigger`) or gives up. The acknowledgement is awaited
inside the `try`, so a failing one is turned into `dispatch-failed`. Occurrence ids are
the tuples that the code hashes; cron instants are multiples of `Period`, the calendar
being `cron-parser`'s. Left out: the pinning of a scope to a queue (`bind`), read-only
operations.

**Media.** An attempt's number stands for its fence and for the file it uploads. A PUT
may land after its sender gave up and after the file was deleted; recovery is complete
only when it reported no failure.

**Webhooks.** The task queue is its contract: a deduplication key names one job, which
is executed at most once. Admission is `LimitState`'s arithmetic, at the store's clock;
deliveries are claimed by hosts whose clocks differ by at most `Skew`.

**Notifications, Payments.** Both write to a provider that remembers an idempotency key
for a limited time, and a request may arrive `Latency` after it was sent.
`RetentionAssumption` (Payments) makes the contract's "less than its minimum idempotency
retention" precise: less by the latency of a write and the disagreement of clocks.
`Find` may miss an object, as the contract says ("null is not proof that a timed-out
request failed").

**Cache.** A value is the version of the source it was read from, which makes staleness
a comparison of numbers. An entry may be evicted at any time. **Events.** Times are
counted down by the database's clock. **Realtime.** What was published may come late,
twice, out of order or never.

**Files.** A PUT is sent and then carried out by the storage when it likes, or never,
whoever still waits for it: `flight` holds those under way, `Settle` ends one. So a put
that failed, a process that died and a client whose link has expired may still create
the object after `fail` or `delete` removed it, as the READMEs of storage and media
warn. `stale` remembers which PUTs were under way when `delete` removed the object; the
property allows an object under a deleted file only if it is one of them, and TLC
reaches that case from an upload and from a client's link. Hosts and storage have one
clock.

**LocalStore.** A reader recognizes its directory by the inode number, and the file
system may give the number of a removed directory to a new one (`Numbers`); nothing is
assumed about when. One case escapes `load`: the directory that a reader saw first was
removed, and a later one under the same path has its number. That is a limitation of
`local.ts`, which compares device and inode only; `ReadsAreWhole` states it as its one
exception (`Reused`), and TLC reaches it.

**DevSupervisor.** Three things in the restart loop are not caught there:
`options.env()`, the first watches, and `recoveryWatches()` after a failed start
(`Configure`, `Recover`). When one throws, the loop ends (`LoopRejects`) although a
change may be queued and its debounce spent; the error is reported and the change waits
for the next one. That is a limitation of `dev.ts`, and the exception of
`ChangesAreTaken` (`missed`); in the first restart it closes the supervisor. Removing a
temporary directory that was just made (`rmSync` in the spawn's catch) is assumed to
succeed.

**ApiKeys.** The clocks of services are assumed not to be ahead of the database's, as
the package's README requires them to agree.

**AppLifecycle.** `Dispose` is the memoized completion of `onCleanup`; stop, rollback
and dispose by hand go through it. A cleanup that awaits `stop()` waits for itself; the
model does not contain such cleanups.

## 3. Runs

Small components without common state are checked in one run: a variable `part` picks
the component at the start, so the states of a run are the sum of theirs, not the
product (`MCQueued`, `MCServices`, `MCProgress`, `MCAccess`, `MCSettled`).

| Run | Question | Bounds |
|---|---|---|
| `task_store` | is the table consistent under arbitrary callers, and does it implement `JobLifecycle`? | 2 jobs, 1 key, 2 inputs, 2 attempts + 1 retry, lease 2, lifetime 3, skew 1, 4 time units |
| `task_worker` | do workers use it correctly, and run each attempt at most once? | 1 job, 2 attempts, 2 workers, 2 faults, skew 1, 5 time units |
| `task_worker_live` | does every accepted job end? | 1 job, 2 workers, 1 fault besides a hanging handler, lease 2, lifetime 3, skew 1 |
| `task_batch` | does a batch end? | 1 worker with 2 lanes, budget 2, 2 faults, one retry |
| `queued` | scheduler: are reservations and acknowledgements right? media: is the published image safe, is recovery complete? | 1 cron schedule, 2 hosts, 1 editor with 2 edits, 1 fault; 2 attempts, 1 operator call, 1 fault |
| `payments` | does money move once, never exceed the charge, and is what is recorded as final so? | payment and 2 refunds of the whole charge, 2 runs, 1 fault, window 1, retention 2, latency 1, time up to 3 |
| `settled` | is everything due planned, dispatched and recorded at last? | schedule of either kind, 2 hosts, 1 edit, 1 fault; payment and 1 refund, 2 runs, 1 fault, time up to 2 |
| `webhooks` | one request at a time, attempts accounted for, deliveries settled? | 1 delivery, 2 executions, 2 attempts, 3 generations, 1 fault, either retry delay |
| `webhook_admission` | is the concurrency kept while leases run out? | 2 deliveries, 2 executions, concurrency 1, skew 1 |
| `services` | limits, cache, organization, initialization, realtime, PostgreSQL tasks | 2 calls each (3 for initialization), 2 families, 2 people, 1 invitation, 2 jobs, 1 key, 2 inputs; clocks 1 to 5 |
| `progress` | application, supervisor, notifications, events: promises kept and owed | 2 plugins with up to 2 cleanups, 3 changes, 1 notification with 2 senders, 2 processes, 1 event and subscription, 1 fault |
| `access` | do credentials end for good, are files and objects whole? | 2 calls each, 2 policies that differ, 2 users, 2 grants, 2 file faults, 2 puts |

Why the bounds suffice. The races concern *one* row and *two* processes, so one row and
two workers, hosts or calls meet all of them; a second job, refund or delivery is there
where rows compete (deduplication, the charge, admission). A lease shorter than the
lifetime, and both shorter than the horizon, let leases expire, be renewed up to the
lifetime, and be taken over; two attempts are needed for a superseded one; one fault
meets every await, two each other. In `task_worker_live` the horizon lies beyond every
reachable deadline, so the clock is stopped only by having nothing to wait for. In
`payments` it lies beyond the moment at which the provider forgets a key. In
`webhooks` hosts' clocks agree and in `webhook_admission` they do not, which keeps each
small; the theorems hold for both. Symmetry is used for interchangeable calls, hosts,
runs and refunds in runs without liveness only. Deadlock is checked in the task runs,
whose workers never rest; elsewhere a system whose work is done really stops.

### What the runs show

- `task_store`: `LeaseDiscipline` (leases exist exactly while running, end within the
  lifetime, and no pending job is stranded without budget); `AttemptsEndOnce` (no late
  settlement counts, none is lost); `OutcomeIsHonest`; `CancelWins`; `DedupStable`;
  `ImplementsLifecycle`.
- `task_worker`: `SuccessWasExecuted`; `OneLanePerAttempt`; `NothingBeginsAfterStop`;
  `UsesStore` (the workers with their table are a `TaskStore`). `task_worker_live`,
  `task_batch`: `JobsFinish`, `BatchEnds`.
- `queued`: `InstantOnce`, `AcceptanceIsConfirmed`, `OccurrencesAreKept`; `MediaIsSound`.
- `payments`, `settled`: `MovedOnce`, `RefundsCovered`, `TerminalIsTrue`; `Reconciled`,
  `OccurrencesAreDispatched`, `DueIsPlanned`.
- `webhooks`, `webhook_admission`: `OneRequestAtATime`, `AttemptsAccounted`,
  `DeliveriesSettle`, `WithinConcurrency`.
- `services`: `LimitsHold` (windows and close), `CacheIsFresh` (entries and answers),
  `OneFirstOwner`, `StreamIsHonest` (no silent gap, nothing after revocation),
  `PostgresIsSound`, `OrganizationIsSound` (an owner; invitations accepted in time).
- `progress`: `CleanupIsSound` (once, last in first out, failures reported, nothing
  starts after stop), `OneRuntime`, `NotesAreHonest` (one message, a record that tells
  the truth), `EventsAreSound` (exact fan-out, aborts reach handlers),
  `ProcessesMoveOn` (lifetimes end; changes are taken up, also those that come during a
  restart), `MessagesSettle`.
- `access`: `StorageIsSound` (files with late PUTs, local objects with inode numbers that
  are given again), `CredentialsEndForGood`.

Type invariants are stated where they help reading (`TypeOK`, `StoreTypeOK`,
`WorkerTypeOK`) and proved; they are not spent a run on.

### Fairness, and why the code justifies it

- `TaskWorker!FairSpec`: time passes; hosts keep starting workers; database calls and
  timers that a lane or heartbeat awaits end. **Nothing** is assumed of handlers:
  `JobsFinish` holds although a handler may hang, because the lifetime is fixed and
  another lane recovers the job. `DrainSpec` (for `BatchEnds`) adds that handlers settle;
  the contract says so: "a slot remains occupied until the handler actually settles"
  (`contracts.ts`).
- `Scheduler` (in `MCSettled`): time passes and hosts keep ticking. Beyond the horizon
  `Tick` waits for dispatches in progress: without it, two hosts whose every dispatch is
  slower than the lease could take an occurrence from each other for ever, and the
  code promises nothing in that case.
- `Payments` (in `MCSettled`): time passes, requests arrive, and `drain()` keeps being
  called (`scheduler.ts` and `tasks.ts` of the package exist for that). Nothing is
  assumed of webhooks or of finding by metadata, which is why `Reconciled` speaks of
  objects whose id is known or whose event was received.
- `Webhooks!FairSpec`: time passes, workers take jobs, and the host calls `recover()`,
  which the package leaves to a schedule. Deliveries at the bound on generations are
  excepted.
- `MCProgress`: setups, cleanups and the work of `withApp` end; timers of the supervisor
  fire and processes die of SIGKILL; the queue's workers and `reconcile()` run; hosts keep
  calling `dispatch()`, store calls and handlers return.

## 4. Proofs

The theorems hold for every value of the constants that the assumptions named in the
modules admit. They are proved by TLAPS, from nothing but those assumptions and, where
said (`OneRequestAtATime`), a hypothesis of the theorem.

| Module | Theorems of properties that runs check |
|---|---|
| `TaskStoreProofs` | `LeaseDiscipline`, `AttemptsEndOnce`, `OutcomeIsHonest`, `CancelWins`, `DedupStable`, `ImplementsLifecycle` |
| `TaskWorkerProofs` | `SuccessWasExecuted`, `OneLanePerAttempt`, `UsesStore`, `NothingBeginsAfterStop`, and `ImplementsLifecycle` for workers and store together |
| `SchedulerProofs` | `InstantOnce`, `AcceptanceIsConfirmed`, `OccurrencesAreKept`; `MediaIsSound` |
| `PaymentsProofs` | `MovedOnce`, `RefundsCovered`, `TerminalIsTrue` |
| `WebhooksProofs` | `WithinConcurrency`, `AttemptsAccounted`, `OneRequestAtATime` |
| `ServicesProofs` | `LimitsHold`, `CacheIsFresh`, `OrganizationIsSound`, `OneFirstOwner`, `PostgresIsSound`, `StreamIsHonest` |
| `ProgressProofs` | `CleanupIsSound`, `OneRuntime`, `EventsAreSound`, `NotesAreHonest` |
| `AccessProofs` | `StorageIsSound`, `CredentialsEndForGood`, and each part of them for its own component |

**Job table.** None of the invariants is inductive alone: that a failed job has spent
its budget needs that a pending job has not, that the log has the right length needs
that a running job has an attempt. Every statement rewrites rows one by one, so the
inductive invariant `StoreInv` is a predicate on one row and its log (`JobOK`), plus
typing and `DedupStable`, with a lemma for each row transformation; the lemmas per call
say only which rows are touched. Refinement uses the same split: `RowMoves` and
`TakeOverMoves` map what happens to a row to a move of `JobLifecycle`.

**Workers.** What a lane holds is a claim the store handed out (`HoldsClaim`), a
heartbeat is inside its attempt (`BeatsInside`), and a result that is reported is what
the execution returned (`ResultIsReal`), all together with `StoreInv`. Every step is a
step of lanes that leaves the store alone, or one call of the store; so the workers
inherit what the store guarantees, the refinement included.

**Scheduler.** The argument is about revisions. An editor that still matches saw the
row that is stored (`SeenOK`); what was reserved of the current definition lies before
its cursor (`ReservedOK`, `TimersOK`), so an instant is not reserved again; and an
acknowledgement is fenced by a token that is fresh, which is a pigeonhole argument: more
tokens exist than leases were ever given.

**Payments.** The argument is about time. An attempt is dated once, before anything is
sent; a write is sent only within the replay window of that date and arrives within the
latency; so when it arrives, an object that exists was created after the date, and the
provider still remembers its key. This is where `RetentionAssumption` is needed.
`RefundsCovered` is about reservations: an amount is reserved before its refund is first
attempted, and released only by the provider's own final failure, so the refunds that
exist and did not fail are among the reserved ones (`RefundInv`). Amounts are counted in
units of money, as a set of pairs, whose cardinality is the sum; that the library's sum
is that number is shown by a smallest counterexample.

**Media.** An attempt is lost when it has begun, does not execute and was not published;
that is for ever. Only lost attempts are removed (`SweepOK`), because candidates are
taken from the journal, whose entries are of attempts that have begun, and a new claim
comes with a new fence. So a published artifact stays (`AttemptOK`, which also ties
journal, file and object together). Completeness rests on what a recovery that can still
report success knows (`CleanOK`): nobody else is alive, every object but the published
one is ahead of it, and a file is called deleted only after its object has gone.

**Webhooks.** A deduplication key never goes back to pending, so the token of an
execution is its name (`ExecsInv`). A request in flight has an admission lease of its
own that outlasts its deadline, since a renewal grants `LeaseMs` and a deadline is at
most `TimeoutMs` away (`LimitInv`; it needs `Slack > 0`, 10 s in the code). The code
compares the *sum* of the quantities with the capacity; that the sum of leases of
quantity 1 is their number is proved of the library's recursively chosen function by a
smallest counterexample, as no induction over data is available. `AttemptsAccounted`
needs what each state says of the last attempt (`RowsInv`). `OneRequestAtATime` has the
hypothesis `Skew < Margin`, that hosts' clocks differ by less than the second that the
code leaves between a request's deadline and its lease: then the lease of a delivery
outlives the request (`OwnersInv`), and claims, `recover()`, `finish()` and `prune()` of others are
refused until it ends. The hypothesis is what the code relies on; with a
difference of exactly the margin, a recovery may coincide with the deadline.

**Services.** *Counters* (`CounterInv`): windows only grow, so spent capacity is not
given out again when clocks go back. *Leases* (`LeaseInv`): a stored lease is known to the
service or its grant was lost, and what close() drains stays drained. *Cache*
(`FlightIsFresh`): what a flight read is no older than what was over when it
began; a mutation that comes in between advances the generation, and a flight
with an old one is refused, or it deletes the entry after the write. *Organization* (`ReadSome`): who read the stored version read
the stored row, so a compare-and-swap that succeeds changes exactly what it decided on.
*Initialization* (`HoldsStored`, `ActivatesFirst`): past its commit a call holds the
request that is stored for good. *PostgreSQL tasks* (`RowsAgree`, `AnswerHolds`,
`RelationInv`): the two tables agree about every job, and an answer of cancel is still
written in one of them.

*Realtime* (`StreamInv`): what the client was sent, holds in hand and has queued about a
subscription that is up is an honest tale that ends at the cursor of the subscription or
in a gap after it; of any other, only that it is closed is queued. So what `receive`
appends continues the tale. A queue is purged by selection and a delivery is a fold over
the listeners: the lemmas on `About` are proved by a smallest counterexample, and that a
visit leaves a listener's tale as one visit of it alone would (`Visited`) by unfolding
the library's fold at a smallest set. `RealtimeAssumption` only says that the connection
is no subscription.

**Application.** Which cleanups may be under way and in which order they ended is a
function of the finalizer stack and of the memoized disposers.
**Development supervisor.** A generation is active, or its stop is chained, or the loop
is at its entry, and never two of these (`OneAtATime`); whatever runs or is open is the
generation so placed. That a generation's number is within the bound is counted from the
changes that were asked for (`CyclesAreAsked`). A restart is rejected only where nothing
is active and no engine of its cycle is open, so it leaves nothing behind
(`RejectsKeeps`).

**Events.** A dispatcher that holds a claim knows what it is of, and a process that is
gone dispatches nothing (`EventInv`); then the batches of the store keep the fan-out
equal to the audience of the first publication.

**Notifications.** What a sender has read is true until the record's revision moves
(`Reads`, `Owns`). A first attempt that still owns the record is alone at the provider
(`Alone`), so a failure it reports denies nothing; a later attempt arrives within the
window of the first one (`InWindow`), so the provider recognizes it. The hypothesis is
`NotificationAssumption`: the margin covers latency and skew.

**Files.** At most one call holds the row of an upload under way (`OneUploader`),
because whoever wins the claim advances the revision; so no other upload changes the
object between its check and the row becoming ready, and PUTs only create. `delete` waits
until the client's link has expired and no call is uploading (`RowIsTrue`), so once it
has removed the object no PUT is sent any more; what can still land was under way by
then (`Gone`). Links live for a natural number of seconds (`UploadAssumption`).

**Local store.** A put owns its directory until it has renamed it (`OwnDirectory`,
`PutOk`), so what stands under the path has both files (`PathsOk`). A reader confirms the
identity of the directory after it opened and loaded, and what it loaded is of that
directory (`LoadOk`). Directories that are not removed have different numbers
(`NumbersOk`), so a directory that has the number of the first one is the first one,
unless that was removed (`LoadedOk`). A delete owes every tomb it has seen until it is gone (`DeleteOk`).

**Sessions.** A record that a call read is not newer than the row, and expires with it
if the revision is the row's (`ReadOf`); so a renewal that the store accepts was computed
from the row it replaces, and cannot put off its end. Nothing is assumed of clocks and
lifetimes but that they are numbers (`LifetimeAssumption`): the store compares revision,
digest and its own clock once more. The theorem is of an action property, `EndIsKept`.

**API keys.** A credential that no service accepts is never accepted again (`Dead`), and a
use whose credential was dead when the policy had answered does not get past its next
verification (`UseOk`).
The overlap of a rotation is in the row until it is over or the key is revoked
(`PromiseOk`).

**OAuth grants.** What a call read is the record unless its revision has moved on
(`ReadRequest`, `ReadRow`), so each compare-and-swap acts on what it decided about: a
request becomes one grant of the user who was let in, a code and a refresh token are used
once, and the pair of a grant is the last one drawn for it (`RecordsOk`), which is why a
confirmed revocation of a pair stays true (`RevokedOk`). Users are told apart from the
empty subject of an unopened request (`UserAssumption`).


Every inductive invariant was first checked by TLC on the instance of its run.

Only model-checked: liveness and everything that needs fairness or ENABLED (`JobsFinish`,
`BatchEnds`, `OccurrencesAreDispatched`, `DueIsPlanned`, `Reconciled`,
`DeliveriesSettle`, `ProcessesMoveOn`, `MessagesSettle`), which the prover does not
handle. Every invariant and every action property that does not need fairness is proved.

## 5. Plan

1. Models that would extend the coverage: object access through S3, the plugin
   resolution and workspace of the engine, the authorization store, request lifetimes of
   the hosts.
2. An abstract specification of a leased outbox, which the scheduler's occurrences,
   webhook deliveries and event deliveries all implement.

## 6. Not modelled

- *Engine beyond the supervisor* (`engine-host.ts`, `operations.ts`, `workspace.ts`):
  resolves, bundles and writes files of a developer's machine, one command at a time.
- *auth core, federation and HTTP*, `authorization`: protocols with external parties and
  evaluation of policies; what they keep (sessions, grants, keys) is modelled.
- *Other stores* (PostgreSQL, Redis, Durable Objects, S3, R2): the same contracts with
  row locks or scripts; the D1 and memory stores are modelled, and the PostgreSQL tasks,
  whose two tables are a protocol of their own.
- *Adapters and hosts* (`web`, `workers`, `mcp`, `manage`, `cli`), telemetry and logging,
  JSON and schema validation, calendar arithmetic, `search`, `audit`, `runtime`, `otel`,
  `db`, examples and templates: functions without a protocol, input and output.
- Within modelled components the parts left out are named in the module's header and in
  the component's note in `PROJECT.json`. The hazard without a property is a cleanup that
  awaits `stop()`.
