------------------------------ MODULE TaskStore ------------------------------
(***************************************************************************)
(* The durable job table of a task queue, as the D1 provider               *)
(* (packages/tasks/src/d1.ts) keeps it, together with every statement that *)
(* provider sends to it.  One action is one database call: D1 runs a       *)
(* statement, and a batch of statements, atomically.                       *)
(*                                                                         *)
(* The callers are arbitrary here: any claim that was ever handed out may  *)
(* still be pulsed or settled, however late, by a process that may be      *)
(* dead, slow or superseded.  TaskWorker.tla supplies the real callers.    *)
(*                                                                         *)
(* Time.  Every process reads its own clock (`now()`) before it sends a    *)
(* statement; by the time the database runs it the value may be old, and   *)
(* two hosts may disagree.  The variable clock is the fastest host's       *)
(* clock; `HostTimes' is the set of values a statement may carry: anything *)
(* at most Skew behind it.                                                 *)
(*                                                                         *)
(* Abstracted: the result, error and trace columns; a task's name and      *)
(* canonical input are one value of Payloads; a job id is a number, so     *)
(* that `ORDER BY run_at, id' means what it says.  Zero is SQL's NULL.     *)
(*                                                                         *)
(* Definitions introduced by `Slip:' are not part of the model: each is a  *)
(* plausible mistake in the definition that follows it, and the mutation   *)
(* runs check that some property notices it.                               *)
(***************************************************************************)
EXTENDS Naturals, Sequences

CONSTANTS JobIds,        \* the UUIDs that enqueue may draw
          Payloads,      \* task name and canonical input of a job
          Keys,          \* deduplication keys
          NoKey,         \* the job has no deduplication key
          MaxAttempts,   \* maxAttempts of the task
          MaxRetries,    \* bound: how often an operator retries one job
          LeaseMs,       \* leaseMs of the provider
          ExpireInMs,    \* expireInMs of the provider
          Skew,          \* latency and disagreement of host clocks
          Horizon,       \* bound: time stops here
          RunDelays,     \* how far ahead runAt may lie when a job is enqueued
          DelaySeconds,  \* retry.delaySeconds
          Backoff,       \* retry.backoff
          MaxDelay,      \* retry.maxDelaySeconds, or the saturation limit
          ShiftCap,      \* the largest shift of the exponential delay (52)
          ShiftLeft(_)   \* SQLite's 1 << n

ASSUME IdAssumption == JobIds \subseteq Nat \ {0}
ASSUME KeyAssumption == NoKey \notin Keys
ASSUME BudgetAssumption == MaxAttempts \in Nat \ {0} /\ MaxRetries \in Nat
ASSUME LeaseAssumption == LeaseMs \in Nat \ {0} /\ ExpireInMs \in Nat \ {0}
ASSUME TimeAssumption == Skew \in Nat /\ Horizon \in Nat /\ RunDelays \subseteq Nat
ASSUME DelayAssumption ==
  /\ DelaySeconds \in Nat /\ MaxDelay \in Nat /\ ShiftCap \in Nat
  /\ Backoff \in BOOLEAN
  /\ \A n \in 0..ShiftCap : ShiftLeft(n) \in Nat

VARIABLES clock,     \* the clock of the fastest host
          jobs,      \* the table lenso_d1_task_job, one row per id
          log,       \* history: <<attempt, acknowledged with a result>> for
                     \*   each attempt of a job that ended, in order
          replies    \* history: what enqueue answered to its callers

storeVars == <<clock, jobs, log, replies>>

NULL == 0

JobState == {"absent", "pending", "running", "succeeded", "failed", "cancelled"}
Terminal == {"succeeded", "failed", "cancelled"}

Row == [state : JobState, payload : Payloads \cup {NoKey}, key : Keys \cup {NoKey},
        attempt : Nat, max : Nat, cancel : BOOLEAN, runAt : Nat,
        lease : Nat, expires : Nat]

NoRow == [state |-> "absent", payload |-> NoKey, key |-> NoKey, attempt |-> 0,
          max |-> 0, cancel |-> FALSE, runAt |-> 0, lease |-> NULL, expires |-> NULL]

Lesser(a, b) == IF a <= b THEN a ELSE b
Greater(a, b) == IF a >= b THEN a ELSE b

(***************************************************************************)
(* The times.  Time starts late enough that a lagging host is not before 1,*)
(* which keeps NULL apart from every deadline.                             *)
(***************************************************************************)
HostTimes == {t \in 0..clock : clock <= t + Skew}

Deadlines == UNION {{jobs[j].lease, jobs[j].expires, jobs[j].runAt} :
                    j \in {i \in JobIds : jobs[i].state \in {"pending", "running"}}}

(* Time passes.  Once every deadline is behind every host's clock nothing  *)
(* in the table depends on time any more, and the clock may rest.          *)
Tick == /\ clock < Horizon
        /\ \E d \in Deadlines : clock < d + Skew
        /\ clock' = clock + 1
        /\ UNCHANGED <<jobs, log, replies>>

StoreInit == /\ clock = Skew + 1
             /\ jobs = [j \in JobIds |-> NoRow]
             /\ log = [j \in JobIds |-> <<>>]
             /\ replies = {}

(***************************************************************************)
(* retryDelay: the pause before the attempt that follows attempt n, in the *)
(* unit of clock (the code's factor of 1000 from seconds to milliseconds). *)
(***************************************************************************)
RetryDelay(n) ==
  Lesser(MaxDelay, IF Backoff THEN Greater(DelaySeconds, 1) * ShiftLeft(Lesser(n - 1, ShiftCap))
                              ELSE DelaySeconds)

(***************************************************************************)
(* fetch, first statement: every running job whose lease or lifetime is    *)
(* over, by the caller's clock, leaves the running state.                  *)
(***************************************************************************)
Overdue(row, t) == row.state = "running" /\ (row.lease <= t \/ row.expires <= t)

(* Slip: recovery forgets that cancellation was requested.                 *)
RecoveredDespiteCancel(row, t) ==
  [row EXCEPT !.state = IF row.attempt >= row.max THEN "failed" ELSE "pending",
              !.runAt = t + RetryDelay(row.attempt), !.lease = NULL, !.expires = NULL]

Recovered(row, t) ==
  [row EXCEPT !.state = CASE row.cancel -> "cancelled"
                          [] ~row.cancel /\ row.attempt >= row.max -> "failed"
                          [] OTHER -> "pending",
              !.runAt = IF ~row.cancel /\ row.attempt < row.max
                        THEN t + RetryDelay(row.attempt) ELSE row.runAt,
              !.lease = NULL,
              !.expires = NULL]

RecoverAll(t) == [j \in JobIds |-> IF Overdue(jobs[j], t) THEN Recovered(jobs[j], t) ELSE jobs[j]]

LogRecovered(t) == [j \in JobIds |-> IF Overdue(jobs[j], t)
                                     THEN Append(log[j], <<jobs[j].attempt, FALSE>>)
                                     ELSE log[j]]

(***************************************************************************)
(* fetch, second statement: claim the due job that is first by run_at, id. *)
(***************************************************************************)
Due(row, t) == /\ row.state = "pending" /\ ~row.cancel
               /\ row.runAt <= t /\ row.attempt < row.max

Before(table, i, j) == \/ table[i].runAt < table[j].runAt
                       \/ table[i].runAt = table[j].runAt /\ i <= j

FirstDue(table, t) ==
  {j \in JobIds : /\ Due(table[j], t)
                  /\ \A i \in JobIds : Due(table[i], t) => Before(table, j, i)}

(* Slip: no new attempt number.                                            *)
ClaimedUncounted(row, t) ==
  [row EXCEPT !.state = "running",
              !.lease = t + Lesser(LeaseMs, ExpireInMs), !.expires = t + ExpireInMs]

Claimed(row, t) == [row EXCEPT !.state = "running",
                               !.attempt = row.attempt + 1,
                               !.lease = t + Lesser(LeaseMs, ExpireInMs),
                               !.expires = t + ExpireInMs]

(* backend.fetch: recovery and claim share one atomic batch.  `claims' is  *)
(* what comes back: no job, or the one that was claimed.                   *)
Fetch(t, claims) ==
  LET table == RecoverAll(t)
  IN /\ claims = FirstDue(table, t)
     /\ jobs' = [j \in JobIds |-> IF j \in claims THEN Claimed(table[j], t) ELSE table[j]]
     /\ log' = LogRecovered(t)
     /\ UNCHANGED <<clock, replies>>

(* Slip: the fence does not ask which attempt runs.                        *)
FenceAnyAttempt(j, a, t) == /\ jobs[j].state = "running"
                            /\ jobs[j].lease > t /\ jobs[j].expires > t

(***************************************************************************)
(* The fence of pulse and settle: the row still belongs to attempt a.      *)
(***************************************************************************)
Fence(j, a, t) == /\ jobs[j].attempt = a
                  /\ jobs[j].state = "running"
                  /\ jobs[j].lease > t
                  /\ jobs[j].expires > t

(* Slips: a lease past the lifetime; a lifetime that slides along.         *)
PulsedPastLifetime(row, t) == [row EXCEPT !.lease = t + LeaseMs]
PulsedSliding(row, t) == [row EXCEPT !.lease = t + LeaseMs, !.expires = t + ExpireInMs]

(* backend.pulse: prolong the lease, never past the end of the lifetime.   *)
Pulsed(row, t) == [row EXCEPT !.lease = Lesser(t + LeaseMs, row.expires)]

Pulse(j, a, t) ==
  /\ jobs' = IF Fence(j, a, t) THEN [jobs EXCEPT ![j] = Pulsed(jobs[j], t)] ELSE jobs
  /\ UNCHANGED <<clock, log, replies>>

(* Slip: an attempt too few.                                               *)
SettledEarly(row, ok, t) ==
  [row EXCEPT !.state = CASE row.cancel -> "cancelled"
                          [] ~row.cancel /\ ok -> "succeeded"
                          [] ~row.cancel /\ ~ok /\ row.attempt + 1 < row.max -> "pending"
                          [] OTHER -> "failed",
              !.lease = NULL, !.expires = NULL]

(* backend.settle: the outcome of attempt a, `ok' when it has a result.    *)
Settled(row, ok, t) ==
  [row EXCEPT !.state = CASE row.cancel -> "cancelled"
                          [] ~row.cancel /\ ok -> "succeeded"
                          [] ~row.cancel /\ ~ok /\ row.attempt < row.max -> "pending"
                          [] OTHER -> "failed",
              !.runAt = IF ~row.cancel /\ ~ok /\ row.attempt < row.max
                        THEN t + RetryDelay(row.attempt) ELSE row.runAt,
              !.lease = NULL,
              !.expires = NULL]

Settle(j, a, ok, t) ==
  /\ jobs' = IF Fence(j, a, t) THEN [jobs EXCEPT ![j] = Settled(jobs[j], ok, t)] ELSE jobs
  /\ log' = IF Fence(j, a, t)
            THEN [log EXCEPT ![j] = Append(log[j], <<a, ok>>)]
            ELSE log
  /\ UNCHANGED <<clock, replies>>

(* Slip: a finished job no longer occupies its key.                        *)
StoredLive(key) == {j \in JobIds : key # NoKey /\ jobs[j].key = key
                                  /\ jobs[j].state \notin Terminal}

(***************************************************************************)
(* The producer's and the operator's calls.                                *)
(***************************************************************************)
Stored(key) == {j \in JobIds : key # NoKey /\ jobs[j].key = key}

NewRow(key, payload, runAt) ==
  [NoRow EXCEPT !.state = "pending", !.payload = payload, !.key = key,
                !.max = MaxAttempts, !.runAt = runAt]

(* provider.enqueue: insert unless the key is taken, then read back the    *)
(* stored row; the caller gets its id, or deduplication-conflict when the  *)
(* stored job is another one.  `id' is the freshly drawn UUID.             *)
Enqueue(id, key, payload, runAt) ==
  /\ jobs[id].state = "absent"
  /\ jobs' = IF Stored(key) = {} THEN [jobs EXCEPT ![id] = NewRow(key, payload, runAt)] ELSE jobs
  /\ replies' = replies \cup
       (IF Stored(key) = {} THEN {<<key, payload, id>>}
        ELSE {<<key, payload, j>> : j \in {i \in Stored(key) : jobs[i].payload = payload}})
  /\ UNCHANGED <<clock, log>>

(* provider.cancel: at once for a pending job, a request for a running one,*)
(* nothing for a terminal or a missing one.                                *)
CancelRow(row) ==
  [row EXCEPT !.cancel = TRUE,
              !.state = IF row.state = "pending" THEN "cancelled" ELSE row.state,
              !.lease = IF row.state = "pending" THEN NULL ELSE row.lease,
              !.expires = IF row.state = "pending" THEN NULL ELSE row.expires]

Cancel(j) ==
  /\ jobs[j].state \in {"pending", "running"}
  /\ jobs' = [jobs EXCEPT ![j] = CancelRow(jobs[j])]
  /\ UNCHANGED <<clock, log, replies>>

(* Slip: a retry without a further attempt to spend.                       *)
RetryRowUnfunded(row, t) == [row EXCEPT !.state = "pending", !.runAt = t]

(* provider.retry: one more attempt for a failed job, due immediately.     *)
RetryRow(row, t) ==
  [row EXCEPT !.state = "pending", !.max = row.max + 1, !.cancel = FALSE,
              !.runAt = t, !.lease = NULL, !.expires = NULL]

Retry(j, t) ==
  /\ jobs[j].state = "failed"
  /\ jobs[j].max < MaxAttempts + MaxRetries
  /\ jobs' = [jobs EXCEPT ![j] = RetryRow(jobs[j], t)]
  /\ UNCHANGED <<clock, log, replies>>

(***************************************************************************)
(* The store under arbitrary callers.  A claim (j, a) exists once attempt  *)
(* a of j was handed out.                                                  *)
(***************************************************************************)
SomeFetch == \E t \in HostTimes : \E claims \in SUBSET JobIds : Fetch(t, claims)

SomePulse == \E t \in HostTimes, j \in JobIds :
               \E a \in 1..jobs[j].attempt : Pulse(j, a, t)

SomeSettle == \E t \in HostTimes, j \in JobIds, ok \in BOOLEAN :
                \E a \in 1..jobs[j].attempt : Settle(j, a, ok, t)

SomeEnqueue == \E t \in HostTimes, id \in JobIds, key \in Keys \cup {NoKey},
                  payload \in Payloads, d \in RunDelays :
                 Enqueue(id, key, payload, t + d)

SomeCancel == \E j \in JobIds : Cancel(j)

SomeRetry == \E j \in JobIds, t \in HostTimes : Retry(j, t)

StoreNext == \/ Tick \/ SomeFetch \/ SomePulse \/ SomeSettle
             \/ SomeEnqueue \/ SomeCancel \/ SomeRetry

StoreSpec == StoreInit /\ [][StoreNext]_storeVars

-----------------------------------------------------------------------------

(* Type correctness of the job table and of what the callers were told.    *)
StoreTypeOK == /\ clock \in Nat
               /\ jobs \in [JobIds -> Row]
               /\ log \in [JobIds -> Seq(Nat \X BOOLEAN)]
               /\ replies \subseteq (Keys \cup {NoKey}) \X Payloads \X JobIds

(* Exactly the running jobs have a lease and a lifetime, the lease never   *)
(* outlasts the lifetime however often it was prolonged, no job runs more  *)
(* often than its budget, and a waiting job has an attempt left: the       *)
(* claim's `attempt < max_attempts' never strands one (fetch, pulse,       *)
(* settle, retry of d1.ts).                                                *)
LeaseDiscipline ==
  \A j \in JobIds :
    /\ jobs[j].state = "running" => 0 < jobs[j].lease /\ jobs[j].lease <= jobs[j].expires
    /\ jobs[j].state # "running" => jobs[j].lease = NULL /\ jobs[j].expires = NULL
    /\ jobs[j].attempt <= jobs[j].max
    /\ jobs[j].state = "pending" => jobs[j].attempt < jobs[j].max

(* Every attempt that was handed out ends exactly once, in the order the   *)
(* attempts were claimed, and only the current attempt can be unfinished:  *)
(* late, repeated and superseded settlements and recoveries never count    *)
(* (the fence and the recovery condition of d1.ts).                        *)
AttemptsEndOnce ==
  \A j \in JobIds :
    /\ Len(log[j]) = IF jobs[j].state = "running" THEN jobs[j].attempt - 1 ELSE jobs[j].attempt
    /\ \A n \in 1..Len(log[j]) : log[j][n][1] = n

(* What a terminal state says is what happened: a job is succeeded when,   *)
(* and only when, its last attempt was acknowledged with a result, and a   *)
(* failed job has spent its whole budget.                                  *)
OutcomeIsHonest ==
  \A j \in JobIds :
    /\ jobs[j].state = "succeeded" => /\ Len(log[j]) > 0
                                      /\ log[j][Len(log[j])][2]
    /\ jobs[j].state = "failed" => jobs[j].attempt = jobs[j].max
    /\ \A n \in 1..Len(log[j]) :
         log[j][n][2] => /\ n = Len(log[j])
                         /\ jobs[j].state \in {"succeeded", "cancelled"}

(* Once cancellation of a job was accepted, the job can only still be      *)
(* running or be cancelled: no result, failure or retry overtakes it, in   *)
(* whichever order cancel, settle, recovery and claim reach the table.     *)
CancelWins ==
  \A j \in JobIds :
    /\ jobs[j].cancel => jobs[j].state \in {"running", "cancelled"}
    /\ jobs[j].state = "cancelled" => jobs[j].cancel

(* A deduplication key names one job: all callers that were given an id    *)
(* for it hold the same id, asked for the same task and input, and that is *)
(* what the stored job runs (enqueue's insert, read back and compare).     *)
DedupStable ==
  /\ \A r \in replies : jobs[r[3]].state # "absent" /\ jobs[r[3]].payload = r[2]
                        /\ jobs[r[3]].key = r[1]
  /\ \A i, j \in JobIds : jobs[i].key = jobs[j].key /\ jobs[i].key # NoKey => i = j

(* The store implements the life of a job that every provider promises.    *)
Lifecycle == INSTANCE JobLifecycle
               WITH status <- [j \in JobIds |-> jobs[j].state],
                    attempt <- [j \in JobIds |-> jobs[j].attempt],
                    budget <- [j \in JobIds |-> jobs[j].max],
                    cancelled <- [j \in JobIds |-> jobs[j].cancel]

(* Every step of the table moves each job as JobLifecycle allows, from an  *)
(* empty queue on: in particular only `retry' of a failed job leaves a     *)
(* terminal state, and attempts are never given back.                      *)
ImplementsLifecycle == Lifecycle!Spec

(* The lifetime of an attempt is fixed when it is claimed: no heartbeat    *)
(* moves it ("Heartbeats do not extend it"), so an attempt ends even when  *)
(* its worker never stops pulsing.                                         *)
LifetimeFixed ==
  [][\A j \in JobIds :
       jobs[j].state = "running" /\ jobs'[j].state = "running" /\ jobs'[j].attempt = jobs[j].attempt
       => jobs'[j].expires = jobs[j].expires]_storeVars
=============================================================================
