----------------------------- MODULE TaskWorker -----------------------------
(***************************************************************************)
(* Workers that pull jobs from the table of TaskStore.tla and run them:    *)
(* createTaskWorker (packages/tasks/src/worker.ts) with its concurrent     *)
(* lanes, the heartbeat that accompanies every claim, timeouts, stop,      *)
(* batch limits and the reaction to a failing database, and the queue      *)
(* facade's executeAttempt (packages/tasks/src/index.ts) that calls the    *)
(* application's handler.                                                  *)
(*                                                                         *)
(* A lane's `pc' is the await it stands at; the code between two awaits is *)
(* one step.  A database call and the arrival of its reply are one step:   *)
(* a reply only sets flags that the lane reads again after it has drained  *)
(* its heartbeat.  A call may also fail, before or after it took effect.   *)
(*                                                                         *)
(*    "loop"     top of the while loop of lane()                           *)
(*    "fetch"    awaits backend.fetch()                                    *)
(*    "first"    awaits the first pulse() of run()                         *)
(*    "validate" awaits the task's input schema in executeAttempt()        *)
(*    "execute"  awaits the task's handler                                 *)
(*    "drain"    awaits the heartbeat after the attempt was settled        *)
(*    "settle"   awaits backend.settle()                                   *)
(*    "poll"     sleeps until the next poll                                *)
(*    "done"     the lane has returned or thrown                           *)
(*    "off"      the worker's process is not running                       *)
(*                                                                         *)
(* Definitions introduced by `Slip:' are not part of the model: each is a  *)
(* plausible mistake in the definition that follows it, and the mutation   *)
(* runs check that some property notices it.                               *)
(***************************************************************************)
EXTENDS TaskStore

CONSTANTS Lanes,         \* the lanes of all workers
          Workers,       \* worker processes
          WorkerOf,      \* WorkerOf[l]: the worker lane l belongs to
          MaxJobs,       \* options.maxJobs, 0 when not given
          StopWhenIdle,  \* options.stopWhenIdle
          HasTimeout,    \* options.timeoutMs is given
          MaxFaults      \* bound: crashes, stops and failed calls per behaviour

ASSUME WorkerAssumption ==
  /\ WorkerOf \in [Lanes -> Workers]
  /\ MaxJobs \in Nat /\ MaxFaults \in Nat
  /\ StopWhenIdle \in BOOLEAN /\ HasTimeout \in BOOLEAN

VARIABLES worker,    \* worker[w]: the variables createTaskWorker closes over
          lane,      \* lane[l]: where the lane is and what run() holds
          faults,    \* faults so far
          finished   \* history: attempts whose handler returned a result
                     \*   while nothing had aborted it

workerVars == <<worker, lane, faults, finished>>
vars == <<storeVars, workerVars>>

Idle == [pc |-> "off", job |-> 0, attempt |-> 0, aborted |-> FALSE,
         lost |-> FALSE, ok |-> FALSE, heartbeat |-> "off"]

Fresh == [up |-> FALSE, stopping |-> FALSE, exhausted |-> FALSE,
          abortOnStop |-> FALSE, attempts |-> 0]

Pcs == {"off", "loop", "fetch", "first", "validate", "execute", "drain",
        "settle", "poll", "done"}

(* The places where run() holds a claim, its controller in `active'.       *)
Holding == {"first", "validate", "execute", "drain", "settle"}

Init == /\ StoreInit
        /\ worker = [w \in Workers |-> Fresh]
        /\ lane = [l \in Lanes |-> Idle]
        /\ faults = 0
        /\ finished = {}

LanesOf(w) == {l \in Lanes : WorkerOf[l] = w}
Own(l) == worker[WorkerOf[l]]

At(l, pc) == lane[l].pc = pc
GoTo(l, pc) == lane' = [lane EXCEPT ![l] = [Idle EXCEPT !.pc = pc]]

(* controller.abort() on every claim of worker w, in the given lanes.      *)
AbortActive(w, lanes) ==
  [l \in Lanes |-> IF WorkerOf[l] = w /\ lanes[l].pc \in Holding
                   THEN [lanes[l] EXCEPT !.aborted = TRUE] ELSE lanes[l]]

Fault == faults < MaxFaults /\ faults' = faults + 1

(***************************************************************************)
(* Start, stop, crash.                                                     *)
(***************************************************************************)

(* startWorker (or runBatch): a new worker, all lanes at the top of their  *)
(* loops.                                                                  *)
Start(w) ==
  /\ ~worker[w].up
  /\ worker' = [worker EXCEPT ![w] = [Fresh EXCEPT !.up = TRUE]]
  /\ lane' = [l \in Lanes |-> IF WorkerOf[l] = w THEN [Idle EXCEPT !.pc = "loop"] ELSE lane[l]]
  /\ UNCHANGED <<storeVars, faults, finished>>

(* Slip: stop hands its claims back by itself, around the store.           *)
StopReleases(w, abort) ==
  /\ worker[w].up
  /\ Fault
  /\ worker' = [worker EXCEPT ![w].stopping = TRUE]
  /\ jobs' = [j \in JobIds |-> IF \E l \in LanesOf(w) : lane[l].pc \in Holding /\ lane[l].job = j
                               THEN [jobs[j] EXCEPT !.state = "pending"] ELSE jobs[j]]
  /\ UNCHANGED <<clock, log, replies, lane, finished>>

(* stop({ abort }): no new claims; with abort, the active ones are told.   *)
Stop(w, abort) ==
  /\ worker[w].up
  /\ Fault
  /\ worker' = [worker EXCEPT ![w].stopping = TRUE, ![w].abortOnStop = @ \/ abort]
  /\ lane' = IF abort THEN AbortActive(w, lane) ELSE lane
  /\ UNCHANGED <<storeVars, finished>>

(* The promise `done' settles once every lane has.                         *)
Done(w) ==
  /\ worker[w].up
  /\ \A l \in LanesOf(w) : At(l, "done")
  /\ worker' = [worker EXCEPT ![w] = Fresh]
  /\ lane' = [l \in Lanes |-> IF WorkerOf[l] = w THEN Idle ELSE lane[l]]
  /\ UNCHANGED <<storeVars, faults, finished>>

(* The process dies; whatever it held stays claimed in the table.          *)
Crash(w) ==
  /\ worker[w].up
  /\ Fault
  /\ worker' = [worker EXCEPT ![w] = Fresh]
  /\ lane' = [l \in Lanes |-> IF WorkerOf[l] = w THEN Idle ELSE lane[l]]
  /\ UNCHANGED <<storeVars, finished>>

(* lane().catch: one lane's failure stops the worker and aborts the        *)
(* siblings, so that they can drain.                                       *)
LaneFails(l) ==
  /\ worker' = [worker EXCEPT ![WorkerOf[l]].stopping = TRUE,
                              ![WorkerOf[l]].abortOnStop = TRUE]
  /\ lane' = AbortActive(WorkerOf[l], [lane EXCEPT ![l] = [Idle EXCEPT !.pc = "done"]])

(***************************************************************************)
(* lane(): the loop around fetch.                                          *)
(***************************************************************************)

BudgetLeft(w) == MaxJobs = 0 \/ worker[w].attempts < MaxJobs

(* The loop condition, and the reservation of one attempt out of the       *)
(* budget that the lanes share, made before the lane yields (counted only  *)
(* when there is a budget).                                                *)
LoopTop(l) ==
  /\ At(l, "loop")
  /\ IF Own(l).stopping \/ Own(l).exhausted \/ ~BudgetLeft(WorkerOf[l])
     THEN GoTo(l, "done") /\ UNCHANGED worker
     ELSE /\ GoTo(l, "fetch")
          /\ worker' = IF MaxJobs = 0 THEN worker
                       ELSE [worker EXCEPT ![WorkerOf[l]].attempts = @ + 1]
  /\ UNCHANGED <<storeVars, faults, finished>>

(* fetch() returned a claim: a stop that raced with it aborts the attempt  *)
(* before it begins.                                                       *)
Begin(l, j) ==
  /\ lane' = [lane EXCEPT ![l] = [Idle EXCEPT !.pc = "first", !.job = j,
                                              !.attempt = jobs'[j].attempt,
                                              !.aborted = Own(l).stopping \/ Own(l).abortOnStop]]
  /\ UNCHANGED worker

(* fetch() returned nothing: a batch is exhausted, a server polls again.   *)
NothingDue(l) ==
  \/ /\ StopWhenIdle
     /\ worker' = [worker EXCEPT ![WorkerOf[l]].exhausted = TRUE]
     /\ GoTo(l, "loop")
  \/ /\ ~StopWhenIdle
     /\ GoTo(l, IF ~Own(l).stopping /\ BudgetLeft(WorkerOf[l]) THEN "poll" ELSE "loop")
     /\ UNCHANGED worker

FetchReply(l) ==
  /\ At(l, "fetch")
  /\ \E t \in HostTimes : \E claims \in SUBSET JobIds :
       /\ Fetch(t, claims)
       /\ IF claims = {} THEN NothingDue(l) ELSE \E j \in claims : Begin(l, j)
  /\ UNCHANGED <<faults, finished>>

FetchFails(l) ==
  /\ At(l, "fetch")
  /\ Fault
  /\ \/ UNCHANGED storeVars
     \/ \E t \in HostTimes : \E claims \in SUBSET JobIds : Fetch(t, claims)
  /\ LaneFails(l)
  /\ UNCHANGED finished

(* The poll delay ends by its timer or by wake.abort().                    *)
PollWake(l) ==
  /\ At(l, "poll")
  /\ GoTo(l, "loop")
  /\ UNCHANGED <<storeVars, worker, faults, finished>>

(***************************************************************************)
(* run(): one claim.                                                       *)
(***************************************************************************)

(* pulse() after its reply: r is the lane afterwards.                      *)
Heard(r, owned, cancelRequested) ==
  [r EXCEPT !.lost = @ \/ ~owned,
            !.aborted = @ \/ r.lost \/ ~owned \/ cancelRequested]

(* Slip: a stop during the first pulse is not noticed.                     *)
LaunchedUnlessAborted(r, stopping) ==
  [r EXCEPT !.heartbeat = IF r.lost THEN "off" ELSE "sleep",
            !.pc = IF r.aborted THEN "drain" ELSE "validate"]

(* Slip: the first pulse is repeated until the claim is owned.             *)
LaunchedOnceOwned(r, stopping) ==
  [r EXCEPT !.heartbeat = IF r.lost THEN "off" ELSE "sleep",
            !.pc = IF r.lost THEN "first" ELSE IF r.aborted \/ stopping THEN "drain" ELSE "validate"]

(* Where run() goes from the first pulse: the heartbeat starts unless the  *)
(* claim is already lost, and an aborted claim executes nothing.           *)
Launched(r, stopping) ==
  [r EXCEPT !.aborted = @ \/ stopping,
            !.heartbeat = IF r.lost THEN "off" ELSE "sleep",
            !.pc = IF r.aborted \/ stopping THEN "drain" ELSE "validate"]

FirstPulse(l) ==
  /\ At(l, "first")
  /\ \E t \in HostTimes :
       LET j == lane[l].job
           owned == Fence(j, lane[l].attempt, t)
           r == Heard(lane[l], owned, owned /\ jobs[j].cancel)
       IN /\ Pulse(j, lane[l].attempt, t)
          /\ lane' = [lane EXCEPT ![l] = Launched(r, Own(l).stopping)]
  /\ UNCHANGED <<worker, faults, finished>>

FirstPulseFails(l) ==
  /\ At(l, "first")
  /\ Fault
  /\ \/ UNCHANGED storeVars
     \/ \E t \in HostTimes : Pulse(lane[l].job, lane[l].attempt, t)
  /\ lane' = [lane EXCEPT ![l] = Launched(Heard(lane[l], FALSE, FALSE), Own(l).stopping)]
  /\ UNCHANGED <<worker, finished>>

(* The heartbeat loop: asleep, or awaiting its pulse.  Settling the        *)
(* attempt wakes it, and it ends instead of pulsing again.                 *)
HeartbeatWake(l) ==
  /\ lane[l].heartbeat = "sleep"
  /\ lane' = [lane EXCEPT ![l].heartbeat = IF At(l, "drain") THEN "off" ELSE "pulse"]
  /\ UNCHANGED <<storeVars, worker, faults, finished>>

Beat(r) == [r EXCEPT !.heartbeat = IF r.pc = "drain" \/ r.lost THEN "off" ELSE "sleep"]

HeartbeatPulse(l) ==
  /\ lane[l].heartbeat = "pulse"
  /\ \E t \in HostTimes :
       LET j == lane[l].job
           owned == Fence(j, lane[l].attempt, t)
       IN /\ Pulse(j, lane[l].attempt, t)
          /\ lane' = [lane EXCEPT ![l] = Beat(Heard(lane[l], owned, owned /\ jobs[j].cancel))]
  /\ UNCHANGED <<worker, faults, finished>>

HeartbeatFails(l) ==
  /\ lane[l].heartbeat = "pulse"
  /\ Fault
  /\ \/ UNCHANGED storeVars
     \/ \E t \in HostTimes : Pulse(lane[l].job, lane[l].attempt, t)
  /\ lane' = [lane EXCEPT ![l] = Beat(Heard(lane[l], FALSE, FALSE))]
  /\ UNCHANGED <<worker, finished>>

(* The attempt's timer fires.                                              *)
Timeout(l) ==
  /\ HasTimeout
  /\ lane[l].pc \in {"validate", "execute", "drain"}
  /\ ~lane[l].aborted
  /\ lane' = [lane EXCEPT ![l].aborted = TRUE]
  /\ UNCHANGED <<storeVars, worker, faults, finished>>

(* executeAttempt, input validation: invalid input, or a signal aborted in *)
(* the meantime, ends the attempt without calling the handler.             *)
Validated(l) ==
  /\ At(l, "validate")
  /\ \/ lane' = [lane EXCEPT ![l].pc = "drain"]
     \/ /\ ~lane[l].aborted
        /\ lane' = [lane EXCEPT ![l].pc = "execute"]
  /\ UNCHANGED <<storeVars, worker, faults, finished>>

(* executeAttempt, the handler returns or throws: its result counts only   *)
(* while the signal is not aborted.                                        *)
HandlerReturns(l, ok) ==
  /\ At(l, "execute")
  /\ ok => ~lane[l].aborted
  /\ lane' = [lane EXCEPT ![l].pc = "drain", ![l].ok = ok]
  /\ finished' = IF ok THEN finished \cup {<<lane[l].job, lane[l].attempt>>} ELSE finished
  /\ UNCHANGED <<storeVars, worker, faults>>

(* The heartbeat is over: what was aborted meanwhile has no result, what   *)
(* cannot be verified is not settled.                                      *)
Drained(l) ==
  /\ At(l, "drain")
  /\ lane[l].heartbeat = "off"
  /\ IF lane[l].lost THEN GoTo(l, "loop")
     ELSE lane' = [lane EXCEPT ![l].pc = "settle", ![l].ok = @ /\ ~lane[l].aborted]
  /\ UNCHANGED <<storeVars, worker, faults, finished>>

SettleReply(l) ==
  /\ At(l, "settle")
  /\ \E t \in HostTimes : Settle(lane[l].job, lane[l].attempt, lane[l].ok, t)
  /\ GoTo(l, "loop")
  /\ UNCHANGED <<worker, faults, finished>>

SettleFails(l) ==
  /\ At(l, "settle")
  /\ Fault
  /\ \/ UNCHANGED storeVars
     \/ \E t \in HostTimes : Settle(lane[l].job, lane[l].attempt, lane[l].ok, t)
  /\ LaneFails(l)
  /\ UNCHANGED finished

(***************************************************************************)
(* Producers and operators call the store directly.                        *)
(***************************************************************************)
Client == (SomeEnqueue \/ SomeCancel \/ SomeRetry) /\ UNCHANGED workerVars

Time == Tick /\ UNCHANGED workerVars

LaneStep(l) == \/ LoopTop(l) \/ FetchReply(l) \/ PollWake(l) \/ FirstPulse(l)
               \/ Validated(l) \/ Drained(l) \/ SettleReply(l)

HandlerStep(l) == HandlerReturns(l, TRUE) \/ HandlerReturns(l, FALSE)

HeartbeatStep(l) == HeartbeatWake(l) \/ HeartbeatPulse(l)

CallFails(l) == \/ FetchFails(l) \/ FirstPulseFails(l)
                \/ HeartbeatFails(l) \/ SettleFails(l)

Next == \/ Client
        \/ Time
        \/ \E w \in Workers : Start(w) \/ Done(w) \/ Crash(w)
        \/ \E w \in Workers, abort \in BOOLEAN : Stop(w, abort)
        \/ \E l \in Lanes : LaneStep(l) \/ HandlerStep(l) \/ HeartbeatStep(l) \/ Timeout(l) \/ CallFails(l)

Spec == Init /\ [][Next]_vars

(* Time passes, hosts keep a worker running, and the database calls and    *)
(* timers that a worker awaits end.  Nothing is assumed of the handlers.   *)
Fairness == /\ WF_vars(Time)
            /\ \A w \in Workers : WF_vars(Start(w)) /\ WF_vars(Done(w))
            /\ \A l \in Lanes : WF_vars(LaneStep(l)) /\ WF_vars(HeartbeatStep(l))

FairSpec == Spec /\ Fairness

(* Every handler returns or throws at last, aborted or not.                *)
HandlersReturn == \A l \in Lanes : WF_vars(HandlerStep(l))

DrainSpec == FairSpec /\ HandlersReturn

-----------------------------------------------------------------------------

(* Type correctness of the workers, their lanes and the attempts they ran. *)
WorkerTypeOK ==
  /\ worker \in [Workers -> [up : BOOLEAN, stopping : BOOLEAN, exhausted : BOOLEAN,
                             abortOnStop : BOOLEAN, attempts : Nat]]
  /\ lane \in [Lanes -> [pc : Pcs, job : Nat, attempt : Nat, aborted : BOOLEAN, lost : BOOLEAN,
                         ok : BOOLEAN, heartbeat : {"off", "sleep", "pulse"}]]
  /\ faults \in Nat
  /\ finished \subseteq JobIds \X Nat

(* A job is reported succeeded only if the handler of its last attempt     *)
(* itself returned a result, unaborted: neither a superseded attempt that  *)
(* finished late, nor a stopped, timed out or failed one is mistaken for   *)
(* it (worker.ts run, index.ts executeAttempt and the fence of d1.ts).     *)
SuccessWasExecuted ==
  \A j \in JobIds : jobs[j].state = "succeeded" => <<j, jobs[j].attempt>> \in finished

(* No two lanes, of one worker or of several, ever hold the same attempt   *)
(* of the same job, whatever was recovered, restarted or retried.          *)
OneLanePerAttempt ==
  \A l, m \in Lanes :
    /\ l # m /\ lane[l].pc \in Holding /\ lane[m].pc \in Holding
    => <<lane[l].job, lane[l].attempt>> # <<lane[m].job, lane[m].attempt>>

(* "An in-flight fetch returning after stop is acknowledged as an aborted  *)
(* attempt without starting business work": a worker told to stop, before  *)
(* or while a fetch or a first pulse is in flight, begins no attempt.      *)
NothingBeginsAfterStop ==
  [][\A l \in Lanes : lane[l].pc # "validate" /\ lane'[l].pc = "validate"
                      => ~Own(l).stopping]_vars

(* Workers use the job table only through the statements of TaskStore, and *)
(* only for claims it handed out, so what TaskStore shows holds here.      *)
UsesStore == StoreSpec

(* Every accepted job reaches a terminal state, through crashes, stops,    *)
(* failed calls, lost claims, clocks that disagree and handlers that never *)
(* return, as long as some lane is left that no handler occupies for ever. *)
JobsFinish ==
  \A j \in JobIds : jobs[j].state \in {"pending", "running"} ~> jobs[j].state \in Terminal

(* A batch ends: it exhausts the queue or its budget, or drains all its    *)
(* lanes after it was told to stop or one of them failed, and settles its  *)
(* `done' promise.                                                         *)
BatchEnds == \A w \in Workers : worker[w].up ~> ~worker[w].up
=============================================================================
