-------------------------- MODULE TaskWorkerProofs --------------------------
(***************************************************************************)
(* Theorems about the workers of TaskWorker.tla, for any number of workers *)
(* and lanes, every option of createTaskWorker, and any number of crashes, *)
(* stops and failed calls.                                                 *)
(*                                                                         *)
(* The argument goes through the claims that lanes hold.  A lane that      *)
(* holds a claim (HoldsClaim) holds one that the table handed out, so all  *)
(* it ever sends are statements of TaskStore, and the invariant of the     *)
(* table (StoreInv) holds.  A claim that is handed out carries a new       *)
(* attempt number, so no other lane holds it; a result travels from the    *)
(* handler to the table in the lane that ran it (ResultIsReal), and the    *)
(* fence lets it in only for the attempt it is the result of.              *)
(***************************************************************************)
EXTENDS TaskWorker, TaskStoreProofs

WorkerRow == [up : BOOLEAN, stopping : BOOLEAN, exhausted : BOOLEAN,
              abortOnStop : BOOLEAN, attempts : Nat]

LaneRow == [pc : Pcs, job : Nat, attempt : Nat, aborted : BOOLEAN, lost : BOOLEAN,
            ok : BOOLEAN, heartbeat : {"off", "sleep", "pulse"}]

(* The places where the heartbeat may be alive.                            *)
Beating == {"validate", "execute", "drain"}

HoldsClaim(r) ==
  r.pc \in Holding => r.job \in JobIds /\ r.attempt \in 1..jobs[r.job].attempt

BeatsInside(r) == r.heartbeat # "off" => r.pc \in Beating

ResultIsReal(r) ==
  r.ok => r.pc \in {"drain", "settle"} /\ <<r.job, r.attempt>> \in finished

LanesOK == \A l \in Lanes : HoldsClaim(lane[l]) /\ BeatsInside(lane[l]) /\ ResultIsReal(lane[l])

(* The inductive invariant of workers and table together.                  *)
WorkerInv == /\ StoreInv
             /\ WorkerTypeOK
             /\ LanesOK
             /\ OneLanePerAttempt
             /\ SuccessWasExecuted

-----------------------------------------------------------------------------
(* What the calls of the store do to attempts and to successes.            *)

(* No call gives an attempt back.                                          *)
LEMMA AttemptsGrow ==
  ASSUME StoreInv, [StoreNext]_storeVars, NEW j \in JobIds
  PROVE  /\ jobs[j].attempt \in Nat /\ jobs'[j].attempt \in Nat
         /\ jobs'[j].attempt >= jobs[j].attempt
  <1>1. StoreInv'
    BY StepOK
  <1>2. jobs[j].attempt \in Nat /\ jobs'[j].attempt \in Nat
    BY <1>1 DEF StoreInv, StoreTypeOK, Row
  <1>3. Moved(jobs[j], jobs'[j])
    BY StepMoves
  <1>. QED BY <1>2, <1>3 DEF Moved

NoNewSuccess ==
  \A j \in JobIds : jobs'[j].state = "succeeded" => jobs[j].state = "succeeded" /\ jobs'[j].attempt = jobs[j].attempt

(* Only a settlement makes a job succeed.                                  *)
LEMMA OnlySettleSucceeds ==
  ASSUME StoreInv,
         \/ Tick \/ SomeFetch \/ SomePulse \/ SomeEnqueue \/ SomeCancel \/ SomeRetry
         \/ UNCHANGED storeVars
  PROVE  NoNewSuccess
  <1>. SUFFICES ASSUME NEW j \in JobIds, jobs'[j].state = "succeeded"
                PROVE  jobs[j].state = "succeeded" /\ jobs'[j].attempt = jobs[j].attempt
    BY DEF NoNewSuccess
  <1>. DEFINE row == jobs[j]
  <1>0. row \in Row /\ jobs \in [JobIds -> Row]
    BY DEF StoreInv, StoreTypeOK
  <1>1. CASE SomeFetch
    <2>1. PICK t \in HostTimes, claims \in SUBSET JobIds : Fetch(t, claims)
      BY <1>1 DEF SomeFetch
    <2>. DEFINE rec == RecoverAll(t)[j]
    <2>2. rec = row \/ rec = Recovered(row, t)
      BY DEF RecoverAll
    <2>3. Recovered(row, t).state # "succeeded"
      BY <1>0 DEF Recovered, Row
    <2>4. jobs'[j] = Claimed(rec, t) \/ jobs'[j] = rec
      BY <2>1 DEF Fetch
    <2>5. jobs'[j] # Claimed(rec, t)
      <3>1. "state" \in DOMAIN rec
        BY <1>0, <2>2 DEF Recovered, Row
      <3>. QED BY <3>1 DEF Claimed
    <2>. QED BY <2>2, <2>3, <2>4, <2>5
  <1>2. CASE SomePulse
    <2>1. \E t \in HostTimes : jobs'[j] = row \/ jobs'[j] = Pulsed(row, t)
      BY <1>0, <1>2 DEF SomePulse, Pulse
    <2>. QED BY <1>0, <2>1 DEF Pulsed, Row
  <1>3. CASE SomeEnqueue
    <2>1. jobs'[j] = row \/ \E key, payload, u : jobs'[j] = NewRow(key, payload, u)
      BY <1>0, <1>3 DEF SomeEnqueue, Enqueue
    <2>. QED BY <2>1 DEF NewRow, NoRow
  <1>4. CASE SomeCancel
    <2>1. jobs'[j] = row \/ jobs'[j] = CancelRow(row)
      BY <1>0, <1>4 DEF SomeCancel, Cancel
    <2>. QED BY <1>0, <2>1 DEF CancelRow, Row
  <1>5. CASE SomeRetry
    <2>1. jobs'[j] = row \/ \E t \in HostTimes : jobs'[j] = RetryRow(row, t)
      BY <1>0, <1>5 DEF SomeRetry, Retry
    <2>. QED BY <1>0, <2>1 DEF RetryRow, Row
  <1>6. CASE Tick \/ UNCHANGED storeVars
    BY <1>6 DEF Tick, storeVars
  <1>. QED BY <1>1, <1>2, <1>3, <1>4, <1>5, <1>6

(* A settlement makes at most its own job succeed, in the attempt it is    *)
(* about, and only with a result.                                          *)
LEMMA SettleSucceeds ==
  ASSUME StoreInv, NEW i \in JobIds, NEW a, NEW ok \in BOOLEAN, NEW t \in HostTimes, Settle(i, a, ok, t),
         NEW j \in JobIds, jobs'[j].state = "succeeded"
  PROVE  /\ jobs'[j].attempt = jobs[j].attempt
         /\ jobs[j].state = "succeeded" \/ (j = i /\ ok /\ jobs[j].attempt = a)
  <1>0. jobs[j] \in Row /\ jobs \in [JobIds -> Row]
    BY DEF StoreInv, StoreTypeOK
  <1>1. jobs'[j] = jobs[j] \/ (j = i /\ Fence(i, a, t) /\ jobs'[j] = Settled(jobs[j], ok, t))
    BY <1>0 DEF Settle
  <1>2. /\ Settled(jobs[j], ok, t).attempt = jobs[j].attempt
        /\ Settled(jobs[j], ok, t).state = "succeeded" => ok
    BY <1>0 DEF Settled, Row
  <1>. QED BY <1>1, <1>2 DEF Fence

(* A fetch hands out a claim with a new attempt number.                    *)
LEMMA ClaimIsNew ==
  ASSUME StoreInv, NEW t \in HostTimes, NEW claims \in SUBSET JobIds, Fetch(t, claims), NEW j \in claims
  PROVE  jobs'[j].attempt = jobs[j].attempt + 1
  <1>0. jobs[j] \in Row
    BY DEF StoreInv, StoreTypeOK
  <1>. DEFINE rec == RecoverAll(t)[j]
  <1>1. rec = jobs[j] \/ rec = Recovered(jobs[j], t)
    BY DEF RecoverAll
  <1>2. rec.attempt = jobs[j].attempt /\ "attempt" \in DOMAIN rec
    <2>1. /\ jobs[j].attempt = jobs[j].attempt /\ "attempt" \in DOMAIN jobs[j]
      BY <1>0 DEF Row
    <2>2. Recovered(jobs[j], t).attempt = jobs[j].attempt
      BY <1>0 DEF Recovered, Row
    <2>3. "attempt" \in DOMAIN Recovered(jobs[j], t)
      BY <1>0 DEF Recovered, Row
    <2>. QED BY <1>1, <2>1, <2>2, <2>3
  <1>3. jobs'[j] = Claimed(rec, t)
    BY DEF Fetch
  <1>. QED BY <1>2, <1>3 DEF Claimed

-----------------------------------------------------------------------------
(* What a step may do to one lane.                                         *)

(* The lane holds nothing afterwards.                                      *)
Drops(new) == new.pc \notin Holding /\ ~new.ok /\ new.heartbeat = "off"

(* The lane goes on with its claim, begins executing only under a worker   *)
(* that has not been told to stop, and has a result only from its handler. *)
Continues(l, old, new) ==
  /\ old.pc \in Holding /\ new.pc \in Holding
  /\ new.job = old.job /\ new.attempt = old.attempt
  /\ new.ok => new.pc \in {"drain", "settle"} /\ <<new.job, new.attempt>> \in finished'
  /\ BeatsInside(new)
  /\ new.pc = "validate" => old.pc = "validate" \/ ~Own(l).stopping

LanesMove == \A l \in Lanes : Drops(lane'[l]) \/ Continues(l, lane[l], lane'[l])

(* A lane that is left alone, or only told to abort, moves as it may.      *)
LEMMA RestMoves ==
  ASSUME WorkerInv, finished \subseteq finished', NEW l \in Lanes,
         \/ lane'[l] = lane[l] \/ lane'[l] = [lane[l] EXCEPT !.aborted = TRUE]
  PROVE  Drops(lane'[l]) \/ Continues(l, lane[l], lane'[l])
  <1>1. lane[l] \in LaneRow /\ BeatsInside(lane[l]) /\ ResultIsReal(lane[l])
    BY DEF WorkerInv, WorkerTypeOK, LaneRow, LanesOK
  <1>2. /\ lane'[l].pc = lane[l].pc /\ lane'[l].job = lane[l].job /\ lane'[l].attempt = lane[l].attempt
        /\ lane'[l].ok = lane[l].ok /\ lane'[l].heartbeat = lane[l].heartbeat
    BY <1>1 DEF LaneRow
  <1>3. CASE lane[l].pc \in Holding
    BY <1>1, <1>2, <1>3 DEF Continues, BeatsInside, ResultIsReal
  <1>4. CASE lane[l].pc \notin Holding
    <2>1. lane[l].pc \notin Beating /\ lane[l].pc \notin {"drain", "settle"}
      BY <1>4 DEF Holding, Beating
    <2>2. ~lane[l].ok /\ lane[l].heartbeat = "off"
      BY <1>1, <2>1 DEF BeatsInside, ResultIsReal
    <2>. QED BY <1>2, <1>4, <2>2 DEF Drops
  <1>. QED BY <1>3, <1>4

(* A step of one lane: the others are left alone.                          *)
LEMMA OneLaneMoves ==
  ASSUME WorkerInv, finished \subseteq finished', NEW l \in Lanes, NEW r \in LaneRow,
         lane' = [lane EXCEPT ![l] = r], Drops(r) \/ Continues(l, lane[l], r)
  PROVE  LanesMove /\ lane' \in [Lanes -> LaneRow]
  <1>0. lane \in [Lanes -> LaneRow]
    BY DEF WorkerInv, WorkerTypeOK, LaneRow
  <1>1. lane'[l] = r /\ \A m \in Lanes \ {l} : lane'[m] = lane[m]
    BY <1>0
  <1>2. \A m \in Lanes \ {l} : Drops(lane'[m]) \/ Continues(m, lane[m], lane'[m])
    BY <1>1, RestMoves
  <1>. QED BY <1>0, <1>1, <1>2 DEF LanesMove

(* Lanes that drop their claims or go on with them keep what the invariant *)
(* says of them.                                                           *)
LEMMA LanesKept ==
  ASSUME WorkerInv, [StoreNext]_storeVars, LanesMove
  PROVE  LanesOK' /\ OneLanePerAttempt'
  <1>1. \A j \in JobIds : /\ jobs[j].attempt \in Nat /\ jobs'[j].attempt \in Nat
                          /\ jobs'[j].attempt >= jobs[j].attempt
    BY AttemptsGrow DEF WorkerInv
  <1>2. ASSUME NEW l \in Lanes PROVE HoldsClaim(lane[l])' /\ BeatsInside(lane[l])' /\ ResultIsReal(lane[l])'
    <2>1. CASE Drops(lane'[l])
      BY <2>1 DEF Drops, HoldsClaim, BeatsInside, ResultIsReal
    <2>2. CASE Continues(l, lane[l], lane'[l])
      <3>1. lane[l].job \in JobIds /\ lane[l].attempt \in 1..jobs[lane[l].job].attempt
        BY <2>2 DEF Continues, WorkerInv, LanesOK, HoldsClaim
      <3>2. lane[l].attempt \in 1..jobs'[lane[l].job].attempt
        BY <1>1, <3>1
      <3>. QED BY <2>2, <3>1, <3>2 DEF Continues, HoldsClaim, BeatsInside, ResultIsReal
    <2>. QED BY <2>1, <2>2 DEF LanesMove
  <1>3. LanesOK'
    BY <1>2 DEF LanesOK
  <1>4. OneLanePerAttempt'
    <2>. SUFFICES ASSUME NEW l \in Lanes, NEW m \in Lanes, l # m,
                         lane'[l].pc \in Holding, lane'[m].pc \in Holding
                  PROVE  <<lane'[l].job, lane'[l].attempt>> # <<lane'[m].job, lane'[m].attempt>>
      BY DEF OneLanePerAttempt
    <2>1. Continues(l, lane[l], lane'[l]) /\ Continues(m, lane[m], lane'[m])
      BY DEF LanesMove, Drops
    <2>2. <<lane[l].job, lane[l].attempt>> # <<lane[m].job, lane[m].attempt>>
      BY <2>1 DEF Continues, WorkerInv, OneLanePerAttempt
    <2>. QED BY <2>1, <2>2 DEF Continues
  <1>. QED BY <1>3, <1>4

(* The transformations of a lane that holds a claim.                       *)
LEMMA RowsOfLanes ==
  ASSUME NEW r \in LaneRow, NEW o \in BOOLEAN, NEW c \in BOOLEAN, NEW s \in BOOLEAN
  PROVE  /\ Heard(r, o, c) \in LaneRow
         /\ \A x \in {"pc", "job", "attempt", "ok", "heartbeat"} : Heard(r, o, c)[x] = r[x]
         /\ Launched(r, s) \in LaneRow
         /\ \A x \in {"job", "attempt", "ok"} : Launched(r, s)[x] = r[x]
         /\ Launched(r, s).pc \in {"drain", "validate"}
         /\ Launched(r, s).pc = "validate" => ~s
         /\ Beat(r) \in LaneRow
         /\ \A x \in {"pc", "job", "attempt", "ok"} : Beat(r)[x] = r[x]
         /\ Beat(r).heartbeat \in {"off", "sleep"}
  <1>1. /\ Heard(r, o, c) \in LaneRow
        /\ \A x \in {"pc", "job", "attempt", "ok", "heartbeat"} : Heard(r, o, c)[x] = r[x]
    BY DEF Heard, LaneRow
  <1>2. Launched(r, s) \in LaneRow
    BY DEF Launched, LaneRow, Pcs
  <1>3. /\ \A x \in {"job", "attempt", "ok"} : Launched(r, s)[x] = r[x]
        /\ Launched(r, s).pc \in {"drain", "validate"}
        /\ Launched(r, s).pc = "validate" => ~s
    BY DEF Launched, LaneRow
  <1>4. Beat(r) \in LaneRow
    BY DEF Beat, LaneRow
  <1>5. /\ \A x \in {"pc", "job", "attempt", "ok"} : Beat(r)[x] = r[x]
        /\ Beat(r).heartbeat \in {"off", "sleep"}
    BY DEF Beat, LaneRow
  <1>. QED BY <1>1, <1>2, <1>3, <1>4, <1>5

(* A lane that returns to its loop, or leaves it.                          *)
LEMMA GoToMoves ==
  ASSUME WorkerInv, finished \subseteq finished', NEW l \in Lanes, NEW pc \in Pcs \ Holding, GoTo(l, pc)
  PROVE  LanesMove /\ lane' \in [Lanes -> LaneRow]
  <1>. DEFINE r == [Idle EXCEPT !.pc = pc]
  <1>1. r \in LaneRow
    BY DEF Idle, LaneRow
  <1>2. Drops(r)
    BY DEF Idle, Drops
  <1>3. lane' = [lane EXCEPT ![l] = r]
    BY DEF GoTo
  <1>. HIDE DEF r
  <1>. QED BY <1>1, <1>2, <1>3, OneLaneMoves

(* Aborting a worker's claims moves no lane.                               *)
LEMMA AbortKeeps ==
  ASSUME NEW w, NEW lanes \in [Lanes -> LaneRow], NEW l \in Lanes
  PROVE  /\ AbortActive(w, lanes) \in [Lanes -> LaneRow]
         /\ \/ AbortActive(w, lanes)[l] = lanes[l]
            \/ AbortActive(w, lanes)[l] = [lanes[l] EXCEPT !.aborted = TRUE]
         /\ lanes[l].pc \notin Holding => AbortActive(w, lanes)[l] = lanes[l]
  <1>1. \A r \in LaneRow : [r EXCEPT !.aborted = TRUE] \in LaneRow
    BY DEF LaneRow
  <1>. QED BY <1>1 DEF AbortActive

(* A lane that fails takes its siblings along, but leaves their claims.    *)
LEMMA FailureMoves ==
  ASSUME WorkerInv, finished \subseteq finished', NEW l \in Lanes, LaneFails(l)
  PROVE  /\ LanesMove /\ lane' \in [Lanes -> LaneRow]
         /\ worker' \in [Workers -> WorkerRow]
  <1>0. /\ lane \in [Lanes -> LaneRow] /\ worker \in [Workers -> WorkerRow]
        /\ WorkerOf[l] \in Workers
    BY WorkerAssumption DEF WorkerInv, WorkerTypeOK, LaneRow, WorkerRow
  <1>. DEFINE r == [Idle EXCEPT !.pc = "done"]
              next == [lane EXCEPT ![l] = r]
  <1>1. r \in LaneRow /\ Drops(r) /\ r.pc \notin Holding
    BY DEF Idle, LaneRow, Drops, Holding, Pcs
  <1>2. /\ next \in [Lanes -> LaneRow] /\ next[l] = r
        /\ \A m \in Lanes \ {l} : next[m] = lane[m]
    BY <1>0, <1>1
  <1>3. lane' = AbortActive(WorkerOf[l], next)
    BY DEF LaneFails
  <1>4. lane' \in [Lanes -> LaneRow] /\ lane'[l] = r
    <2>. HIDE DEF next, r
    <2>1. next \in [Lanes -> LaneRow] /\ next[l].pc \notin Holding
      BY <1>1, <1>2
    <2>2. AbortActive(WorkerOf[l], next) \in [Lanes -> LaneRow]
      BY <2>1, AbortKeeps
    <2>3. AbortActive(WorkerOf[l], next)[l] = next[l]
      BY <2>1 DEF AbortActive
    <2>. QED BY <1>2, <1>3, <2>2, <2>3
  <1>5. \A m \in Lanes \ {l} : lane'[m] = lane[m] \/ lane'[m] = [lane[m] EXCEPT !.aborted = TRUE]
    <2>. SUFFICES ASSUME NEW m \in Lanes \ {l}
                  PROVE  lane'[m] = lane[m] \/ lane'[m] = [lane[m] EXCEPT !.aborted = TRUE]
      OBVIOUS
    <2>. HIDE DEF next
    <2>1. lane'[m] = next[m] \/ lane'[m] = [next[m] EXCEPT !.aborted = TRUE]
      BY <1>2, <1>3, AbortKeeps
    <2>. QED BY <1>2, <2>1
  <1>6. LanesMove
    <2>1. \A m \in Lanes \ {l} : Drops(lane'[m]) \/ Continues(m, lane[m], lane'[m])
      BY <1>5, RestMoves
    <2>. QED BY <1>1, <1>4, <2>1 DEF LanesMove
  <1>7. worker' \in [Workers -> WorkerRow]
    BY <1>0 DEF LaneFails, WorkerRow
  <1>. QED BY <1>4, <1>6, <1>7

(* A worker that starts or ends: all its lanes start afresh.               *)
LEMMA RestartMoves ==
  ASSUME WorkerInv, finished \subseteq finished', NEW w \in Workers, NEW r \in LaneRow, Drops(r),
         lane' = [l \in Lanes |-> IF WorkerOf[l] = w THEN r ELSE lane[l]]
  PROVE  LanesMove /\ lane' \in [Lanes -> LaneRow]
  <1>0. lane \in [Lanes -> LaneRow]
    BY DEF WorkerInv, WorkerTypeOK, LaneRow
  <1>1. \A l \in Lanes : lane'[l] = r \/ lane'[l] = lane[l]
    OBVIOUS
  <1>2. \A l \in Lanes : Drops(lane'[l]) \/ Continues(l, lane[l], lane'[l])
    BY <1>1, RestMoves
  <1>. QED BY <1>0, <1>2 DEF LanesMove

(* What a lane sends for the claim it holds is a call of the store.        *)
LEMMA CallsOfLanes ==
  ASSUME WorkerInv, NEW l \in Lanes, lane[l].pc \in Holding, NEW t \in HostTimes, NEW ok \in BOOLEAN
  PROVE  /\ Pulse(lane[l].job, lane[l].attempt, t) => SomePulse
         /\ Settle(lane[l].job, lane[l].attempt, ok, t) => SomeSettle
  <1>1. lane[l].job \in JobIds /\ lane[l].attempt \in 1..jobs[lane[l].job].attempt
    BY DEF WorkerInv, LanesOK, HoldsClaim
  <1>. QED BY <1>1 DEF SomePulse, SomeSettle

(* Only a settlement needs an argument why success was executed.           *)
LEMMA SuccessKept ==
  ASSUME WorkerInv, NoNewSuccess, finished \subseteq finished'
  PROVE  SuccessWasExecuted'
  BY DEF WorkerInv, SuccessWasExecuted, NoNewSuccess

(* A settlement by the lane that holds the claim: its result is the        *)
(* handler's of this very attempt.                                         *)
LEMMA SettlementKept ==
  ASSUME WorkerInv, NEW l \in Lanes, At(l, "settle"), NEW t \in HostTimes,
         Settle(lane[l].job, lane[l].attempt, lane[l].ok, t), finished' = finished
  PROVE  SuccessWasExecuted'
  <1>1. /\ lane[l].job \in JobIds /\ lane[l].ok \in BOOLEAN
        /\ lane[l].ok => <<lane[l].job, lane[l].attempt>> \in finished
    BY DEF At, Holding, WorkerInv, WorkerTypeOK, LanesOK, HoldsClaim, ResultIsReal
  <1>. SUFFICES ASSUME NEW j \in JobIds, jobs'[j].state = "succeeded"
                PROVE  <<j, jobs'[j].attempt>> \in finished
    BY DEF SuccessWasExecuted
  <1>2. /\ jobs'[j].attempt = jobs[j].attempt
        /\ \/ jobs[j].state = "succeeded"
           \/ j = lane[l].job /\ lane[l].ok /\ jobs[j].attempt = lane[l].attempt
    BY <1>1, SettleSucceeds DEF WorkerInv
  <1>. QED BY <1>1, <1>2 DEF WorkerInv, SuccessWasExecuted

-----------------------------------------------------------------------------
(* The steps.  StepOfLanes says what all steps have in common except the   *)
(* one in which a lane takes a claim.                                      *)

StepOfLanes ==
  /\ [StoreNext]_storeVars
  /\ LanesMove
  /\ worker' \in [Workers -> WorkerRow] /\ lane' \in [Lanes -> LaneRow]
  /\ faults' \in Nat
  /\ finished \subseteq finished' /\ finished' \subseteq JobIds \X Nat
  /\ SuccessWasExecuted'

(* Calls of the store that are quiet: they make no job succeed.            *)
QuietCall == \/ Tick \/ SomeFetch \/ SomePulse \/ SomeEnqueue \/ SomeCancel \/ SomeRetry
             \/ UNCHANGED storeVars

LEMMA QuietStep ==
  ASSUME WorkerInv, QuietCall, finished \subseteq finished'
  PROVE  [StoreNext]_storeVars /\ SuccessWasExecuted'
  <1>1. [StoreNext]_storeVars
    BY DEF QuietCall, StoreNext
  <1>2. NoNewSuccess
    BY OnlySettleSucceeds DEF QuietCall, WorkerInv
  <1>. QED BY <1>1, <1>2, SuccessKept

(* Starting, stopping and ending a worker.                                 *)
LEMMA WorkerSteps ==
  ASSUME WorkerInv, NEW w \in Workers, NEW abort \in BOOLEAN,
         Start(w) \/ Done(w) \/ Crash(w) \/ Stop(w, abort)
  PROVE  StepOfLanes
  <1>0. /\ worker \in [Workers -> WorkerRow] /\ lane \in [Lanes -> LaneRow] /\ faults \in Nat
        /\ finished \subseteq JobIds \X Nat
    BY DEF WorkerInv, WorkerTypeOK, WorkerRow, LaneRow
  <1>1. UNCHANGED storeVars /\ finished' = finished
    BY DEF Start, Done, Crash, Stop
  <1>2. [StoreNext]_storeVars /\ SuccessWasExecuted'
    BY <1>1, QuietStep DEF QuietCall
  <1>3. worker' \in [Workers -> WorkerRow]
    <2>1. Fresh \in WorkerRow /\ [Fresh EXCEPT !.up = TRUE] \in WorkerRow
      BY DEF Fresh, WorkerRow
    <2>2. CASE Start(w) \/ Done(w) \/ Crash(w)
      BY <1>0, <2>1, <2>2 DEF Start, Done, Crash
    <2>3. CASE Stop(w, abort)
      BY <1>0, <2>3 DEF Stop, WorkerRow
    <2>. QED BY <2>2, <2>3
  <1>4. faults' \in Nat
    BY <1>0 DEF Start, Done, Crash, Stop, Fault
  <1>5. LanesMove /\ lane' \in [Lanes -> LaneRow]
    <2>1. Idle \in LaneRow /\ Drops(Idle)
      BY DEF Idle, LaneRow, Drops, Holding, Pcs
    <2>2. [Idle EXCEPT !.pc = "loop"] \in LaneRow /\ Drops([Idle EXCEPT !.pc = "loop"])
      BY DEF Idle, LaneRow, Drops, Holding, Pcs
    <2>3. CASE Start(w)
      BY <1>1, <2>2, <2>3, RestartMoves DEF Start
    <2>4. CASE Done(w) \/ Crash(w)
      BY <1>1, <2>1, <2>4, RestartMoves DEF Done, Crash
    <2>5. CASE Stop(w, abort)
      <3>1. lane' = lane \/ lane' = AbortActive(w, lane)
        BY <2>5 DEF Stop
      <3>2. lane' \in [Lanes -> LaneRow]
        BY <1>0, <3>1, AbortKeeps, SMTT(30) DEF AbortActive
      <3>3. \A l \in Lanes : lane'[l] = lane[l] \/ lane'[l] = [lane[l] EXCEPT !.aborted = TRUE]
        BY <1>0, <3>1, AbortKeeps
      <3>4. LanesMove
        BY <1>1, <3>3, RestMoves DEF LanesMove
      <3>. QED BY <3>2, <3>4
    <2>. QED BY <2>3, <2>4, <2>5
  <1>. QED BY <1>0, <1>1, <1>2, <1>3, <1>4, <1>5 DEF StepOfLanes

(* Nothing but time, or a producer, or an operator.                        *)
LEMMA OutsideSteps ==
  ASSUME WorkerInv, Client \/ Time \/ UNCHANGED vars
  PROVE  StepOfLanes
  <1>1. UNCHANGED workerVars /\ QuietCall
    BY DEF Client, Time, vars, QuietCall
  <1>2. /\ worker' \in [Workers -> WorkerRow] /\ lane' \in [Lanes -> LaneRow] /\ faults' \in Nat
        /\ finished \subseteq finished' /\ finished' \subseteq JobIds \X Nat
    BY <1>1 DEF workerVars, WorkerInv, WorkerTypeOK, WorkerRow, LaneRow
  <1>3. LanesMove
    BY <1>1, <1>2, RestMoves DEF workerVars, LanesMove
  <1>. QED BY <1>1, <1>2, <1>3, QuietStep DEF StepOfLanes

(* The lane's own loop.                                                    *)
LEMMA LoopSteps ==
  ASSUME WorkerInv, NEW l \in Lanes, LoopTop(l) \/ PollWake(l)
  PROVE  StepOfLanes
  <1>0. /\ worker \in [Workers -> WorkerRow] /\ faults \in Nat /\ finished \subseteq JobIds \X Nat
        /\ WorkerOf[l] \in Workers
    BY WorkerAssumption DEF WorkerInv, WorkerTypeOK, WorkerRow
  <1>1. UNCHANGED <<storeVars, faults, finished>>
    BY DEF LoopTop, PollWake
  <1>2. \E pc \in Pcs \ Holding : GoTo(l, pc)
    <2>1. {"done", "fetch", "loop"} \subseteq Pcs \ Holding
      BY DEF Pcs, Holding
    <2>. QED BY <2>1 DEF LoopTop, PollWake
  <1>3. LanesMove /\ lane' \in [Lanes -> LaneRow]
    BY <1>1, <1>2, GoToMoves
  <1>4. worker' \in [Workers -> WorkerRow]
    BY <1>0 DEF LoopTop, PollWake, WorkerRow
  <1>. QED BY <1>0, <1>1, <1>3, <1>4, QuietStep DEF StepOfLanes, QuietCall

(* A fetch that finds nothing.                                             *)
LEMMA EmptyFetch ==
  ASSUME WorkerInv, NEW l \in Lanes, NEW t \in HostTimes, Fetch(t, {}), NothingDue(l),
         UNCHANGED <<faults, finished>>
  PROVE  StepOfLanes
  <1>0. /\ worker \in [Workers -> WorkerRow] /\ faults \in Nat /\ finished \subseteq JobIds \X Nat
        /\ WorkerOf[l] \in Workers
    BY WorkerAssumption DEF WorkerInv, WorkerTypeOK, WorkerRow
  <1>1. QuietCall
    BY DEF QuietCall, SomeFetch
  <1>2. \E pc \in Pcs \ Holding : GoTo(l, pc)
    <2>1. {"loop", "poll"} \subseteq Pcs \ Holding
      BY DEF Pcs, Holding
    <2>. QED BY <2>1 DEF NothingDue
  <1>3. LanesMove /\ lane' \in [Lanes -> LaneRow]
    BY <1>2, GoToMoves
  <1>4. worker' \in [Workers -> WorkerRow]
    BY <1>0 DEF NothingDue, WorkerRow
  <1>. QED BY <1>0, <1>1, <1>3, <1>4, QuietStep DEF StepOfLanes

(* The first pulse and those of the heartbeat, answered or not.            *)
LEMMA PulseSteps ==
  ASSUME WorkerInv, NEW l \in Lanes,
         FirstPulse(l) \/ FirstPulseFails(l) \/ HeartbeatPulse(l) \/ HeartbeatFails(l)
  PROVE  StepOfLanes
  <1>0. /\ worker \in [Workers -> WorkerRow] /\ faults \in Nat /\ finished \subseteq JobIds \X Nat
        /\ WorkerOf[l] \in Workers /\ lane[l] \in LaneRow
        /\ HoldsClaim(lane[l]) /\ BeatsInside(lane[l]) /\ ResultIsReal(lane[l])
    BY WorkerAssumption DEF WorkerInv, WorkerTypeOK, WorkerRow, LaneRow, LanesOK
  <1>1. worker' = worker /\ finished' = finished /\ faults' \in Nat
    <2>1. worker' = worker /\ finished' = finished /\ (faults' = faults \/ Fault)
      BY DEF FirstPulse, FirstPulseFails, HeartbeatPulse, HeartbeatFails
    <2>. QED BY <1>0, <2>1 DEF Fault
  <1>2. /\ Own(l).stopping \in BOOLEAN
        /\ \A j \in JobIds : jobs[j].cancel \in BOOLEAN
    BY <1>0 DEF Own, WorkerRow, WorkerInv, StoreInv, StoreTypeOK, Row
  <1>3. lane[l].pc \in Holding
    <2>1. lane[l].pc = "first" \/ lane[l].heartbeat = "pulse"
      BY DEF FirstPulse, FirstPulseFails, HeartbeatPulse, HeartbeatFails, At
    <2>. QED BY <1>0, <2>1 DEF BeatsInside, Beating, Holding
  <1>4. QuietCall
    <2>1. UNCHANGED storeVars \/ \E t \in HostTimes : Pulse(lane[l].job, lane[l].attempt, t)
      BY DEF FirstPulse, FirstPulseFails, HeartbeatPulse, HeartbeatFails
    <2>. QED BY <1>3, <2>1, CallsOfLanes DEF QuietCall
  <1>5. \E o, c \in BOOLEAN :
          \/ lane[l].pc = "first" /\ lane' = [lane EXCEPT ![l] = Launched(Heard(lane[l], o, c), Own(l).stopping)]
          \/ lane[l].heartbeat = "pulse" /\ lane' = [lane EXCEPT ![l] = Beat(Heard(lane[l], o, c))]
    <2>1. ASSUME NEW t \in HostTimes
          PROVE  LET o == Fence(lane[l].job, lane[l].attempt, t)
                 IN o \in BOOLEAN /\ (o /\ jobs[lane[l].job].cancel) \in BOOLEAN
      BY DEF Fence
    <2>2. CASE FirstPulse(l)
      BY <2>1, <2>2 DEF FirstPulse, At
    <2>3. CASE HeartbeatPulse(l)
      BY <2>1, <2>3 DEF HeartbeatPulse
    <2>4. CASE FirstPulseFails(l) \/ HeartbeatFails(l)
      BY <2>4 DEF FirstPulseFails, HeartbeatFails, At
    <2>. QED BY <2>2, <2>3, <2>4
  <1>6. PICK o \in BOOLEAN, c \in BOOLEAN :
          \/ lane[l].pc = "first" /\ lane' = [lane EXCEPT ![l] = Launched(Heard(lane[l], o, c), Own(l).stopping)]
          \/ lane[l].heartbeat = "pulse" /\ lane' = [lane EXCEPT ![l] = Beat(Heard(lane[l], o, c))]
    BY <1>5
  <1>. DEFINE h == Heard(lane[l], o, c)
              r == Launched(h, Own(l).stopping)
              b == Beat(h)
  <1>7. /\ h \in LaneRow
        /\ h.pc = lane[l].pc /\ h.job = lane[l].job /\ h.attempt = lane[l].attempt
        /\ h.ok = lane[l].ok /\ h.heartbeat = lane[l].heartbeat
    BY <1>0, RowsOfLanes
  <1>8. CASE lane[l].pc = "first" /\ lane' = [lane EXCEPT ![l] = r]
    <2>. HIDE DEF h
    <2>1. /\ r \in LaneRow /\ r.job = h.job /\ r.attempt = h.attempt /\ r.ok = h.ok
          /\ r.pc \in {"drain", "validate"} /\ (r.pc = "validate" => ~Own(l).stopping)
      BY <1>2, <1>7, RowsOfLanes
    <2>2. ~lane[l].ok
      BY <1>0, <1>8 DEF ResultIsReal
    <2>. HIDE DEF r
    <2>3. Continues(l, lane[l], r)
      BY <1>3, <1>7, <2>1, <2>2 DEF Continues, BeatsInside, Beating, Holding
    <2>4. LanesMove /\ lane' \in [Lanes -> LaneRow]
      BY <1>1, <1>8, <2>1, <2>3, OneLaneMoves
    <2>. QED BY <1>0, <1>1, <1>4, <2>4, QuietStep DEF StepOfLanes
  <1>9. CASE lane[l].heartbeat = "pulse" /\ lane' = [lane EXCEPT ![l] = b]
    <2>. HIDE DEF h
    <2>1. /\ b \in LaneRow /\ b.pc = h.pc /\ b.job = h.job /\ b.attempt = h.attempt /\ b.ok = h.ok
      BY <1>7, RowsOfLanes
    <2>2. lane[l].pc \in Beating
      BY <1>0, <1>9 DEF BeatsInside
    <2>. HIDE DEF b
    <2>3. Continues(l, lane[l], b)
      BY <1>0, <1>1, <1>3, <1>7, <2>1, <2>2 DEF Continues, BeatsInside, ResultIsReal
    <2>4. LanesMove /\ lane' \in [Lanes -> LaneRow]
      BY <1>1, <1>9, <2>1, <2>3, OneLaneMoves
    <2>. QED BY <1>0, <1>1, <1>4, <2>4, QuietStep DEF StepOfLanes
  <1>. QED BY <1>6, <1>8, <1>9

(* The attempt itself: the heartbeat's timer, the timeout, the validation, *)
(* the handler, and the end of the heartbeat.                              *)
LEMMA AttemptSteps ==
  ASSUME WorkerInv, NEW l \in Lanes, NEW ok \in BOOLEAN,
         HeartbeatWake(l) \/ Timeout(l) \/ Validated(l) \/ HandlerReturns(l, ok) \/ Drained(l)
  PROVE  StepOfLanes
  <1>0. /\ worker \in [Workers -> WorkerRow] /\ lane \in [Lanes -> LaneRow]
        /\ faults \in Nat /\ finished \subseteq JobIds \X Nat
        /\ lane[l] \in LaneRow
        /\ HoldsClaim(lane[l]) /\ BeatsInside(lane[l]) /\ ResultIsReal(lane[l])
    BY DEF WorkerInv, WorkerTypeOK, WorkerRow, LaneRow, LanesOK
  <1>1. UNCHANGED <<storeVars, worker, faults>>
    BY DEF HeartbeatWake, Timeout, Validated, HandlerReturns, Drained
  <1>2. lane[l].pc \in Holding
    <2>1. lane[l].heartbeat = "sleep" \/ lane[l].pc \in Beating
      BY DEF HeartbeatWake, Timeout, Validated, HandlerReturns, Drained, At, Beating
    <2>. QED BY <1>0, <2>1 DEF BeatsInside, Beating, Holding
  <1>3. /\ lane[l].job \in JobIds /\ lane[l].attempt \in Nat
    BY <1>0, <1>2 DEF HoldsClaim, LaneRow
  <1>4. finished \subseteq finished' /\ finished' \subseteq JobIds \X Nat
    BY <1>0, <1>3 DEF HeartbeatWake, Timeout, Validated, HandlerReturns, Drained
  <1>5. ASSUME NEW r \in LaneRow, lane' = [lane EXCEPT ![l] = r], Drops(r) \/ Continues(l, lane[l], r)
        PROVE  StepOfLanes
    <2>1. LanesMove /\ lane' \in [Lanes -> LaneRow]
      BY <1>4, <1>5, OneLaneMoves
    <2>. QED BY <1>0, <1>1, <1>4, <2>1, QuietStep DEF StepOfLanes, QuietCall
  <1>6. CASE HeartbeatWake(l)
    <2>. DEFINE r == [lane[l] EXCEPT !.heartbeat = IF At(l, "drain") THEN "off" ELSE "pulse"]
    <2>1. /\ r \in LaneRow /\ r.pc = lane[l].pc /\ r.job = lane[l].job /\ r.attempt = lane[l].attempt /\ r.ok = lane[l].ok
      BY <1>0 DEF LaneRow
    <2>2. lane' = [lane EXCEPT ![l] = r] /\ finished' = finished /\ lane[l].heartbeat = "sleep"
      BY <1>0, <1>6 DEF HeartbeatWake
    <2>3. Continues(l, lane[l], r)
      BY <1>0, <1>2, <2>1, <2>2 DEF Continues, BeatsInside, ResultIsReal
    <2>. QED BY <1>5, <2>1, <2>2, <2>3
  <1>7. CASE Timeout(l)
    <2>. DEFINE r == [lane[l] EXCEPT !.aborted = TRUE]
    <2>1. /\ r \in LaneRow /\ r.pc = lane[l].pc /\ r.job = lane[l].job /\ r.attempt = lane[l].attempt /\ r.ok = lane[l].ok
          /\ r.heartbeat = lane[l].heartbeat
      BY <1>0 DEF LaneRow
    <2>2. lane' = [lane EXCEPT ![l] = r] /\ finished' = finished
      BY <1>0, <1>7 DEF Timeout
    <2>3. Continues(l, lane[l], r)
      BY <1>0, <1>2, <2>1, <2>2 DEF Continues, BeatsInside, ResultIsReal
    <2>. QED BY <1>5, <2>1, <2>2, <2>3
  <1>8. CASE Validated(l)
    <2>1. PICK pc \in {"drain", "execute"} : lane' = [lane EXCEPT ![l] = [lane[l] EXCEPT !.pc = pc]]
      BY <1>0, <1>8 DEF Validated
    <2>. DEFINE r == [lane[l] EXCEPT !.pc = pc]
    <2>2. /\ r \in LaneRow /\ r.pc = pc /\ r.job = lane[l].job /\ r.attempt = lane[l].attempt /\ r.ok = lane[l].ok
          /\ r.heartbeat = lane[l].heartbeat
      BY <1>0 DEF LaneRow, Pcs
    <2>3. ~lane[l].ok
      BY <1>0, <1>8 DEF Validated, At, ResultIsReal
    <2>4. Continues(l, lane[l], r)
      BY <1>2, <2>2, <2>3 DEF Continues, BeatsInside, Beating, Holding
    <2>. QED BY <1>5, <2>1, <2>2, <2>4
  <1>9. CASE HandlerReturns(l, ok)
    <2>. DEFINE r == [lane[l] EXCEPT !.pc = "drain", !.ok = ok]
    <2>1. /\ r \in LaneRow /\ r.pc = "drain" /\ r.job = lane[l].job /\ r.attempt = lane[l].attempt /\ r.ok = ok
      BY <1>0 DEF LaneRow, Pcs
    <2>2. lane' = [lane EXCEPT ![l] = r] /\ (ok => <<r.job, r.attempt>> \in finished')
      <3>1. /\ lane' = [lane EXCEPT ![l].pc = "drain", ![l].ok = ok]
            /\ finished' = IF ok THEN finished \cup {<<lane[l].job, lane[l].attempt>>} ELSE finished
        BY <1>9 DEF HandlerReturns
      <3>2. lane' = [lane EXCEPT ![l] = r]
        BY <1>0, <3>1
      <3>3. ok => <<r.job, r.attempt>> \in finished'
        BY <2>1, <3>1
      <3>. QED BY <3>2, <3>3
    <2>3. Continues(l, lane[l], r)
      BY <1>2, <2>1, <2>2 DEF Continues, BeatsInside, Beating, Holding
    <2>. QED BY <1>5, <2>1, <2>2, <2>3
  <1>10. CASE Drained(l)
    <2>0. finished' = finished /\ lane[l].heartbeat = "off" /\ lane[l].pc = "drain"
      BY <1>10 DEF Drained, At
    <2>1. CASE GoTo(l, "loop")
      <3>. DEFINE r == [Idle EXCEPT !.pc = "loop"]
      <3>1. r \in LaneRow /\ Drops(r)
        BY DEF Idle, LaneRow, Drops, Holding, Pcs
      <3>2. lane' = [lane EXCEPT ![l] = r]
        BY <2>1 DEF GoTo
      <3>. HIDE DEF r
      <3>. QED BY <1>5, <3>1, <3>2
    <2>2. CASE lane' = [lane EXCEPT ![l].pc = "settle", ![l].ok = @ /\ ~lane[l].aborted]
      <3>. DEFINE r == [lane[l] EXCEPT !.pc = "settle", !.ok = lane[l].ok /\ ~lane[l].aborted]
      <3>1. lane[l].ok \in BOOLEAN /\ lane[l].aborted \in BOOLEAN
        BY <1>0 DEF LaneRow
      <3>2. /\ r.pc = "settle" /\ r.job = lane[l].job /\ r.attempt = lane[l].attempt /\ r.heartbeat = "off"
            /\ r.ok => lane[l].ok
        BY <1>0, <2>0, <3>1 DEF LaneRow
      <3>3. r \in LaneRow
        BY <1>0, <3>1 DEF LaneRow, Pcs
      <3>4. lane' = [lane EXCEPT ![l] = r]
        BY <1>0, <2>2
      <3>5. Continues(l, lane[l], r)
        BY <1>0, <1>2, <2>0, <3>2 DEF Continues, BeatsInside, ResultIsReal, Holding
      <3>. HIDE DEF r
      <3>. QED BY <1>5, <3>3, <3>4, <3>5
    <2>. QED BY <1>10, <2>1, <2>2 DEF Drained
  <1>. QED BY <1>6, <1>7, <1>8, <1>9, <1>10

(* The end of an attempt, acknowledged or not, and a failing fetch.        *)
LEMMA SettleSteps ==
  ASSUME WorkerInv, NEW l \in Lanes, SettleReply(l) \/ SettleFails(l) \/ FetchFails(l)
  PROVE  StepOfLanes
  <1>0. /\ worker \in [Workers -> WorkerRow] /\ faults \in Nat /\ finished \subseteq JobIds \X Nat
        /\ lane[l].ok \in BOOLEAN
    BY DEF WorkerInv, WorkerTypeOK, WorkerRow, LaneRow
  <1>1. /\ finished' = finished /\ (faults' = faults \/ Fault)
        /\ (worker' = worker /\ GoTo(l, "loop")) \/ LaneFails(l)
    BY DEF SettleReply, SettleFails, FetchFails
  <1>2. faults' \in Nat
    BY <1>0, <1>1 DEF Fault
  <1>3. "loop" \in Pcs \ Holding
    BY DEF Pcs, Holding
  <1>4. LanesMove /\ lane' \in [Lanes -> LaneRow] /\ worker' \in [Workers -> WorkerRow]
    BY <1>0, <1>1, <1>3, GoToMoves, FailureMoves
  <1>5. \/ UNCHANGED storeVars \/ SomeFetch
        \/ At(l, "settle") /\ \E t \in HostTimes : Settle(lane[l].job, lane[l].attempt, lane[l].ok, t)
    BY DEF SettleReply, SettleFails, FetchFails, SomeFetch
  <1>6. CASE UNCHANGED storeVars \/ SomeFetch
    <2>1. QuietCall
      BY <1>6 DEF QuietCall
    <2>. QED BY <1>0, <1>1, <1>2, <1>4, <2>1, QuietStep DEF StepOfLanes
  <1>7. CASE At(l, "settle") /\ \E t \in HostTimes : Settle(lane[l].job, lane[l].attempt, lane[l].ok, t)
    <2>1. PICK t \in HostTimes : Settle(lane[l].job, lane[l].attempt, lane[l].ok, t)
      BY <1>7
    <2>2. SuccessWasExecuted'
      BY <1>1, <1>7, <2>1, SettlementKept
    <2>3. lane[l].pc \in Holding
      BY <1>7 DEF At, Holding
    <2>4. SomeSettle
      BY <1>0, <2>1, <2>3, CallsOfLanes
    <2>. QED BY <1>0, <1>1, <1>2, <1>4, <2>2, <2>4 DEF StepOfLanes, StoreNext
  <1>. QED BY <1>5, <1>6, <1>7

(* The one step in which a lane takes a claim: its attempt is new, so no   *)
(* other lane holds it.                                                    *)
LEMMA ClaimStep ==
  ASSUME WorkerInv, NEW l \in Lanes, NEW t \in HostTimes, NEW claims \in SUBSET JobIds, Fetch(t, claims),
         NEW j \in claims, Begin(l, j), UNCHANGED <<faults, finished>>
  PROVE  WorkerInv' /\ [StoreNext]_storeVars /\ lane'[l].pc = "first" /\ \A m \in Lanes \ {l} : lane'[m] = lane[m]
  <1>0. /\ worker \in [Workers -> WorkerRow] /\ lane \in [Lanes -> LaneRow]
        /\ WorkerOf[l] \in Workers /\ faults \in Nat /\ finished \subseteq JobIds \X Nat
        /\ StoreInv
    BY WorkerAssumption DEF WorkerInv, WorkerTypeOK, WorkerRow, LaneRow
  <1>1. QuietCall
    BY DEF QuietCall, SomeFetch
  <1>2. [StoreNext]_storeVars /\ SuccessWasExecuted'
    BY <1>1, QuietStep
  <1>3. StoreInv'
    BY <1>0, <1>2, StepOK
  <1>4. \A i \in JobIds : /\ jobs[i].attempt \in Nat /\ jobs'[i].attempt \in Nat
                          /\ jobs'[i].attempt >= jobs[i].attempt
    BY <1>0, <1>2, AttemptsGrow
  <1>5. jobs'[j].attempt = jobs[j].attempt + 1 /\ j \in JobIds /\ j \in Nat
    BY <1>0, ClaimIsNew, IdAssumption
  <1>. DEFINE r == [Idle EXCEPT !.pc = "first", !.job = j, !.attempt = jobs'[j].attempt,
                                !.aborted = Own(l).stopping \/ Own(l).abortOnStop]
  <1>6. /\ r.pc = "first" /\ r.job = j /\ r.attempt = jobs'[j].attempt /\ ~r.ok /\ r.heartbeat = "off"
        /\ lane' = [lane EXCEPT ![l] = r] /\ worker' = worker
    BY DEF Begin, Idle
  <1>7. r \in LaneRow
    <2>1. (Own(l).stopping \/ Own(l).abortOnStop) \in BOOLEAN
      OBVIOUS
    <2>. QED BY <1>4, <1>5, <2>1 DEF LaneRow, Idle, Pcs
  <1>. HIDE DEF r
  <1>8. /\ lane' \in [Lanes -> LaneRow] /\ lane'[l] = r
        /\ \A m \in Lanes \ {l} : lane'[m] = lane[m]
    BY <1>0, <1>6, <1>7
  <1>9. WorkerTypeOK'
    BY <1>0, <1>6, <1>8 DEF WorkerTypeOK, WorkerRow, LaneRow
  <1>10. \A m \in Lanes \ {l} : lane[m].pc \in Holding =>
            lane[m].job \in JobIds /\ lane[m].attempt \in 1..jobs[lane[m].job].attempt
    BY DEF WorkerInv, LanesOK, HoldsClaim
  <1>11. LanesOK'
    <2>1. HoldsClaim(lane[l])' /\ BeatsInside(lane[l])' /\ ResultIsReal(lane[l])'
      BY <1>4, <1>5, <1>6, <1>8 DEF HoldsClaim, BeatsInside, ResultIsReal
    <2>2. ASSUME NEW m \in Lanes \ {l} PROVE HoldsClaim(lane[m])' /\ BeatsInside(lane[m])' /\ ResultIsReal(lane[m])'
      <3>1. lane'[m] = lane[m] /\ BeatsInside(lane[m]) /\ ResultIsReal(lane[m])
        BY <1>8 DEF WorkerInv, LanesOK
      <3>2. HoldsClaim(lane[m])'
        BY <1>4, <1>10, <3>1 DEF HoldsClaim
      <3>. QED BY <3>1, <3>2 DEF BeatsInside, ResultIsReal
    <2>. QED BY <2>1, <2>2 DEF LanesOK
  <1>12. OneLanePerAttempt'
    <2>. SUFFICES ASSUME NEW m \in Lanes, NEW n \in Lanes, m # n,
                         lane'[m].pc \in Holding, lane'[n].pc \in Holding
                  PROVE  <<lane'[m].job, lane'[m].attempt>> # <<lane'[n].job, lane'[n].attempt>>
      BY DEF OneLanePerAttempt
    <2>1. ASSUME NEW k \in Lanes \ {l}, lane'[k].pc \in Holding
          PROVE  ~(lane'[k].job = j /\ lane'[k].attempt = jobs'[j].attempt)
      BY <1>4, <1>5, <1>8, <1>10, <2>1
    <2>2. CASE m = l \/ n = l
      BY <1>6, <1>8, <2>1, <2>2
    <2>3. CASE m # l /\ n # l
      BY <1>8, <2>3 DEF WorkerInv, OneLanePerAttempt
    <2>. QED BY <2>2, <2>3
  <1>. QED BY <1>2, <1>3, <1>6, <1>8, <1>9, <1>11, <1>12 DEF WorkerInv

(* Every step is of the one kind or the other.                             *)
ClaimOf(l) == /\ WorkerInv' /\ [StoreNext]_storeVars
              /\ lane'[l].pc = "first" /\ \A m \in Lanes \ {l} : lane'[m] = lane[m]

LEMMA StepKinds ==
  ASSUME WorkerInv, [Next]_vars
  PROVE  StepOfLanes \/ \E l \in Lanes : ClaimOf(l)
  <1>1. CASE Client \/ Time \/ UNCHANGED vars
    BY <1>1, OutsideSteps
  <1>2. ASSUME NEW w \in Workers, Start(w) \/ Done(w) \/ Crash(w) PROVE StepOfLanes
    <2>1. TRUE \in BOOLEAN
      OBVIOUS
    <2>. QED BY <1>2, <2>1, WorkerSteps
  <1>3. ASSUME NEW w \in Workers, NEW abort \in BOOLEAN, Stop(w, abort) PROVE StepOfLanes
    BY <1>3, WorkerSteps
  <1>4. ASSUME NEW l \in Lanes,
               LaneStep(l) \/ HandlerStep(l) \/ HeartbeatStep(l) \/ Timeout(l) \/ CallFails(l)
        PROVE  StepOfLanes \/ ClaimOf(l)
    <2>1. CASE LoopTop(l) \/ PollWake(l)
      BY <2>1, LoopSteps
    <2>2. CASE FetchReply(l)
      <3>1. PICK t \in HostTimes, claims \in SUBSET JobIds :
              Fetch(t, claims) /\ IF claims = {} THEN NothingDue(l) ELSE \E j \in claims : Begin(l, j)
        BY <2>2 DEF FetchReply
      <3>2. UNCHANGED <<faults, finished>>
        BY <2>2 DEF FetchReply
      <3>3. CASE claims = {}
        BY <3>1, <3>2, <3>3, EmptyFetch
      <3>4. CASE claims # {}
        BY <3>1, <3>2, <3>4, ClaimStep DEF ClaimOf
      <3>. QED BY <3>3, <3>4
    <2>3. CASE FirstPulse(l) \/ FirstPulseFails(l) \/ HeartbeatPulse(l) \/ HeartbeatFails(l)
      BY <2>3, PulseSteps
    <2>4. CASE HeartbeatWake(l) \/ Timeout(l) \/ Validated(l) \/ Drained(l) \/ HandlerStep(l)
      <3>1. TRUE \in BOOLEAN /\ FALSE \in BOOLEAN
        OBVIOUS
      <3>. QED BY <2>4, <3>1, AttemptSteps DEF HandlerStep
    <2>5. CASE SettleReply(l) \/ SettleFails(l) \/ FetchFails(l)
      BY <2>5, SettleSteps
    <2>. QED BY <1>4, <2>1, <2>2, <2>3, <2>4, <2>5 DEF LaneStep, HeartbeatStep, CallFails
  <1>. QED BY <1>1, <1>2, <1>3, <1>4 DEF Next

LEMMA WorkerInit == Init => WorkerInv
  <1>. SUFFICES ASSUME Init PROVE WorkerInv
    OBVIOUS
  <1>1. StoreInv
    BY InitOK DEF Init
  <1>2. Idle \in LaneRow /\ Fresh \in WorkerRow /\ Idle.pc = "off" /\ ~Idle.ok /\ Idle.heartbeat = "off"
    BY DEF Idle, Fresh, LaneRow, WorkerRow, Pcs
  <1>3. \A l \in Lanes : lane[l] = Idle
    BY DEF Init
  <1>4. WorkerTypeOK
    BY <1>2 DEF Init, WorkerTypeOK, LaneRow, WorkerRow
  <1>5. LanesOK /\ OneLanePerAttempt
    BY <1>2, <1>3 DEF LanesOK, HoldsClaim, BeatsInside, ResultIsReal, OneLanePerAttempt, Holding
  <1>6. SuccessWasExecuted
    BY DEF Init, StoreInit, SuccessWasExecuted, NoRow
  <1>. QED BY <1>1, <1>4, <1>5, <1>6 DEF WorkerInv

LEMMA WorkerStep == WorkerInv /\ [Next]_vars => WorkerInv'
  <1>. SUFFICES ASSUME WorkerInv, [Next]_vars PROVE WorkerInv'
    OBVIOUS
  <1>1. CASE StepOfLanes
    <2>1. StoreInv'
      BY <1>1, StepOK DEF StepOfLanes, WorkerInv
    <2>2. WorkerTypeOK'
      BY <1>1 DEF StepOfLanes, WorkerTypeOK, WorkerRow, LaneRow
    <2>3. LanesOK' /\ OneLanePerAttempt'
      BY <1>1, LanesKept DEF StepOfLanes
    <2>. QED BY <1>1, <2>1, <2>2, <2>3 DEF StepOfLanes, WorkerInv
  <1>2. CASE \E l \in Lanes : ClaimOf(l)
    BY <1>2 DEF ClaimOf
  <1>. QED BY <1>1, <1>2, StepKinds

-----------------------------------------------------------------------------

(* WorkerInv holds throughout every behaviour of the workers.              *)
THEOREM WorkerInvariant == Spec => []WorkerInv
  BY WorkerInit, WorkerStep, PTL DEF Spec

(* The workers' variables keep their types.                                *)
THEOREM WorkerTyping == Spec => []WorkerTypeOK
  <1>1. WorkerInv => WorkerTypeOK
    BY DEF WorkerInv
  <1>. QED BY <1>1, WorkerInvariant, PTL

(* A job that is reported succeeded was executed, by the attempt that is   *)
(* on its row, to a result that nothing had aborted.                       *)
THEOREM SuccessesWereExecuted == Spec => []SuccessWasExecuted
  <1>1. WorkerInv => SuccessWasExecuted
    BY DEF WorkerInv
  <1>. QED BY <1>1, WorkerInvariant, PTL

(* No attempt is held twice, in one worker or in two.                      *)
THEOREM OneLaneHoldsAnAttempt == Spec => []OneLanePerAttempt
  <1>1. WorkerInv => OneLanePerAttempt
    BY DEF WorkerInv
  <1>. QED BY <1>1, WorkerInvariant, PTL

(* Workers are callers that the table allows: the composition implements   *)
(* the store on its own, so every theorem of TaskStoreProofs holds of it.  *)
THEOREM WorkersUseStore == Spec => UsesStore
  <1>1. Init => StoreInit
    BY DEF Init
  <1>2. WorkerInv /\ [Next]_vars => [StoreNext]_storeVars
    BY StepKinds DEF StepOfLanes, ClaimOf
  <1>. QED BY <1>1, <1>2, WorkerInvariant, PTL DEF Spec, StoreSpec, UsesStore

(* And so the life of a job, as every provider promises it, is what the    *)
(* workers drive: two refinements in a row.                                *)
THEOREM WorkersImplementLifecycle == Spec => ImplementsLifecycle
  BY WorkersUseStore, StoreImplementsLifecycle DEF UsesStore

(* A worker that was told to stop begins no attempt, whatever was in       *)
(* flight.                                                                 *)
THEOREM NoBeginAfterStop == Spec => NothingBeginsAfterStop
  <1>1. ASSUME WorkerInv, [Next]_vars, NEW l \in Lanes,
               lane[l].pc # "validate", lane'[l].pc = "validate"
        PROVE  ~Own(l).stopping
    <2>1. CASE StepOfLanes
      BY <1>1, <2>1 DEF StepOfLanes, LanesMove, Drops, Continues, Holding
    <2>2. CASE \E m \in Lanes : ClaimOf(m)
      BY <1>1, <2>2 DEF ClaimOf
    <2>. QED BY <1>1, <2>1, <2>2, StepKinds
  <1>2. WorkerInv /\ [Next]_vars =>
          [\A l \in Lanes : lane[l].pc # "validate" /\ lane'[l].pc = "validate" => ~Own(l).stopping]_vars
    BY <1>1
  <1>. QED BY <1>2, WorkerInvariant, PTL DEF Spec, NothingBeginsAfterStop
=============================================================================
