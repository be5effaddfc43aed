------------------------------ MODULE Scheduler ------------------------------
(***************************************************************************)
(* Durable schedules (packages/scheduler): a table of schedules with       *)
(* optimistic revisions, an outbox of occurrences, and any number of hosts *)
(* that call tick() concurrently.  A tick first advances the due schedules,*)
(* reserving an occurrence for each, then hands pending occurrences to the *)
(* task queue under a lease.  Editors read a schedule, decide, and write   *)
(* it back, while ticks go on.                                             *)
(*                                                                         *)
(* One action is one call of the store (d1.ts) or of the queue together    *)
(* with the code up to the next await (index.ts).  A process may die, or   *)
(* its tick may be rejected, at any await (Abandon); a call whose reply is *)
(* lost is that call followed by Abandon.                                  *)
(*                                                                         *)
(* The task queue is represented by its deduplication contract: one job    *)
(* per key, which TaskStore.tla shows of the D1 provider.  Cron instants   *)
(* are the multiples of Period.  Abstracted: scope, task input, initiator, *)
(* authorization of the editing calls (a refused call does nothing).       *)
(*                                                                         *)
(* Definitions introduced by `Slip:' are not part of the model: each is a  *)
(* plausible mistake in the definition that follows it, and the mutation   *)
(* runs check that some property notices it.                               *)
(***************************************************************************)
EXTENDS Naturals, Sequences, FiniteSets

CONSTANTS ScheduleIds,     \* ids that create() may draw (ordered like UUIDs)
          Definitions,     \* what create and update may be given: records of
                           \*   kind, at, misfire and graceMs
          RequestKeys,     \* request keys of manual triggers
          Hosts,           \* processes calling tick()
          Editors,         \* processes calling the management operations
          Period,          \* distance of cron instants
          LeaseMs,         \* dispatchLeaseMs
          ScheduleLimit,   \* maxSchedulesPerTick
          DispatchLimit,   \* maxDispatchesPerTick
          Skew,            \* latency and disagreement of host clocks
          Horizon,         \* bound: time ends once nothing waits for it
          MaxEdits,        \* bound: management calls after create
          MaxFaults        \* bound: abandoned ticks and failed queue calls

ASSUME ScheduleAssumption ==
  /\ ScheduleIds \subseteq Nat \ {0}
  /\ IsFiniteSet(Hosts)
  /\ Period \in Nat \ {0} /\ LeaseMs \in Nat \ {0}
  /\ ScheduleLimit \in Nat \ {0} /\ DispatchLimit \in Nat \ {0}
  /\ Skew \in Nat /\ Horizon \in Nat /\ MaxEdits \in Nat /\ MaxFaults \in Nat
  /\ \A d \in Definitions : /\ d.kind \in {"once", "cron"} /\ d.at \in Nat
                            /\ d.misfire \in {"skip", "coalesce"} /\ d.graceMs \in Nat

VARIABLES clock,       \* the clock of the fastest host
          schedules,   \* the table of schedules
          outbox,      \* the table of occurrences, a function of their ids
          queue,       \* queue[key]: the job the task queue holds for key
          hosts,       \* hosts[h]: where the tick of h is, and what it holds
          editors,     \* editors[e]: what e last read, and what it is about to do
          edits, faults,
          epoch,       \* history: how often a schedule was created or updated
          reserved     \* history: timer reservations <<schedule, epoch, instant, revision>>

tables == <<schedules, outbox, queue>>
history == <<epoch, reserved>>
vars == <<clock, tables, hosts, editors, edits, faults, history>>

NULL == 0

NoSchedule == [state |-> "absent", revision |-> 0, nextAt |-> NULL, def |-> NULL]
Resting == [pc |-> "idle", now |-> 0, todo |-> <<>>, entry |-> NULL, token |-> NULL,
            count |-> 0, result |-> "none", jobId |-> NULL]
Away == [pc |-> "idle", id |-> NULL, seen |-> NoSchedule]

Init == /\ clock = Skew + 1
        /\ schedules = [s \in ScheduleIds |-> NoSchedule]
        /\ outbox = [i \in {} |-> NULL]
        /\ queue = [i \in {} |-> NULL]
        /\ hosts = [h \in Hosts |-> Resting]
        /\ editors = [e \in Editors |-> Away]
        /\ edits = 0 /\ faults = 0
        /\ epoch = [s \in ScheduleIds |-> 0]
        /\ reserved = {}

HostTimes == {t \in 0..clock : clock <= t + Skew}

(* What still waits for time: an occurrence some host cannot claim yet, a  *)
(* due instant that a slow host cannot see yet.                            *)
Deadlines ==
  UNION {{outbox[i].leaseUntil, outbox[i].scheduledAt} :
           i \in {k \in DOMAIN outbox : outbox[k].state = "pending"}}
  \cup {schedules[s].nextAt : s \in {r \in ScheduleIds : schedules[r].state = "active"
                                                        /\ schedules[r].nextAt <= Horizon}}

(* Time passes.  After the horizon it only lets what is waiting become     *)
(* due, and no dispatch in progress is outrun by its lease any more.       *)
Tick == /\ \/ clock < Horizon
           \/ /\ \E d \in Deadlines : clock < d + Skew
              /\ \A h \in Hosts : hosts[h].pc \in {"idle", "claim"}
        /\ clock' = clock + 1
        /\ UNCHANGED <<tables, hosts, editors, edits, faults, history>>

With(f, i, v) == [k \in DOMAIN f \cup {i} |-> IF k = i THEN v ELSE f[k]]

(***************************************************************************)
(* rules.ts                                                                *)
(***************************************************************************)

(* Cron is strictly after the instant; once fires at its own instant.      *)
NextTrigger(def, after) ==
  CASE def.kind = "cron" -> (after \div Period + 1) * Period
    [] OTHER -> IF def.at > after THEN def.at ELSE NULL

IsDue(schedule, now) == /\ schedule.state = "active"
                        /\ schedule.nextAt # NULL /\ schedule.nextAt <= now

(* At most one catch-up per schedule, none when a late one is to be        *)
(* skipped; the cursor moves strictly after now.                           *)
PlanDue(schedule, now) ==
  LET misfired == now - schedule.nextAt > schedule.def.graceMs
  IN [scheduledAt |-> IF misfired /\ schedule.def.misfire = "skip" THEN NULL ELSE schedule.nextAt,
      nextAt |-> NextTrigger(schedule.def, now)]

(***************************************************************************)
(* Management operations: load, authorize, check the revision the caller   *)
(* expects, then a conditional write of the whole row.                     *)
(***************************************************************************)

Edit == edits < MaxEdits /\ edits' = edits + 1

(* The first instant of a new or updated definition.                       *)
FirstAt(def, now) == IF def.kind = "once" THEN def.at ELSE NextTrigger(def, now)

(* create(): a new active schedule of revision 1.                          *)
Create(s, def) ==
  /\ schedules[s].state = "absent"
  /\ \E t \in HostTimes :
       schedules' = [schedules EXCEPT ![s] = [state |-> "active", revision |-> 1,
                                              nextAt |-> FirstAt(def, t), def |-> def]]
  /\ epoch' = [epoch EXCEPT ![s] = @ + 1]
  /\ UNCHANGED <<clock, outbox, queue, hosts, editors, edits, faults, reserved>>

(* load(): the row is read, and the caller's expected revision is the      *)
(* one read, or the call ends in `conflict'.                               *)
Load(e, s) ==
  /\ editors[e].pc = "idle"
  /\ schedules[s].state # "absent"
  /\ edits < MaxEdits
  /\ editors' = [editors EXCEPT ![e] = [pc |-> "loaded", id |-> s, seen |-> schedules[s]]]
  /\ UNCHANGED <<clock, tables, hosts, edits, faults, history>>

(* Slip: an unconditional write.                                           *)
CurrentUnchecked(s, seen) == TRUE

(* store.replace: the conditional write.  A lost race is `conflict'.       *)
Current(s, seen) == schedules[s].revision = seen.revision

Replace(e, row, isUpdate) ==
  LET s == editors[e].id
      won == Current(s, editors[e].seen)
  IN /\ Edit
     /\ schedules' = IF won THEN [schedules EXCEPT ![s] = row] ELSE schedules
     /\ epoch' = IF won /\ isUpdate THEN [epoch EXCEPT ![s] = @ + 1] ELSE epoch
     /\ editors' = [editors EXCEPT ![e] = Away]
     /\ UNCHANGED <<clock, outbox, queue, hosts, faults, reserved>>

(* update(): a new definition; restarts the cursor, reactivates a          *)
(* completed schedule, leaves a paused one paused.                         *)
Update(e, def) ==
  /\ editors[e].pc = "loaded"
  /\ LET seen == editors[e].seen
     IN /\ seen.state # "cancelled"
        /\ \E t \in HostTimes :
             Replace(e, [seen EXCEPT !.def = def,
                                     !.revision = @ + 1,
                                     !.state = IF seen.state = "paused" THEN "paused" ELSE "active",
                                     !.nextAt = FirstAt(def, t)], TRUE)

(* change(): pause, resume, cancel.  A completed schedule can only be      *)
(* cancelled, a cancelled one is left alone.                               *)
Change(e, state) ==
  /\ editors[e].pc = "loaded"
  /\ LET seen == editors[e].seen
     IN /\ seen.state # "cancelled"
        /\ seen.state = "completed" => state = "cancelled"
        /\ Replace(e, [seen EXCEPT !.state = state, !.revision = @ + 1], FALSE)

(* trigger(): reserve a manual occurrence, unless the schedule changed or  *)
(* was cancelled since it was read; a repeated request key finds the       *)
(* occurrence that is already there.                                       *)
NewOccurrence(s, at, revision) ==
  [schedule |-> s, scheduledAt |-> at, revision |-> revision, state |-> "pending",
   jobId |-> NULL, leaseToken |-> NULL, leaseUntil |-> NULL]

ManualId(s, key) == <<"manual", s, key>>
TimerId(s, revision, at) == <<"timer", s, revision, at>>

TriggerAllowed(s, seen) == Current(s, seen) /\ schedules[s].state # "cancelled"

Trigger(e, key) ==
  /\ editors[e].pc = "loaded"
  /\ LET s == editors[e].id
         seen == editors[e].seen
         id == ManualId(s, key)
     IN /\ seen.state # "cancelled"
        /\ Edit
        /\ \E t \in HostTimes :
             outbox' = IF TriggerAllowed(s, seen) /\ id \notin DOMAIN outbox
                       THEN With(outbox, id, NewOccurrence(s, t, seen.revision))
                       ELSE outbox
  /\ editors' = [editors EXCEPT ![e] = Away]
  /\ UNCHANGED <<clock, schedules, queue, hosts, faults, history>>

(* The call ends without writing: forbidden, conflict, cancelled, crash.   *)
GiveUp(e) ==
  /\ editors[e].pc = "loaded"
  /\ editors' = [editors EXCEPT ![e] = Away]
  /\ UNCHANGED <<clock, tables, hosts, edits, faults, history>>

(***************************************************************************)
(* tick(), first half: planning.                                           *)
(***************************************************************************)
At(h, pc) == hosts[h].pc = pc

(* Slip: an instant is due only at that very moment.                       *)
DueIdsExact(now) == {s \in ScheduleIds : schedules[s].state = "active" /\ schedules[s].nextAt = now}

DueIds(now) == {s \in ScheduleIds : IsDue(schedules[s], now)}

(* The order of `ORDER BY next_at, id'.                                    *)
Earlier(s, r) == \/ schedules[s].nextAt < schedules[r].nextAt
                 \/ schedules[s].nextAt = schedules[r].nextAt /\ s < r

DueRows(now) ==
  LET rank(s) == Cardinality({r \in DueIds(now) : Earlier(r, s)}) + 1
      n == Cardinality(DueIds(now))
      nth(i) == CHOOSE s \in DueIds(now) : rank(s) = i
  IN [i \in 1..(IF n < ScheduleLimit THEN n ELSE ScheduleLimit) |->
        [id |-> nth(i), seen |-> schedules[nth(i)]]]

(* now is read once per tick, before the due schedules are.                *)
ReadDue(h) ==
  /\ At(h, "idle")
  /\ \E now \in HostTimes :
       hosts' = [hosts EXCEPT ![h] = IF DueIds(now) = {} THEN [Resting EXCEPT !.pc = "claim"]
                                     ELSE [Resting EXCEPT !.pc = "advance", !.now = now,
                                                          !.todo = DueRows(now)]]
  /\ UNCHANGED <<clock, tables, editors, edits, faults, history>>

(* store.advance: move the cursor of a schedule that is still as it was    *)
(* read, and insert the occurrence in the same batch, only if it moved.    *)
Advanceable(s, seen) == /\ Current(s, seen)
                        /\ schedules[s].state = "active"
                        /\ schedules[s].nextAt = seen.nextAt

Advance(h) ==
  /\ At(h, "advance")
  /\ LET item == Head(hosts[h].todo)
         s == item.id
         seen == item.seen
         plan == PlanDue(seen, hosts[h].now)
         won == Advanceable(s, seen)
         rest == Tail(hosts[h].todo)
     IN /\ schedules' = IF won
                        THEN [schedules EXCEPT ![s] =
                                [@ EXCEPT !.revision = seen.revision + 1, !.nextAt = plan.nextAt,
                                          !.state = IF plan.nextAt = NULL THEN "completed" ELSE seen.state]]
                        ELSE schedules
        /\ outbox' = IF won /\ plan.scheduledAt # NULL
                     THEN With(outbox, TimerId(s, seen.revision, plan.scheduledAt),
                               NewOccurrence(s, plan.scheduledAt, seen.revision))
                     ELSE outbox
        /\ reserved' = IF won /\ plan.scheduledAt # NULL
                       THEN reserved \cup {<<s, epoch[s], plan.scheduledAt, seen.revision>>}
                       ELSE reserved
        /\ hosts' = [hosts EXCEPT ![h] = IF rest = <<>> THEN [Resting EXCEPT !.pc = "claim"]
                                          ELSE [@ EXCEPT !.todo = rest]]
  /\ UNCHANGED <<clock, queue, editors, edits, faults, epoch>>

(* Slip: an expired lease is not taken over.                               *)
ClaimableUnleased(o, now) == o.state = "pending" /\ o.scheduledAt <= now /\ o.leaseUntil = NULL

(***************************************************************************)
(* tick(), second half: dispatch.                                          *)
(***************************************************************************)
Claimable(o, now) == /\ o.state = "pending" /\ o.scheduledAt <= now
                     /\ o.leaseUntil = NULL \/ o.leaseUntil <= now

(* A fresh UUID: any number that neither the table nor a host holds.       *)
FreshToken == CHOOSE n \in 1..(Cardinality(DOMAIN outbox) + Cardinality(Hosts) + 1) :
                /\ \A i \in DOMAIN outbox : outbox[i].leaseToken # n
                /\ \A h \in Hosts : hosts[h].token # n

(* store.claim: lease the earliest claimable occurrence (ties are broken   *)
(* by a hash).  The tick ends when there is none or its limit is reached.  *)
Claim(h) ==
  /\ At(h, "claim")
  /\ \E now \in HostTimes :
       LET claimable == {i \in DOMAIN outbox : Claimable(outbox[i], now)}
       IN IF claimable = {} \/ hosts[h].count >= DispatchLimit
          THEN hosts' = [hosts EXCEPT ![h] = Resting] /\ UNCHANGED outbox
          ELSE \E i \in claimable :
                 /\ \A k \in claimable : outbox[i].scheduledAt <= outbox[k].scheduledAt
                 /\ outbox' = [outbox EXCEPT ![i].leaseToken = FreshToken,
                                             ![i].leaseUntil = now + LeaseMs]
                 /\ hosts' = [hosts EXCEPT ![h] = [hosts[h] EXCEPT !.pc = "lookup", !.entry = i,
                                                            !.token = FreshToken, !.count = @ + 1]]
  /\ UNCHANGED <<clock, schedules, queue, editors, edits, faults, history>>

ToSettle(h, result, job) ==
  hosts' = [hosts EXCEPT ![h].pc = "settle", ![h].result = result, ![h].jobId = job]
ToPc(h, pc) == hosts' = [hosts EXCEPT ![h].pc = pc]

Quiet == UNCHANGED <<clock, tables, editors, edits, history>>

(* lookupDeduplicationKey: an occurrence the queue already accepted is     *)
(* only acknowledged; a failed lookup leaves it for a later tick.          *)
Lookup(h) ==
  /\ At(h, "lookup")
  /\ IF hosts[h].entry \in DOMAIN queue THEN ToSettle(h, "enqueued", queue[hosts[h].entry])
     ELSE ToPc(h, "authorize")
  /\ UNCHANGED faults
  /\ Quiet

Fault == faults < MaxFaults /\ faults' = faults + 1

(* Slip: an unanswered call counts as accepted.                            *)
QueueFailsAccepted(h) ==
  /\ hosts[h].pc \in {"lookup", "authorize", "enqueue"}
  /\ Fault
  /\ ToSettle(h, "enqueued", Cardinality(DOMAIN queue) + 1)
  /\ Quiet

QueueFails(h) ==
  /\ hosts[h].pc \in {"lookup", "authorize", "enqueue"}
  /\ Fault
  /\ ToSettle(h, "dispatch-failed", NULL)
  /\ Quiet

(* authorizeExecution: permission is asked again for every dispatch.       *)
Authorize(h) ==
  /\ At(h, "authorize")
  /\ ToPc(h, "renew") \/ ToSettle(h, "execution-denied", NULL)
  /\ UNCHANGED faults
  /\ Quiet

(* store.renew: only a host whose lease is still live goes on to enqueue.  *)
LeaseLive(h, now) == LET o == outbox[hosts[h].entry]
                     IN o.state = "pending" /\ o.leaseToken = hosts[h].token /\ o.leaseUntil > now

Renew(h) ==
  /\ At(h, "renew")
  /\ \E now \in HostTimes :
       IF LeaseLive(h, now)
       THEN /\ outbox' = [outbox EXCEPT ![hosts[h].entry].leaseUntil = now + LeaseMs]
            /\ ToPc(h, "enqueue")
       ELSE /\ hosts' = [hosts EXCEPT ![h].pc = "claim", ![h].entry = NULL, ![h].token = NULL]
            /\ UNCHANGED outbox
  /\ UNCHANGED <<clock, schedules, queue, editors, edits, faults, history>>

(* queue.enqueue under the occurrence's key: the queue's one job for it.   *)
NewJob == Cardinality(DOMAIN queue) + 1

Enqueue(h) ==
  /\ At(h, "enqueue")
  /\ LET key == hosts[h].entry
         job == IF key \in DOMAIN queue THEN queue[key] ELSE NewJob
     IN queue' = With(queue, key, job) /\ ToSettle(h, "enqueued", job)
  /\ UNCHANGED <<clock, schedules, outbox, editors, edits, faults, history>>

(* The queue accepted the job but its answer was lost.                     *)
EnqueueUnanswered(h) ==
  /\ At(h, "enqueue")
  /\ Fault
  /\ queue' = IF hosts[h].entry \in DOMAIN queue THEN queue ELSE With(queue, hosts[h].entry, NewJob)
  /\ ToSettle(h, "dispatch-failed", NULL)
  /\ UNCHANGED <<clock, schedules, outbox, editors, edits, history>>

(* The task is not registered on this host, or the queue refuses its input *)
(* for good.                                                               *)
EnqueueRefused(h) ==
  /\ At(h, "enqueue")
  /\ ToSettle(h, "dispatch-invalid", NULL)
  /\ UNCHANGED faults
  /\ Quiet

(* store.settle: enqueued, still pending (its lease keeps running), or     *)
(* blocked, only for the holder of the current token.                      *)
Outcome(o, result, job) ==
  CASE result = "enqueued" ->
         [o EXCEPT !.state = "enqueued", !.jobId = job, !.leaseToken = NULL, !.leaseUntil = NULL]
    [] result = "dispatch-failed" -> [o EXCEPT !.leaseToken = NULL]
    [] OTHER -> [o EXCEPT !.state = "blocked", !.leaseToken = NULL, !.leaseUntil = NULL]

(* Slip: an acknowledgement by id alone.                                   *)
HoldsUnchecked(h) == TRUE

Holds(h) == LET o == outbox[hosts[h].entry]
            IN o.leaseToken = hosts[h].token /\ o.state = "pending"

Settle(h) ==
  /\ At(h, "settle")
  /\ outbox' = IF Holds(h)
               THEN [outbox EXCEPT ![hosts[h].entry] = Outcome(@, hosts[h].result, hosts[h].jobId)]
               ELSE outbox
  /\ hosts' = [hosts EXCEPT ![h].pc = "claim", ![h].entry = NULL, ![h].token = NULL,
                               ![h].result = "none", ![h].jobId = NULL]
  /\ UNCHANGED <<clock, schedules, queue, editors, edits, faults, history>>

(* The acknowledgement of an accepted job fails, with or without effect:   *)
(* it is awaited inside the try, so the catch settles dispatch-failed.     *)
SettleFails(h) ==
  /\ At(h, "settle")
  /\ hosts[h].result = "enqueued"
  /\ Fault
  /\ \/ UNCHANGED outbox
     \/ /\ Holds(h)
        /\ outbox' = [outbox EXCEPT ![hosts[h].entry] = Outcome(@, "enqueued", hosts[h].jobId)]
  /\ ToSettle(h, "dispatch-failed", NULL)
  /\ UNCHANGED <<clock, schedules, queue, editors, edits, history>>

(* A store call rejects and the tick with it, or the process dies.         *)
Abandon(h) ==
  /\ ~At(h, "idle")
  /\ Fault
  /\ hosts' = [hosts EXCEPT ![h] = Resting]
  /\ Quiet

HostStep(h) == \/ ReadDue(h) \/ Advance(h) \/ Claim(h) \/ Lookup(h) \/ Authorize(h)
               \/ Renew(h) \/ Enqueue(h) \/ EnqueueRefused(h) \/ Settle(h)

HostFails(h) == QueueFails(h) \/ EnqueueUnanswered(h) \/ SettleFails(h) \/ Abandon(h)

EditorStep(e) == \/ \E s \in ScheduleIds : Load(e, s)
                 \/ \E def \in Definitions : Update(e, def)
                 \/ \E state \in {"paused", "active", "cancelled"} : Change(e, state)
                 \/ \E key \in RequestKeys : Trigger(e, key)
                 \/ GiveUp(e)

Next == \/ Tick
        \/ \E s \in ScheduleIds, def \in Definitions : Create(s, def)
        \/ \E e \in Editors : EditorStep(e)
        \/ \E h \in Hosts : HostStep(h) \/ HostFails(h)

Spec == Init /\ [][Next]_vars

(* Time passes and some host keeps ticking; its calls end.                 *)
FairSpec == Spec /\ WF_vars(Tick) /\ \A h \in Hosts : WF_vars(HostStep(h))

-----------------------------------------------------------------------------

Occurrences == [schedule : ScheduleIds, scheduledAt : Nat, revision : Nat,
                state : {"pending", "enqueued", "blocked"},
                jobId : Nat, leaseToken : Nat, leaseUntil : Nat]

(* Type correctness; the queue holds jobs only for reserved occurrences.   *)
TypeOK ==
  /\ clock \in Nat /\ edits \in Nat /\ faults \in Nat
  /\ \A s \in ScheduleIds :
       /\ schedules[s].state \in {"absent", "active", "paused", "cancelled", "completed"}
       /\ schedules[s].revision \in Nat /\ schedules[s].nextAt \in Nat
  /\ \A i \in DOMAIN outbox : outbox[i] \in Occurrences
  /\ DOMAIN queue \subseteq DOMAIN outbox
  /\ \A h \in Hosts : hosts[h].pc \in {"idle", "advance", "claim", "lookup", "authorize",
                                       "renew", "enqueue", "settle"}

(* No instant of a definition is reserved twice: not by two hosts that     *)
(* read it as due together, not by a host with an old snapshot, not after  *)
(* an edit that raced with the advance of the cursor (advance's and        *)
(* replace's conditional writes).                                          *)
InstantOnce ==
  \A x, y \in reserved : x[1] = y[1] /\ x[2] = y[2] /\ x[3] = y[3] => x = y

(* "enqueued means confirmed queue acceptance": the job that an enqueued   *)
(* occurrence names is the one the queue holds under its key, and an       *)
(* occurrence has a job id in no other state.                              *)
AcceptanceIsConfirmed ==
  \A i \in DOMAIN outbox :
    /\ outbox[i].state = "enqueued" => i \in DOMAIN queue /\ queue[i] = outbox[i].jobId
    /\ outbox[i].state # "enqueued" => outbox[i].jobId = NULL

(* Commit is the dispatch boundary: an occurrence is never withdrawn or    *)
(* changed, and once it is enqueued or blocked no late host reopens or     *)
(* relinks it.                                                             *)
OccurrencesAreKept ==
  [][\A i \in DOMAIN outbox :
       /\ i \in DOMAIN outbox'
       /\ outbox'[i].scheduledAt = outbox[i].scheduledAt
       /\ outbox[i].state # "pending" => outbox'[i] = outbox[i]]_vars

(* Every reserved occurrence is handed over or blocked at last, through    *)
(* lost answers, dead hosts and failing queue calls, even after its        *)
(* schedule was paused or cancelled (reservations end at the horizon).     *)
OccurrencesAreDispatched ==
  []<>(\A i \in DOMAIN outbox : outbox[i].state # "pending")

(* An instant that has come is dealt with: the cursor of an active         *)
(* schedule does not stay behind the clock.                                *)
DueIsPlanned ==
  []<>(\A s \in ScheduleIds : ~IsDue(schedules[s], clock))
=============================================================================
