------------------------------ MODULE Webhooks ------------------------------
(***************************************************************************)
(* Outbound webhooks (packages/webhooks): deliveries and attempts in the   *)
(* repository, execute() on the workers of a task queue under a            *)
(* concurrency lease of @lenso/limits, recover(), replay() and prune().    *)
(*                                                                         *)
(* A repository call is a transaction and one step.  An execution's `pc'   *)
(* is the await it stands at.  The task queue is its contract: a           *)
(* deduplication key (delivery and generation) names one job, which is     *)
(* executed at most once, since the task has one attempt.                  *)
(*                                                                         *)
(* Abstracted: scopes, payloads, signatures, audit records, the recipient  *)
(* (its endpoint and subscription are enabled or not) and the codes of an  *)
(* attempt, which are success, retryable or permanent.  A retry is due at  *)
(* once or later, as backoff and Retry-After say.                          *)
(*                                                                         *)
(* Definitions introduced by `Slip:' are not part of the model: each is a  *)
(* plausible mistake in the definition that follows it, and the mutation   *)
(* runs check that some property notices it.                               *)
(***************************************************************************)
EXTENDS LimitState, Sequences

CONSTANTS Deliveries,   \* delivery ids
          Execs,        \* slots of the workers
          Concurrency,  \* config.concurrency
          MaxAttempts,  \* config.maxAttempts
          TimeoutMs,    \* config.outbound.timeoutMs
          Slack,        \* leaseMs is this much longer: 10 s
          Margin,       \* a request ends this long before its lease: 1 s
          Skew,         \* disagreement of host clocks
          Delays,       \* what retryDelay returns
          MaxGen,       \* bound: generations of a delivery
          MaxFaults     \* bound: failed or unanswered calls, deaths, edits

ASSUME WebhookAssumption ==
  /\ Concurrency \in Nat /\ MaxAttempts \in Nat \ {0} /\ TimeoutMs \in Nat \ {0}
  /\ Slack \in Nat \ {0} /\ Margin \in Nat /\ Skew \in 0..Margin
  /\ Delays \subseteq Nat /\ MaxGen \in Nat /\ MaxFaults \in Nat

VARIABLES clock,
          rows,      \* rows[d]: the delivery
          attempts,  \* attempts[d]: which generation began and ended each attempt, and how
          active,    \* endpoint and subscription are enabled
          queue,     \* queue[d][g]: the job of a deduplication key
          handoff,   \* enqueue calls under way, as <<delivery, generation>>
          execs,     \* execs[x]: an execution
          limit,     \* lease state of the concurrency scope
          rescue,    \* rescue[d]: what recover() still does about d
          faults

repository == <<rows, attempts>>
vars == <<clock, repository, active, queue, handoff, execs, limit, rescue, faults>>

NULL == 0
LeaseMs == TimeoutMs + Slack
Ended == {"succeeded", "failed"}
Waiting == {"pending", "retry"}

NoRow == [state |-> "none", count |-> 0, due |-> NULL, gen |-> 0, token |-> << >>,
          until |-> NULL, replayOf |-> NULL]
Idle == [pc |-> "idle", d |-> NULL, gen |-> 0, until |-> NULL, code |-> "open"]
Quiet == [step |-> "none", gen |-> 0]

Init == /\ clock = Skew + 1
        /\ rows = [d \in Deliveries |-> NoRow]
        /\ attempts = [d \in Deliveries |-> << >>]
        /\ active = TRUE
        /\ queue = [d \in Deliveries |-> [g \in 1..MaxGen |-> "none"]]
        /\ handoff = {}
        /\ execs = [x \in Execs |-> Idle]
        /\ limit = NoLeases
        /\ rescue = [d \in Deliveries |-> Quiet]
        /\ faults = 0

HostTimes == {t \in 0..clock : clock <= t + Skew}
Faulty == faults < MaxFaults /\ faults' = faults + 1

(* Time passes while something waits for it; no request outlives its       *)
(* deadline.                                                               *)
Tick == /\ \A x \in Execs : execs[x].pc = "send" => clock < execs[x].until
        /\ \/ \E d \in Deliveries : rows[d].due > clock - Skew \/ rows[d].until > clock - Skew
           \/ \E l \in limit.leases : l.expiresAt > clock
        /\ clock' = clock + 1
        /\ UNCHANGED <<repository, active, queue, handoff, execs, limit, rescue, faults>>

-----------------------------------------------------------------------------
(***************************************************************************)
(* Callers.                                                                *)
(***************************************************************************)
NewDelivery(d, origin, t) ==
  /\ rows[d].state = "none"
  /\ rows' = [rows EXCEPT ![d] = [NoRow EXCEPT !.state = "pending", !.due = t, !.gen = 1,
                                               !.replayOf = origin]]
  /\ handoff' = handoff \cup {<<d, 1>>}
  /\ UNCHANGED <<clock, attempts, active, queue, execs, limit, rescue, faults>>

(* publish(), for one matching subscription.                               *)
Publish(d) == active /\ \E t \in HostTimes : NewDelivery(d, NULL, t)

(* replay(): a new delivery of the same event, of a settled one only.      *)
Replay(d, original) ==
  /\ rows[original].state \in Ended /\ active
  /\ \E t \in HostTimes : NewDelivery(d, original, t)

(* putEndpoint(), putSubscription().                                       *)
PutEndpoint == /\ Faulty
               /\ active' = ~active
               /\ UNCHANGED <<clock, repository, queue, handoff, execs, limit, rescue>>

(* prune(): the parent of a replay stays.                                  *)
Prune(d) == /\ rows[d].state \in Ended
            /\ \A c \in Deliveries : rows[c].replayOf # d
            /\ rows' = [rows EXCEPT ![d] = [NoRow EXCEPT !.state = "pruned"]]
            /\ attempts' = [attempts EXCEPT ![d] = << >>]
            /\ UNCHANGED <<clock, active, queue, handoff, execs, limit, rescue, faults>>

(* schedule(): enqueue under the key of the generation, or fail.           *)
Schedule(p) == /\ p \in handoff
               /\ handoff' = handoff \ {p}
               /\ queue' = IF queue[p[1]][p[2]] = "none"
                           THEN [queue EXCEPT ![p[1]][p[2]] = "pending"] ELSE queue
               /\ UNCHANGED <<clock, repository, active, execs, limit, rescue, faults>>

ScheduleFails(p) == /\ p \in handoff /\ Faulty
                    /\ handoff' = handoff \ {p}
                    /\ UNCHANGED <<clock, repository, active, queue, execs, limit, rescue>>

-----------------------------------------------------------------------------
(***************************************************************************)
(* execute()                                                               *)
(***************************************************************************)
At(x, pc) == execs[x].pc = pc
Token(x) == <<execs[x].d, execs[x].gen>>   \* unique: a job is executed once
Goes(x, pc) == execs' = [execs EXCEPT ![x].pc = pc]

(* A worker takes a job that is due.                                       *)
Start(x, d, g) ==
  /\ At(x, "idle") /\ queue[d][g] = "pending"
  /\ rows[d].gen = g => rows[d].due <= clock
  /\ queue' = [queue EXCEPT ![d][g] = "running"]
  /\ execs' = [execs EXCEPT ![x] = [Idle EXCEPT !.pc = "acquire", !.d = d, !.gen = g]]
  /\ UNCHANGED <<clock, repository, active, handoff, limit, rescue, faults>>

Ends(x) == /\ execs' = [execs EXCEPT ![x] = Idle]
           /\ queue' = [queue EXCEPT ![execs[x].d][execs[x].gen] = "ended"]

(* limits.acquire: without a lease nothing is dispatched.                  *)
Acquire(x) ==
  /\ At(x, "acquire")
  /\ LET live == LiveState(limit, clock)
     IN IF Admits(live, Concurrency, 1)
        THEN /\ limit' = AcquireState(live, Token(x), 1, LeaseMs)
             /\ Goes(x, "claim") /\ UNCHANGED queue
        ELSE limit' = live /\ Ends(x)
  /\ UNCHANGED <<clock, repository, active, handoff, rescue, faults>>

Claimable(d, g, t) == rows[d].gen = g /\ rows[d].state \in Waiting /\ rows[d].due <= t

(* repository.claim: take the delivery, or end one that is disabled or     *)
(* exhausted; a call that is not answered has its effect all the same.     *)
Claim(x) ==
  /\ At(x, "claim")
  /\ LET d == execs[x].d
     IN \E t \in HostTimes :
          CASE ~Claimable(d, execs[x].gen, t) ->
                 Goes(x, "release") /\ UNCHANGED <<repository, faults>>
            [] Claimable(d, execs[x].gen, t) /\ ~(active /\ rows[d].count < MaxAttempts) ->
                 /\ rows' = [rows EXCEPT ![d].state = "failed"]
                 /\ Goes(x, "release") /\ UNCHANGED <<attempts, faults>>
            [] OTHER ->
                 /\ rows' = [rows EXCEPT ![d].state = "running", ![d].token = Token(x),
                                         ![d].count = @ + 1, ![d].until = t + LeaseMs]
                 /\ attempts' = [attempts EXCEPT ![d] = Append(@, [by |-> execs[x].gen, ended |-> 0, code |-> "open"])]
                 /\ \/ /\ execs' = [execs EXCEPT ![x].pc = "renew", ![x].until = t + LeaseMs]
                       /\ UNCHANGED faults
                    \/ Goes(x, "release") /\ Faulty
  /\ UNCHANGED <<clock, active, queue, handoff, limit, rescue>>

Least(a, b) == IF a < b THEN a ELSE b

(* Slip: the request has its full time, whatever the claim waited for.     *)
DeadlineFresh(lease, expires, t) == clock + TimeoutMs

(* When the request is aborted: before both leases end.                    *)
Deadline(lease, expires, t) == clock + Least(TimeoutMs, Least(lease, expires) - t - Margin)

(* Slip: the answer of limits.renew is not looked at.                      *)
RenewUnchecked(x) ==
  /\ At(x, "renew")
  /\ limit' = RenewState(LiveState(limit, clock), Token(x), LeaseMs)
  /\ \E t \in HostTimes :
       LET until == Deadline(execs[x].until, clock + LeaseMs, t)
       IN execs' = [execs EXCEPT ![x].pc = IF until > clock THEN "send" ELSE "release",
                                 ![x].until = until]
  /\ UNCHANGED <<clock, repository, active, queue, handoff, rescue, faults>>

(* limits.renew, then transport.send unless too little time remains.       *)
Renew(x) ==
  /\ At(x, "renew")
  /\ LET live == LiveState(limit, clock)
         renewed == RenewState(live, Token(x), LeaseMs)
         expires == live.lastNow + LeaseMs
     IN IF Holding(live, Token(x)) = {} THEN limit' = live /\ Goes(x, "release")
        ELSE /\ limit' = renewed
             /\ \E t \in HostTimes :
                  LET until == Deadline(execs[x].until, expires, t)
                  IN execs' = [execs EXCEPT ![x].pc = IF until > clock THEN "send" ELSE "release",
                                            ![x].until = until]
  /\ UNCHANGED <<clock, repository, active, queue, handoff, rescue, faults>>

(* The request ends with an answer, an error or the deadline.              *)
Sent(x) == /\ At(x, "send")
           /\ \E c \in IF clock < execs[x].until THEN {"success", "retryable", "permanent"}
                       ELSE {"retryable"} :
                execs' = [execs EXCEPT ![x].pc = "finish", ![x].code = c, ![x].until = NULL]
           /\ UNCHANGED <<clock, repository, active, queue, handoff, limit, rescue, faults>>

(* Slip: the fence is the state alone.                                     *)
OwnsRunning(x, t) == rows[execs[x].d].state = "running"

Owns(x, t) == /\ rows[execs[x].d].state = "running"
              /\ rows[execs[x].d].token = Token(x) /\ rows[execs[x].d].until > t

(* repository.finish: fenced by the lease; a retry is a new generation.    *)
Finish(x) ==
  /\ At(x, "finish")
  /\ LET d == execs[x].d
         retry == execs[x].code = "retryable" /\ rows[d].count < MaxAttempts
         state == CASE execs[x].code = "success" -> "succeeded" [] retry -> "retry" [] OTHER -> "failed"
     IN \E t \in HostTimes, delay \in Delays :
          \/ /\ Owns(x, t) /\ (retry => rows[d].gen < MaxGen)
             /\ rows' = [rows EXCEPT ![d].state = state, ![d].token = << >>, ![d].until = NULL,
                                     ![d].due = IF retry THEN t + delay ELSE @,
                                     ![d].gen = IF retry THEN @ + 1 ELSE @]
             /\ attempts' = [attempts EXCEPT ![d][rows[d].count].code = execs[x].code,
                                                ![d][rows[d].count].ended = execs[x].gen]
             /\ \/ handoff' = (IF retry THEN handoff \cup {<<d, rows[d].gen + 1>>} ELSE handoff)
                   /\ UNCHANGED faults
                \/ Faulty /\ UNCHANGED handoff
          \/ ~Owns(x, t) /\ UNCHANGED <<repository, handoff, faults>>
  /\ Goes(x, "release")
  /\ UNCHANGED <<clock, active, queue, limit, rescue>>

(* finally: limits.release.                                                *)
Release(x) == /\ At(x, "release")
              /\ limit' = ReleaseState(LiveState(limit, clock), Token(x))
              /\ Ends(x)
              /\ UNCHANGED <<clock, repository, active, handoff, rescue, faults>>

(* A call fails without effect, or the worker aborts: the execution ends   *)
(* through its finally.                                                    *)
CallFails(x) == /\ execs[x].pc \in {"claim", "renew", "finish"} /\ Faulty
                /\ Goes(x, "release")
                /\ UNCHANGED <<clock, repository, active, queue, handoff, limit, rescue>>

(* The worker dies; its job, which has a single attempt, is over.          *)
Die(x) == /\ ~At(x, "idle") /\ Faulty
          /\ Ends(x)
          /\ UNCHANGED <<clock, repository, active, handoff, limit, rescue>>

-----------------------------------------------------------------------------
(***************************************************************************)
(* recover()                                                               *)
(***************************************************************************)

(* repository.recover: abandoned deliveries become due again, or fail.     *)
Abandoned(d, t) == rows[d].state = "running" /\ rows[d].until <= t

Recover ==
  /\ \A d \in Deliveries : rescue[d] = Quiet
  /\ \E t \in HostTimes :
       LET lost == {d \in Deliveries : Abandoned(d, t)}
           found == lost \cup {d \in Deliveries : rows[d].state \in Waiting /\ rows[d].due <= t}
           spent(d) == rows[d].count >= MaxAttempts
           back(d) == [rows[d] EXCEPT !.state = IF spent(d) THEN "failed" ELSE "retry",
                         !.gen = @ + 1, !.due = t, !.token = << >>, !.until = NULL]
       IN /\ found # {} /\ \A d \in lost : rows[d].gen < MaxGen
          /\ rows' = [d \in Deliveries |-> IF d \in lost THEN back(d) ELSE rows[d]]
          /\ attempts' = [d \in Deliveries |-> IF d \in lost
                            THEN [attempts[d] EXCEPT ![rows[d].count].code = "lease-expired"]
                            ELSE attempts[d]]
          /\ rescue' = [d \in Deliveries |-> IF d \in found /\ ~(d \in lost /\ spent(d))
                          THEN [step |-> "lookup", gen |-> rows'[d].gen] ELSE Quiet]
  /\ UNCHANGED <<clock, active, queue, handoff, execs, limit, faults>>

(* queue.lookupDeduplicationKey: healthy jobs are left alone.              *)
Lookup(d) ==
  /\ rescue[d].step = "lookup"
  /\ LET job == queue[d][rescue[d].gen]
     IN CASE job \in {"pending", "running"} -> rescue' = [rescue EXCEPT ![d] = Quiet] /\ UNCHANGED handoff
          [] job = "ended" -> rescue' = [rescue EXCEPT ![d].step = "advance"] /\ UNCHANGED handoff
          [] OTHER -> /\ rescue' = [rescue EXCEPT ![d] = Quiet]
                      /\ handoff' = handoff \cup {<<d, rescue[d].gen>>}
  /\ UNCHANGED <<clock, repository, active, queue, execs, limit, faults>>

(* Slip: a key whose job is over is enqueued again.                        *)
AdvanceScheduleSame(d) ==
  /\ rescue[d].step = "advance"
  /\ rescue' = [rescue EXCEPT ![d] = Quiet]
  /\ handoff' = handoff \cup {<<d, rescue[d].gen>>}
  /\ UNCHANGED <<clock, repository, active, queue, execs, limit, faults>>

(* repository.advanceSchedule: a generation whose job is over needs a new  *)
(* key.                                                                    *)
AdvanceSchedule(d) ==
  /\ rescue[d].step = "advance"
  /\ rescue' = [rescue EXCEPT ![d] = Quiet]
  /\ LET current == rows[d].gen = rescue[d].gen /\ rows[d].state \in Waiting
     IN \/ /\ current /\ rows[d].gen < MaxGen
           /\ rows' = [rows EXCEPT ![d].gen = @ + 1]
           /\ handoff' = handoff \cup {<<d, rows[d].gen + 1>>}
        \/ ~current /\ UNCHANGED <<rows, handoff>>
  /\ UNCHANGED <<clock, attempts, active, queue, execs, limit, faults>>

-----------------------------------------------------------------------------
ExecStep(x) == \/ Acquire(x) \/ Claim(x) \/ Renew(x) \/ Sent(x) \/ Finish(x) \/ Release(x)

Work == \E x \in Execs, d \in Deliveries, g \in 1..MaxGen : Start(x, d, g)

Rescue == Recover \/ \E d \in Deliveries : Lookup(d) \/ AdvanceSchedule(d)

Next == \/ Tick \/ PutEndpoint \/ Work \/ Rescue
        \/ \E d \in Deliveries : \/ Publish(d) \/ Prune(d)
                                 \/ \E o \in Deliveries : Replay(d, o)
        \/ \E p \in handoff : Schedule(p) \/ ScheduleFails(p)
        \/ \E x \in Execs : ExecStep(x) \/ CallFails(x) \/ Die(x)

Spec == Init /\ [][Next]_vars

(* Time passes, workers and the host's maintenance keep running.           *)
FairSpec == /\ Spec
            /\ WF_vars(Tick) /\ WF_vars(Work) /\ WF_vars(Rescue)
            /\ WF_vars(\E p \in handoff : Schedule(p))
            /\ \A x \in Execs : WF_vars(ExecStep(x))

-----------------------------------------------------------------------------
Requests(d) == {x \in Execs : At(x, "send") /\ execs[x].d = d}

(* A delivery never has two requests in flight, although its lease is      *)
(* taken over while claims wait and workers die (execute: the deadline of  *)
(* a request against the persisted lease).                                 *)
OneRequestAtATime == \A d \in Deliveries : Cardinality(Requests(d)) <= 1

(* All deliveries together never have more requests in flight than the     *)
(* configured concurrency, although admission leases expire (execute       *)
(* against limits.acquire and limits.renew).                               *)
WithinConcurrency == Cardinality(UNION {Requests(d) : d \in Deliveries}) <= Concurrency

(* Attempts are accounted for: the rows of a delivery are its attempts in  *)
(* order and within the budget; only the running one is unfinished; each   *)
(* was finished by the execution that began it, or expired; and the state  *)
(* follows from the last one (claim, finish, recover).                     *)
AttemptsAccounted ==
  \A d \in Deliveries : LET r == rows[d]
                            a == attempts[d] IN
    /\ Len(a) = r.count /\ r.count <= MaxAttempts
    /\ \A i \in 1..r.count :
         /\ a[i].code = "open" <=> (r.state = "running" /\ i = r.count)
         /\ a[i].code \notin {"open", "lease-expired"} => a[i].ended = a[i].by
         /\ i < r.count => a[i].code \in {"retryable", "lease-expired"}
    /\ r.state = "succeeded" => r.count > 0 /\ a[r.count].code = "success"
    /\ r.state \in {"retry", "failed"} /\ r.count > 0 => a[r.count].code # "success"

(* Every delivery is settled at last, although enqueues, answers and       *)
(* workers are lost: what was dropped is found by recover().  Deliveries   *)
(* that reach the bound on generations are excepted.                       *)
DeliveriesSettle ==
  \A d \in Deliveries :
    rows[d].state # "none" ~> rows[d].state \in Ended \cup {"pruned"} \/ rows[d].gen = MaxGen
=============================================================================
