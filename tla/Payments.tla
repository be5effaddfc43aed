------------------------------ MODULE Payments ------------------------------
(***************************************************************************)
(* One payment and its refunds (packages/payments): a durable record that  *)
(* is changed only by compare-and-set, runs that reconcile it with the     *)
(* payment provider under a lease, requests of callers, and the inbox of   *)
(* verified webhook events.                                                *)
(*                                                                         *)
(* mutate() reads, changes and writes the record until its compare-and-set *)
(* succeeds, so a successful mutate is one step on the current record; one *)
(* that loses twelve races fails like any other call (Fail).  A run's `pc' *)
(* is the await it stands at.                                              *)
(*                                                                         *)
(* The payment and its refunds go through the same protocol, so both are   *)
(* entities.  The provider is external: it executes a write some time      *)
(* after it was sent, whether or not the sender still waits, and answers a *)
(* repetition from its idempotency store while it remembers the key.       *)
(*                                                                         *)
(* Abstracted: tenant, order, currency and account identity (checked to be *)
(* equal everywhere), the nonterminal statuses (all "open"), the results,  *)
(* which are appended by the same write that makes a status terminal, and  *)
(* reconcileAt: a record is parked (never due again) or due.  Refunds are  *)
(* reconciled in any order, and the provider's list may miss an object.    *)
(*                                                                         *)
(* Definitions introduced by `Slip:' are not part of the model: each is a  *)
(* plausible mistake in the definition that follows it, and the mutation   *)
(* runs check that some property notices it.                               *)
(***************************************************************************)
EXTENDS Naturals, FiniteSets, FiniteSetsExt

CONSTANTS Pay,            \* the payment itself
          Refunds,        \* request keys of refunds
          Amount,         \* what was charged
          RefundAmount,   \* RefundAmount[k]: what refund k asks for
          MaxRefunds,     \* maxRefunds
          Runs,           \* concurrent executions of run()
          NoRun,
          LeaseMs,        \* leaseMs
          ReplayWindow,   \* provider.replayWindowMs
          Retention,      \* how long the provider remembers a key
          Latency,        \* a write is executed this soon, or never
          Skew,           \* disagreement of host clocks
          Reported,       \* bound: events about others are lost
          Horizon,        \* bound: time ends once nothing waits for it
          MaxFaults       \* bound: failed calls and dead runs

ASSUME PaymentAssumption ==
  /\ Pay \notin Refunds /\ NoRun \notin Runs
  /\ Amount \in Nat /\ RefundAmount \in [Refunds -> Nat]
  /\ MaxRefunds \in Nat \ {0} /\ Reported \subseteq Refunds \cup {Pay}
  /\ LeaseMs \in Nat \ {0} /\ Latency \in Nat /\ Skew \in Nat
  /\ Horizon \in Nat /\ MaxFaults \in Nat
  /\ ReplayWindow \in Nat \ {0}

(* "Provider's safe replay horizon, less than its minimum idempotency      *)
(* retention": by enough for a write to arrive.                            *)
ASSUME RetentionAssumption ==
  Retention \in Nat /\ ReplayWindow + Latency + Skew <= Retention

VARIABLES clock,      \* the clock of the fastest host
          items,      \* items[e]: status, provider id and attemptedAt of e
          lease,      \* the record's lease: holder and until
          parked,     \* reconcileAt is beyond all time
          inbox,      \* inbox[e]: the event about e that the provider sends
          runs,       \* runs[r]: where a run is, and what it holds
          flights,    \* writes under way to the provider
          provider,   \* provider[e]: how many objects, their status, key memory
          refusing,   \* the provider definitively refuses further refunds
          faults

record == <<items, lease, parked>>
vars == <<clock, record, inbox, runs, flights, provider, refusing, faults>>

NULL == 0
Entities == Refunds \cup {Pay}
Terminal == {"succeeded", "failed", "canceled"}
Released == {"failed", "canceled"}

NoItem == [status |-> "none", id |-> NULL, at |-> NULL]
Resting == [pc |-> "idle", e |-> Pay, todo |-> {}, seen |-> NULL, status |-> "none",
            ok |-> FALSE, event |-> NoRun]
NoObject == [count |-> 0, status |-> "none", until |-> NULL]

Init == /\ clock = Skew + 1
        /\ items = [e \in Entities |-> NoItem]
        /\ lease = [by |-> NoRun, until |-> NULL]
        /\ parked = TRUE
        /\ inbox = [e \in Entities |-> "unseen"]
        /\ runs = [r \in Runs |-> Resting]
        /\ flights = {}
        /\ provider = [e \in Entities |-> NoObject]
        /\ refusing = FALSE
        /\ faults = 0

HostTimes == {t \in 0..clock : clock <= t + Skew}

(* Time passes, but no write is under way for longer than Latency.  After  *)
(* the horizon time only frees a lease whose run is gone.                  *)
Tick == /\ \A f \in flights : clock < f.sent + Latency
        /\ \/ clock < Horizon
           \/ lease.by # NoRun /\ clock < lease.until + Skew /\ runs[lease.by].pc = "idle"
        /\ clock' = clock + 1
        /\ UNCHANGED <<record, inbox, runs, flights, provider, refusing, faults>>

-----------------------------------------------------------------------------
(***************************************************************************)
(* Callers.                                                                *)
(***************************************************************************)

(* create(): insert the record unless it is there.  The run that create()  *)
(* then makes is any run: the record is due.                               *)
Create ==
  /\ items[Pay].status = "none"
  /\ items' = [items EXCEPT ![Pay].status = "unknown"]
  /\ parked' = FALSE
  /\ UNCHANGED <<clock, lease, inbox, runs, flights, provider, refusing, faults>>

(* Slip: a refund that is not yet known to have succeeded reserves nothing.*)
ReservedSucceeded == {k \in Refunds : items[k].status = "succeeded"}

(* Unknown and pending refunds keep their reservation.                     *)
Reserved == {k \in Refunds : items[k].status \notin Released \cup {"none"}}

(* refund(): reserve the amount, once per request key.                     *)
RequestRefund(k) ==
  /\ items[k].status = "none"
  /\ items[Pay].status = "succeeded" /\ items[Pay].id # NULL
  /\ RefundAmount[k] + MapThenSumSet(LAMBDA i : RefundAmount[i], Reserved) <= Amount
  /\ Cardinality({i \in Refunds : items[i].status # "none"}) < MaxRefunds
  /\ items' = [items EXCEPT ![k].status = "unknown"]
  /\ parked' = FALSE
  /\ UNCHANGED <<clock, lease, inbox, runs, flights, provider, refusing, faults>>

(* webhook.receive: a verified event about an object that exists, any time *)
(* later or never; a second delivery finds the event's key and changes     *)
(* nothing.                                                                *)
Receive(e) ==
  /\ e \in Reported /\ provider[e].count > 0 /\ inbox[e] = "unseen"
  /\ inbox' = [inbox EXCEPT ![e] = "pending"]
  /\ UNCHANGED <<clock, record, runs, flights, provider, refusing, faults>>

(* drain(), processEvent: the event's object id is kept, even when the     *)
(* answer that should have carried it was lost.                            *)
Attach(e) ==
  /\ inbox[e] = "pending"
  /\ items[e].id = NULL
  /\ items' = [items EXCEPT ![e].id = 1]
  /\ UNCHANGED <<clock, lease, parked, inbox, runs, flights, provider, refusing, faults>>

-----------------------------------------------------------------------------
(***************************************************************************)
(* run()                                                                   *)
(***************************************************************************)
At(r, pc) == runs[r].pc = pc
Goes(r, pc) == runs' = [runs EXCEPT ![r].pc = pc]
Leaves(r) == runs' = [runs EXCEPT ![r] = [Resting EXCEPT !.pc = "release"]]

External == UNCHANGED <<clock, inbox, flights, provider, refusing, faults>>

(* Where an entity is looked for: by its id; not at all before the first   *)
(* attempt; by its metadata otherwise.                                     *)
LookUp(item) == IF item.id # NULL THEN "get" ELSE IF item.at = NULL THEN "reload" ELSE "find"

(* A due record, or an event, starts a run; it needs the lease.            *)
Acquire(r) ==
  /\ At(r, "idle")
  /\ \E why \in {e \in Entities : inbox[e] = "pending" /\ items[e].id # NULL}
               \cup (IF parked THEN {} ELSE {NoRun}) :
       \E t \in HostTimes :
         /\ lease.by = NoRun \/ lease.until <= t
         /\ lease' = [by |-> r, until |-> t + LeaseMs]
         /\ runs' = [runs EXCEPT ![r] =
              [Resting EXCEPT !.ok = TRUE, !.event = why,
                 !.pc = IF items[Pay].at = NULL THEN "attempt" ELSE LookUp(items[Pay])]]
  /\ UNCHANGED <<items, parked>>
  /\ External

Owns(r, t) == lease.by = r /\ lease.until > t

(* The first attempt of the payment is dated before anything is sent.      *)
AttemptPayment(r) ==
  /\ At(r, "attempt") /\ runs[r].e = Pay
  /\ IF lease.by = r
     THEN /\ \E t \in HostTimes : items' = [items EXCEPT ![Pay].at = t]
          /\ Goes(r, LookUp(items[Pay]))
     ELSE Leaves(r) /\ UNCHANGED items
  /\ UNCHANGED <<lease, parked>>
  /\ External

(* The same for a refund, with renewLease.                                 *)
AttemptRefund(r) ==
  /\ At(r, "attempt") /\ runs[r].e # Pay
  /\ \E t \in HostTimes :
       \/ /\ Owns(r, t)
          /\ lease' = [lease EXCEPT !.until = t + LeaseMs]
          /\ items' = IF items[runs[r].e].at = NULL THEN [items EXCEPT ![runs[r].e].at = t] ELSE items
          /\ Goes(r, LookUp(items[runs[r].e]))
       \/ ~Owns(r, t) /\ Leaves(r) /\ UNCHANGED <<items, lease>>
  /\ UNCHANGED parked
  /\ External

Answered(r) == runs' = [runs EXCEPT ![r].pc = "observe", ![r].seen = provider[runs[r].e].count,
                                    ![r].status = provider[runs[r].e].status]

(* provider.getPayment, provider.getRefund.                                *)
Get(r) == /\ At(r, "get")
          /\ Answered(r)
          /\ UNCHANGED record
          /\ External

(* provider.findPayment, findRefund: "null is not proof that a timed-out   *)
(* request failed", so nothing may be found of an object that exists.      *)
Find(r) == /\ At(r, "find")
           /\ \/ provider[runs[r].e].count > 0 /\ Answered(r)
              \/ Goes(r, "reload")
           /\ UNCHANGED record
           /\ External

(* Slip: the replay window is not consulted.                               *)
MayWriteAlways(r, e, t) == Owns(r, t) /\ items[e].at # NULL

(* mayWrite: the lease is live and the provider still remembers the key.   *)
MayWrite(r, e, t) == /\ Owns(r, t)
                     /\ items[e].at # NULL /\ t >= items[e].at
                     /\ t < items[e].at + ReplayWindow

(* The refunds that are left to this run, in any order, or its end.        *)
Continues(r, todo, ok) ==
  LET after == [Resting EXCEPT !.ok = ok, !.event = runs[r].event]
  IN IF todo = {} THEN runs' = [runs EXCEPT ![r] = [after EXCEPT !.pc = "release"]]
     ELSE \E k \in todo :
            runs' = [runs EXCEPT ![r] = [after EXCEPT !.pc = "attempt", !.e = k, !.todo = todo \ {k}]]

(* Not found: read the record again, then write, if that is still safe.    *)
Reload(r) ==
  /\ At(r, "reload")
  /\ LET e == runs[r].e
     IN \E t \in HostTimes :
          CASE items[e].id # NULL -> Goes(r, "get")
            [] items[e].id = NULL /\ MayWrite(r, e, t) -> Goes(r, "write")
            [] OTHER -> IF e = Pay THEN Leaves(r) ELSE Continues(r, runs[r].todo, FALSE)
  /\ UNCHANGED record
  /\ External

(* beforeWrite, after the adapter's preflight: check everything again, and *)
(* only then send.                                                         *)
Write(r) ==
  /\ At(r, "write")
  /\ LET e == runs[r].e
     IN \E t \in HostTimes :
          IF MayWrite(r, e, t) /\ items[e].id = NULL /\ items[e].status = "unknown"
          THEN /\ flights' = flights \cup {[by |-> r, e |-> e, sent |-> clock]}
               /\ Goes(r, "await")
          ELSE Leaves(r) /\ UNCHANGED flights
  /\ UNCHANGED <<clock, record, inbox, provider, refusing, faults>>

(* The provider executes a write, or answers it from its key memory.       *)
Remembers(e) == provider[e].count > 0 /\ clock < provider[e].until

Execute(f) ==
  /\ flights' = flights \ {f}
  /\ LET refused == ~Remembers(f.e) /\ f.e # Pay /\ refusing
         after == IF Remembers(f.e) \/ refused THEN provider[f.e]
                  ELSE [count |-> provider[f.e].count + 1, status |-> "open",
                        until |-> clock + Retention]
     IN /\ provider' = [provider EXCEPT ![f.e] = after]
        /\ runs' = IF f.by = NoRun THEN runs
                   ELSE [runs EXCEPT ![f.by].pc = IF refused THEN "refused" ELSE "observe",
                                     ![f.by].seen = after.count, ![f.by].status = after.status]
  /\ UNCHANGED <<clock, record, inbox, refusing, faults>>

(* The refunds to look at once the payment is known: a refund that was     *)
(* definitively not created is over.                                       *)
ToReconcile == {k \in Refunds : /\ items[k].status # "none"
                                /\ ~(items[k].status \in Terminal /\ items[k].id = NULL)}

(* observePayment, observeRefund: what the provider says is written under  *)
(* a renewed lease; terminal statuses never change.                        *)
Observe(r) ==
  /\ At(r, "observe")
  /\ LET e == runs[r].e
         matches == /\ items[e].id \in {NULL, runs[r].seen}
                    /\ items[e].status \in Terminal => items[e].status = runs[r].status
     IN \E t \in HostTimes :
          \/ /\ Owns(r, t) /\ matches
             /\ lease' = [lease EXCEPT !.until = t + LeaseMs]
             /\ items' = [items EXCEPT ![e].id = runs[r].seen, ![e].status = runs[r].status]
             /\ Continues(r, IF e = Pay THEN ToReconcile ELSE runs[r].todo, runs[r].ok)
          \/ ~(Owns(r, t) /\ matches) /\ Leaves(r) /\ UNCHANGED <<items, lease>>
  /\ UNCHANGED parked
  /\ External

(* RefundNotCreatedError: the refund failed, its reservation is released.  *)
NotCreated(r) ==
  /\ At(r, "refused")
  /\ LET e == runs[r].e
     IN \E t \in HostTimes :
          \/ /\ Owns(r, t) /\ items[e].id = NULL
             /\ lease' = [lease EXCEPT !.until = t + LeaseMs]
             /\ items' = [items EXCEPT ![e].status = "failed"]
             /\ Continues(r, runs[r].todo, runs[r].ok)
          \/ ~(Owns(r, t) /\ items[e].id = NULL) /\ Leaves(r) /\ UNCHANGED <<items, lease>>
  /\ UNCHANGED parked
  /\ External

(* Slip: parked as soon as the payment is over.                            *)
FinishedPayment == items[Pay].status \in Terminal

Finished == \A e \in Entities : items[e].status \in Terminal \cup {"none"}

(* finally: give the lease back and decide whether the record is due       *)
(* again; drain() finishes the event of a run that resolved everything.    *)
Release(r) ==
  /\ At(r, "release")
  /\ lease' = IF lease.by = r THEN [by |-> NoRun, until |-> NULL] ELSE lease
  /\ parked' = IF lease.by = r THEN Finished ELSE parked
  /\ inbox' = IF runs[r].ok /\ runs[r].event # NoRun
              THEN [inbox EXCEPT ![runs[r].event] = "done"] ELSE inbox
  /\ runs' = [runs EXCEPT ![r] = Resting]
  /\ UNCHANGED <<clock, items, flights, provider, refusing, faults>>

Orphaned(r) == {[f EXCEPT !.by = IF f.by = r THEN NoRun ELSE f.by] : f \in flights}

(* Slip: every failed createRefund releases the reservation.               *)
FailReleases(r) ==
  /\ runs[r].pc \notin {"idle", "release"}
  /\ faults < MaxFaults /\ faults' = faults + 1
  /\ flights' = Orphaned(r)
  /\ Leaves(r)
  /\ items' = IF At(r, "await") /\ runs[r].e # Pay
              THEN [items EXCEPT ![runs[r].e].status = "failed"] ELSE items
  /\ UNCHANGED <<clock, lease, parked, inbox, provider, refusing>>

(* A call fails or is not answered, before or after it took effect: the    *)
(* run ends through its finally and every reservation survives; or the     *)
(* process dies and its lease stays.                                       *)
Fail(r) ==
  /\ runs[r].pc \notin {"idle", "release"}
  /\ faults < MaxFaults /\ faults' = faults + 1
  /\ flights' = Orphaned(r)
  /\ Leaves(r)
  /\ UNCHANGED <<clock, record, inbox, provider, refusing>>

Die(r) ==
  /\ ~At(r, "idle")
  /\ faults < MaxFaults /\ faults' = faults + 1
  /\ flights' = Orphaned(r)
  /\ runs' = [runs EXCEPT ![r] = Resting]
  /\ UNCHANGED <<clock, record, inbox, provider, refusing>>

-----------------------------------------------------------------------------
(***************************************************************************)
(* What happens at the provider by itself.  A canceled refund is handled   *)
(* exactly like a failed one.                                              *)
(***************************************************************************)
Outcome(e, status) ==
  /\ provider[e].status = "open"
  /\ status \in {"succeeded", IF e = Pay THEN "canceled" ELSE "failed"}
  /\ provider' = [provider EXCEPT ![e].status = status]
  /\ UNCHANGED <<clock, record, inbox, runs, flights, refusing, faults>>

(* A dispute, or a full refund by other means: no refund can be created    *)
(* any more.                                                               *)
Refuse ==
  /\ ~refusing /\ provider[Pay].status = "succeeded"
  /\ refusing' = TRUE
  /\ UNCHANGED <<clock, record, inbox, runs, flights, provider, faults>>

RunStep(r) == \/ Acquire(r) \/ AttemptPayment(r) \/ AttemptRefund(r) \/ Get(r) \/ Find(r)
              \/ Reload(r) \/ Write(r) \/ Observe(r) \/ NotCreated(r) \/ Release(r)

Deliver == \E f \in flights : Execute(f)

Next == \/ Tick \/ Create \/ Refuse \/ Deliver
        \/ \E k \in Refunds : RequestRefund(k)
        \/ \E e \in Entities : Receive(e) \/ Attach(e) \/ \E s \in Terminal : Outcome(e, s)
        \/ \E r \in Runs : RunStep(r) \/ Fail(r) \/ Die(r)

Spec == Init /\ [][Next]_vars

(* Time passes, writes arrive, and drain() keeps being called.             *)
FairSpec == /\ Spec
            /\ WF_vars(Tick) /\ WF_vars(Deliver)
            /\ \A e \in Entities : WF_vars(Attach(e))
            /\ \A r \in Runs : WF_vars(RunStep(r))

-----------------------------------------------------------------------------

(* Money moves once: the provider never holds two objects for the payment, *)
(* nor for a refund, whatever was lost, repeated, taken over or delayed    *)
(* (mayWrite and beforeWrite against the provider's key retention).        *)
MovedOnce == \A e \in Entities : provider[e].count <= 1

(* The refunds that exist at the provider never exceed the charge, also    *)
(* when refunds fail and their reservation is given to others.             *)
RefundsCovered ==
  MapThenSumSet(LAMBDA k : provider[k].count * RefundAmount[k],
                {k \in Refunds : provider[k].count > 0 /\ provider[k].status \notin Released}) <= Amount

(* What is final here is final at the provider: no lost answer, late       *)
(* observation or retried write makes run() record, and publish as a       *)
(* result, an outcome that is not so.                                      *)
TerminalIsTrue ==
  \A e \in Entities : items[e].status \in Terminal =>
    items[e].status = IF provider[e].count = 0 THEN "failed" ELSE provider[e].status

(* The outcome of an object whose id is known, or whose event was          *)
(* received, is recorded at last, whatever was lost: an unfinished record  *)
(* is never parked.                                                        *)
Reconciled ==
  \A e \in Entities :
    provider[e].status \in Terminal /\ (items[e].id # NULL \/ inbox[e] = "pending")
      ~> items[e].status = provider[e].status
=============================================================================
