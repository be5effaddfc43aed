--------------------------- MODULE PaymentsProofs ---------------------------
(***************************************************************************)
(* Theorems about Payments.tla, for any set of refunds, any number of      *)
(* concurrent runs, and every lease, replay window, latency, skew and key  *)
(* retention that the assumptions of that module admit.                    *)
(*                                                                         *)
(* The argument is about time.  An attempt is dated before anything is     *)
(* sent, and never again (EntityOK, RunOK); a write is sent only within    *)
(* the replay window of that date and arrives within the latency           *)
(* (FlightOK); so when it arrives, an object that exists was created after *)
(* the date, and the provider still remembers its key.                     *)
(*                                                                         *)
(* Refunds are covered because an amount stays reserved until the provider *)
(* says that the refund failed (RefundInv): what exists there and did not  *)
(* fail is reserved here.  An amount is counted in units, so that a sum is *)
(* the cardinality of a set.                                               *)
(***************************************************************************)
EXTENDS Payments, WellFoundedInduction, FiniteSetTheorems, TLAPS

Known == {"open"} \cup Terminal

RunPcs == {"idle", "attempt", "get", "find", "reload", "write", "await", "observe", "refused", "release"}

Item == [status : {"none", "unknown"} \cup Known, id : Nat, at : Nat]

Run == [pc : RunPcs, e : Entities, todo : SUBSET Refunds, seen : Nat,
        status : {"none"} \cup Known, ok : BOOLEAN, event : Entities \cup {NoRun}]

Flight == [by : Runs \cup {NoRun}, e : Entities, sent : Nat]

Object == [count : Nat, status : {"none"} \cup Known, until : Nat]

PaymentTypes ==
  /\ clock \in Nat /\ clock > Skew
  /\ items \in [Entities -> Item]
  /\ lease \in [by : Runs \cup {NoRun}, until : Nat]
  /\ inbox \in [Entities -> {"unseen", "pending", "done"}]
  /\ runs \in [Runs -> Run]
  /\ flights \subseteq Flight
  /\ provider \in [Entities -> Object]
  /\ refusing \in BOOLEAN

(* One entity, here and at the provider.  What failed without an object    *)
(* was refused for good.                                                   *)
EntityOK(e) ==
  /\ items[e].at <= clock
  /\ provider[e].count \in {0, 1}
  /\ provider[e].count = 0 => provider[e].status = "none"
  /\ provider[e].count = 1 => /\ provider[e].status \in Known
                              /\ items[e].at # NULL /\ items[e].at + Retention <= provider[e].until
  /\ items[e].id # NULL => items[e].id = 1 /\ provider[e].count = 1
  /\ inbox[e] = "pending" => provider[e].count = 1
  /\ items[e].status \in Terminal =>
       IF provider[e].count = 1 THEN items[e].status = provider[e].status
       ELSE items[e].status = "failed" /\ e # Pay /\ refusing

(* A write under way was sent within the replay window of its attempt, and *)
(* its sender still awaits the answer, if it knows of one.                 *)
FlightOK(f) ==
  /\ items[f.e].at # NULL
  /\ f.sent < items[f.e].at + ReplayWindow + Skew
  /\ clock <= f.sent + Latency
  /\ f.by # NoRun => runs[f.by].pc = "await" /\ runs[f.by].e = f.e

OneFlight == \A f, g \in flights : f.by = g.by /\ f.by # NoRun => f = g

(* What a run has heard from the provider is still so, or was not final;   *)
(* and a run that will date the payment's attempt is the first to.         *)
RunOK(r) ==
  /\ runs[r].pc = "get" => provider[runs[r].e].count = 1
  /\ runs[r].pc = "observe" =>
       /\ runs[r].seen = 1 /\ provider[runs[r].e].count = 1 /\ runs[r].status \in Known
       /\ runs[r].status \in Terminal => provider[runs[r].e].status = runs[r].status
  /\ runs[r].pc = "refused" => runs[r].e # Pay /\ refusing /\ provider[runs[r].e].count = 0
  /\ runs[r].pc = "attempt" /\ runs[r].e = Pay /\ lease.by = r => items[Pay].at = NULL

(* The inductive invariant.                                                *)
PaymentInv ==
  /\ PaymentTypes
  /\ \A e \in Entities : EntityOK(e)
  /\ \A f \in flights : FlightOK(f)
  /\ OneFlight
  /\ \A r \in Runs : RunOK(r)

-----------------------------------------------------------------------------

LEMMA PaymentFacts ==
  /\ Pay \in Entities /\ Refunds \subseteq Entities /\ NoRun \notin Runs
  /\ ReplayWindow \in Nat /\ Latency \in Nat /\ Skew \in Nat /\ Retention \in Nat
  /\ ReplayWindow + Latency + Skew <= Retention
  /\ LeaseMs \in Nat
  BY PaymentAssumption, RetentionAssumption DEF Entities

LEMMA HostTimesAreLate ==
  ASSUME PaymentTypes, NEW t \in HostTimes
  PROVE  t \in Nat /\ t > 0 /\ t <= clock /\ clock <= t + Skew
  BY PaymentFacts DEF PaymentTypes, HostTimes

(* When a write arrives at an object that exists, the provider remembers   *)
(* its key: the one fact the whole protocol is built for.                  *)
LEMMA KeyIsRemembered ==
  ASSUME PaymentInv, NEW f \in flights, provider[f.e].count # 0
  PROVE  Remembers(f.e)
  <1>1. /\ f.e \in Entities /\ f.sent \in Nat /\ clock \in Nat
        /\ items[f.e].at \in Nat /\ provider[f.e].until \in Nat /\ provider[f.e].count \in Nat
    <2>1. f \in Flight /\ f.e \in Entities /\ f.sent \in Nat /\ clock \in Nat
      BY DEF PaymentInv, PaymentTypes, Flight
    <2>2. items[f.e] \in Item /\ provider[f.e] \in Object
      BY <2>1 DEF PaymentInv, PaymentTypes
    <2>. QED BY <2>1, <2>2 DEF Item, Object
  <1>2. provider[f.e].count = 1 /\ items[f.e].at + Retention <= provider[f.e].until
    BY <1>1 DEF PaymentInv, EntityOK
  <1>3. f.sent < items[f.e].at + ReplayWindow + Skew /\ clock <= f.sent + Latency
    BY DEF PaymentInv, FlightOK
  <1>. QED BY <1>1, <1>2, <1>3, PaymentFacts DEF Remembers

LEMMA PaymentInit == Init => PaymentInv
  <1>. SUFFICES ASSUME Init PROVE PaymentInv
    OBVIOUS
  <1>. USE PaymentFacts DEF Init
  <1>1. PaymentTypes
    <2>1. NoItem \in Item /\ NoObject \in Object
      BY DEF NoItem, Item, NoObject, Object, NULL
    <2>2. Resting \in Run
      BY DEF Resting, Run, RunPcs, NULL
    <2>3. clock \in Nat /\ clock > Skew /\ lease \in [by : Runs \cup {NoRun}, until : Nat]
      BY DEF NULL
    <2>. QED BY <2>1, <2>2, <2>3 DEF PaymentTypes
  <1>2. \A e \in Entities : EntityOK(e)
    BY DEF EntityOK, NoItem, NoObject, NULL, Terminal
  <1>3. \A r \in Runs : RunOK(r)
    BY DEF RunOK, Resting
  <1>. QED BY <1>1, <1>2, <1>3 DEF PaymentInv, OneFlight

-----------------------------------------------------------------------------
(* What leaves the entities, the flights or the runs as they are.          *)

LEMMA EntitiesRest ==
  ASSUME PaymentInv, UNCHANGED <<clock, items, inbox, provider, refusing>>
  PROVE  \A e \in Entities : EntityOK(e)'
  BY DEF PaymentInv, EntityOK

(* A step of run r, which sends nothing and awaits nothing.                *)
LEMMA FlightsRest ==
  ASSUME PaymentInv, UNCHANGED <<clock, flights>>, NEW r \in Runs, runs[r].pc # "await",
         \A q \in Runs \ {r} : runs'[q] = runs[q],
         \A e \in Entities : items'[e].at = items[e].at \/ items[e].at = NULL
  PROVE  (\A f \in flights' : FlightOK(f)') /\ OneFlight'
  <1>1. ASSUME NEW f \in flights PROVE FlightOK(f)'
    <2>1. FlightOK(f) /\ f.e \in Entities /\ f.by \in Runs \cup {NoRun}
      BY DEF PaymentInv, PaymentTypes, Flight
    <2>2. f.by # NoRun => f.by \in Runs \ {r}
      BY <2>1 DEF FlightOK
    <2>. QED BY <2>1, <2>2 DEF FlightOK
  <1>. QED BY <1>1 DEF PaymentInv, OneFlight

LEMMA OtherRunsRest ==
  ASSUME PaymentInv, UNCHANGED <<provider, refusing>>, NEW q \in Runs, runs'[q] = runs[q],
         items'[Pay].at = items[Pay].at \/ lease'.by # q,
         lease'.by = q => lease.by = q
  PROVE  RunOK(q)'
  BY DEF PaymentInv, RunOK

-----------------------------------------------------------------------------
(* The ways a run goes on.                                                 *)

LEMMA RunGoes ==
  ASSUME PaymentTypes, NEW r \in Runs, NEW pc \in RunPcs, Goes(r, pc)
  PROVE  /\ runs' \in [Runs -> Run] /\ \A q \in Runs \ {r} : runs'[q] = runs[q]
         /\ runs'[r].pc = pc /\ runs'[r].e = runs[r].e
  BY DEF PaymentTypes, Goes, Run

LEMMA RunLeaves ==
  ASSUME PaymentTypes, NEW r \in Runs,
         Leaves(r) \/ runs' = [runs EXCEPT ![r] = Resting]
  PROVE  /\ runs' \in [Runs -> Run] /\ \A q \in Runs \ {r} : runs'[q] = runs[q]
         /\ runs'[r].pc \in {"release", "idle"}
  <1>1. Resting \in Run /\ [Resting EXCEPT !.pc = "release"] \in Run
    BY PaymentFacts DEF Resting, Run, RunPcs, NULL
  <1>2. Resting.pc = "idle" /\ [Resting EXCEPT !.pc = "release"].pc = "release"
    BY DEF Resting
  <1>. QED BY <1>1, <1>2 DEF PaymentTypes, Leaves

LEMMA RunContinues ==
  ASSUME PaymentTypes, NEW r \in Runs, NEW todo \in SUBSET Refunds, NEW ok \in BOOLEAN, Continues(r, todo, ok)
  PROVE  /\ runs' \in [Runs -> Run] /\ \A q \in Runs \ {r} : runs'[q] = runs[q]
         /\ runs'[r].pc = "release" \/ (runs'[r].pc = "attempt" /\ runs'[r].e # Pay)
  <1>. DEFINE after == [Resting EXCEPT !.ok = ok, !.event = runs[r].event]
  <1>1. runs[r].event \in Entities \cup {NoRun}
    BY DEF PaymentTypes, Run
  <1>2. [after EXCEPT !.pc = "release"] \in Run /\ [after EXCEPT !.pc = "release"].pc = "release"
    BY <1>1, PaymentFacts DEF Resting, Run, RunPcs, NULL
  <1>3. \A k \in todo : LET a == [after EXCEPT !.pc = "attempt", !.e = k, !.todo = todo \ {k}]
                        IN a \in Run /\ a.pc = "attempt" /\ a.e = k
    BY <1>1, PaymentFacts DEF Resting, Run, RunPcs, NULL, Entities
  <1>4. \A k \in todo : k # Pay
    BY PaymentAssumption
  <1>5. \E a \in Run : /\ runs' = [runs EXCEPT ![r] = a]
                       /\ a.pc = "release" \/ (a.pc = "attempt" /\ a.e # Pay)
    <2>. HIDE DEF after
    <2>. QED BY <1>2, <1>3, <1>4 DEF Continues, after
  <1>. QED BY <1>5 DEF PaymentTypes

(* A run that has left, or starts with another entity, remembers nothing   *)
(* that must be true.                                                      *)
LEMMA FreshRunOK ==
  ASSUME NEW r \in Runs,
         runs'[r].pc \in {"idle", "release", "find", "reload", "write", "await"}
         \/ (runs'[r].pc = "attempt" /\ runs'[r].e # Pay)
  PROVE  RunOK(r)'
  BY DEF RunOK

-----------------------------------------------------------------------------
(* Steps of a run that change nothing but the run.                         *)

LEMMA SilentStep ==
  ASSUME PaymentInv, NEW r \in Runs, UNCHANGED record, External, runs[r].pc # "await",
         runs' \in [Runs -> Run], \A q \in Runs \ {r} : runs'[q] = runs[q], RunOK(r)'
  PROVE  PaymentInv'
  <1>. USE DEF record, External
  <1>1. PaymentTypes'
    BY DEF PaymentInv, PaymentTypes
  <1>2. \A e \in Entities : EntityOK(e)'
    BY EntitiesRest
  <1>3. (\A f \in flights' : FlightOK(f)') /\ OneFlight'
    BY FlightsRest
  <1>4. \A q \in Runs \ {r} : RunOK(q)'
    BY OtherRunsRest
  <1>. QED BY <1>1, <1>2, <1>3, <1>4 DEF PaymentInv

LEMMA LookUpFacts ==
  ASSUME PaymentInv, NEW e \in Entities
  PROVE  /\ LookUp(items[e]) \in {"get", "reload", "find"}
         /\ LookUp(items[e]) = "get" => provider[e].count = 1
  BY DEF LookUp, PaymentInv, EntityOK

LEMMA AskingSteps ==
  ASSUME PaymentInv, NEW r \in Runs, Get(r) \/ Find(r) \/ Reload(r)
  PROVE  PaymentInv'
  <1>0. PaymentTypes /\ runs[r] \in Run /\ runs[r].e \in Entities /\ RunOK(r)
    BY DEF PaymentInv, PaymentTypes, Run
  <1>1. UNCHANGED record /\ External /\ runs[r].pc \in {"get", "find", "reload"}
    BY DEF Get, Find, Reload, At
  <1>. DEFINE e == runs[r].e
  <1>2. provider[e] \in Object /\ EntityOK(e)
    BY <1>0 DEF PaymentInv, PaymentTypes
  <1>3. CASE Answered(r) /\ provider[e].count = 1
    <2>1. provider[e].status \in Known
      BY <1>2, <1>3 DEF EntityOK
    <2>2. /\ runs' \in [Runs -> Run] /\ \A q \in Runs \ {r} : runs'[q] = runs[q]
          /\ runs'[r].pc = "observe" /\ runs'[r].seen = 1 /\ runs'[r].e = e
          /\ runs'[r].status = provider[e].status
      <3>1. provider[e].count \in Nat /\ provider[e].status \in {"none"} \cup Known /\ "observe" \in RunPcs
        BY <1>2 DEF Object, RunPcs
      <3>2. [runs[r] EXCEPT !.pc = "observe", !.seen = provider[e].count, !.status = provider[e].status] \in Run
        BY <1>0, <3>1 DEF Run
      <3>3. runs' = [runs EXCEPT ![r] = [runs[r] EXCEPT !.pc = "observe", !.seen = provider[e].count, !.status = provider[e].status]]
        BY <1>0, <1>3 DEF Answered, PaymentTypes
      <3>. QED BY <1>0, <1>3, <3>2, <3>3 DEF PaymentTypes, Run
    <2>3. RunOK(r)'
      BY <1>1, <1>3, <2>1, <2>2 DEF RunOK, External
    <2>. QED BY <1>1, <2>2, <2>3, SilentStep
  <1>4. ASSUME NEW pc \in {"reload", "write"}, Goes(r, pc) PROVE PaymentInv'
    <2>1. pc \in RunPcs
      BY <1>4 DEF RunPcs
    <2>2. /\ runs' \in [Runs -> Run] /\ \A q \in Runs \ {r} : runs'[q] = runs[q]
          /\ runs'[r].pc = pc
      BY <1>0, <1>4, <2>1, RunGoes
    <2>3. RunOK(r)'
      BY <2>2, FreshRunOK
    <2>. QED BY <1>1, <2>2, <2>3, SilentStep
  <1>5. CASE Get(r)
    <2>1. runs[r].pc = "get" /\ Answered(r)
      BY <1>5 DEF Get, At
    <2>2. provider[e].count = 1
      BY <1>0, <2>1 DEF RunOK
    <2>. QED BY <1>3, <2>1, <2>2
  <1>6. CASE Find(r)
    <2>1. provider[e].count > 0 => provider[e].count = 1
      BY <1>2 DEF EntityOK
    <2>2. (provider[e].count > 0 /\ Answered(r)) \/ Goes(r, "reload")
      BY <1>6 DEF Find
    <2>. QED BY <1>3, <1>4, <2>1, <2>2
  <1>7. CASE Reload(r)
    <2>1. \/ Goes(r, "get") /\ items[e].id # NULL
          \/ Goes(r, "write") \/ Leaves(r) \/ Continues(r, runs[r].todo, FALSE)
      BY <1>7 DEF Reload
    <2>2. CASE Goes(r, "get") /\ items[e].id # NULL
      <3>1. "get" \in RunPcs
        BY DEF RunPcs
      <3>2. /\ runs' \in [Runs -> Run] /\ \A q \in Runs \ {r} : runs'[q] = runs[q]
            /\ runs'[r].pc = "get" /\ runs'[r].e = e
        BY <1>0, <2>2, <3>1, RunGoes
      <3>3. RunOK(r)'
        BY <1>1, <1>2, <2>2, <3>2 DEF RunOK, EntityOK, External
      <3>. QED BY <1>1, <3>2, <3>3, SilentStep
    <2>3. CASE Goes(r, "write")
      BY <1>4, <2>3
    <2>4. CASE Leaves(r)
      BY <1>0, <1>1, <2>4, RunLeaves, FreshRunOK, SilentStep
    <2>5. CASE Continues(r, runs[r].todo, FALSE)
      <3>1. runs[r].todo \in SUBSET Refunds /\ FALSE \in BOOLEAN
        BY <1>0 DEF Run
      <3>2. /\ runs' \in [Runs -> Run] /\ \A q \in Runs \ {r} : runs'[q] = runs[q]
            /\ runs'[r].pc = "release" \/ (runs'[r].pc = "attempt" /\ runs'[r].e # Pay)
        BY <1>0, <2>5, <3>1, RunContinues
      <3>. QED BY <1>1, <3>2, FreshRunOK, SilentStep
    <2>. QED BY <2>1, <2>2, <2>3, <2>4, <2>5
  <1>. QED BY <1>5, <1>6, <1>7

-----------------------------------------------------------------------------
(* Steps that change an entity or the lease.                               *)

(* A run that takes the lease will date the payment's attempt only if it   *)
(* has none.                                                               *)
LEMMA AcquireStep ==
  ASSUME PaymentInv, NEW r \in Runs, Acquire(r)
  PROVE  PaymentInv'
  <1>0. PaymentTypes /\ runs[r] \in Run /\ RunOK(r) /\ runs[r].pc = "idle"
    BY DEF PaymentInv, PaymentTypes, Acquire, At
  <1>. DEFINE pc == IF items[Pay].at = NULL THEN "attempt" ELSE LookUp(items[Pay])
  <1>1. PICK why \in Entities \cup {NoRun}, t \in HostTimes :
          /\ lease' = [by |-> r, until |-> t + LeaseMs]
          /\ runs' = [runs EXCEPT ![r] = [Resting EXCEPT !.ok = TRUE, !.event = why, !.pc = pc]]
    BY DEF Acquire
  <1>2. UNCHANGED <<clock, items, inbox, flights, provider, refusing>>
    BY DEF Acquire, External
  <1>3. /\ pc \in RunPcs /\ (pc = "get" => provider[Pay].count = 1)
        /\ pc \in {"attempt", "get", "reload", "find"} /\ (pc = "attempt" => items[Pay].at = NULL)
    BY LookUpFacts, PaymentFacts DEF RunPcs
  <1>. DEFINE run == [Resting EXCEPT !.ok = TRUE, !.event = why, !.pc = pc]
  <1>4. run \in Run /\ run.pc = pc /\ run.e = Pay
    <2>. HIDE DEF pc
    <2>. QED BY <1>3, PaymentFacts DEF Resting, Run, NULL
  <1>. HIDE DEF pc, run
  <1>5. /\ runs' \in [Runs -> Run] /\ \A q \in Runs \ {r} : runs'[q] = runs[q]
        /\ runs'[r].pc = pc /\ runs'[r].e = Pay
    BY <1>0, <1>1, <1>4 DEF PaymentTypes, run
  <1>6. lease' \in [by : Runs \cup {NoRun}, until : Nat] /\ lease'.by = r
    BY <1>0, <1>1, HostTimesAreLate, PaymentFacts
  <1>7. PaymentTypes'
    BY <1>0, <1>2, <1>5, <1>6 DEF PaymentTypes
  <1>8. (\A e \in Entities : EntityOK(e)') /\ (\A f \in flights' : FlightOK(f)') /\ OneFlight'
    BY <1>0, <1>2, <1>5, EntitiesRest, FlightsRest
  <1>9. \A q \in Runs \ {r} : RunOK(q)'
    BY <1>2, <1>5, <1>6, OtherRunsRest
  <1>10. RunOK(r)'
    BY <1>2, <1>3, <1>5, PaymentFacts DEF RunOK
  <1>. QED BY <1>7, <1>8, <1>9, <1>10 DEF PaymentInv

(* Dating an attempt that has none: nothing was sent for it yet.           *)
LEMMA DatedOK ==
  ASSUME PaymentInv, NEW e \in Entities, NEW t \in HostTimes, items[e].at = NULL,
         items' = [items EXCEPT ![e].at = t], UNCHANGED <<clock, inbox, provider, refusing>>
  PROVE  items' \in [Entities -> Item] /\ \A d \in Entities : EntityOK(d)'
  <1>0. items \in [Entities -> Item] /\ t \in Nat /\ t <= clock
    BY HostTimesAreLate DEF PaymentInv, PaymentTypes
  <1>1. items' \in [Entities -> Item]
    BY <1>0 DEF Item
  <1>2. ASSUME NEW d \in Entities PROVE EntityOK(d)'
    <2>1. items'[d].status = items[d].status /\ items'[d].id = items[d].id
      BY <1>0 DEF Item
    <2>2. EntityOK(d)
      BY DEF PaymentInv
    <2>3. CASE d # e
      <3>1. items'[d].at = items[d].at
        BY <1>0, <2>3 DEF Item
      <3>. QED BY <2>1, <2>2, <3>1 DEF EntityOK
    <2>4. CASE d = e
      <3>1. items'[d].at = t
        BY <1>0, <2>4 DEF Item
      <3>2. provider[d].count = 0
        BY <2>2, <2>4 DEF EntityOK
      <3>. QED BY <1>0, <2>1, <2>2, <3>1, <3>2 DEF EntityOK
    <2>. QED BY <2>3, <2>4
  <1>. QED BY <1>1, <1>2

LEMMA AttemptSteps ==
  ASSUME PaymentInv, NEW r \in Runs, AttemptPayment(r) \/ AttemptRefund(r)
  PROVE  PaymentInv'
  <1>0. /\ PaymentTypes /\ runs[r] \in Run /\ runs[r].e \in Entities /\ RunOK(r) /\ runs[r].pc = "attempt"
        /\ items \in [Entities -> Item] /\ lease \in [by : Runs \cup {NoRun}, until : Nat]
    BY DEF PaymentInv, PaymentTypes, AttemptPayment, AttemptRefund, At, Run
  <1>. DEFINE e == runs[r].e
  <1>1. UNCHANGED <<clock, inbox, flights, provider, refusing>>
    BY DEF AttemptPayment, AttemptRefund, External
  <1>2. \/ items' = items
        \/ /\ items[e].at = NULL /\ lease.by = r
           /\ \E t \in HostTimes : items' = [items EXCEPT ![e].at = t]
    <2>1. CASE AttemptPayment(r)
      BY <1>0, <2>1 DEF AttemptPayment, RunOK
    <2>2. CASE AttemptRefund(r)
      BY <2>2 DEF AttemptRefund, Owns
    <2>. QED BY <2>1, <2>2
  <1>3. lease' \in [by : Runs \cup {NoRun}, until : Nat] /\ lease'.by = lease.by
    <2>1. \A t \in HostTimes : t + LeaseMs \in Nat
      BY <1>0, HostTimesAreLate, PaymentFacts
    <2>2. lease' = lease \/ \E t \in HostTimes : lease' = [lease EXCEPT !.until = t + LeaseMs]
      BY DEF AttemptPayment, AttemptRefund
    <2>. QED BY <1>0, <2>1, <2>2
  <1>4. /\ items' \in [Entities -> Item] /\ \A d \in Entities : EntityOK(d)'
        /\ \A d \in Entities : items'[d].at = items[d].at \/ (items[d].at = NULL /\ lease.by = r)
    <2>1. CASE items' = items
      BY <1>0, <1>1, <2>1, EntitiesRest
    <2>2. CASE items' # items
      <3>1. PICK t \in HostTimes : items' = [items EXCEPT ![e].at = t]
        BY <1>2, <2>2
      <3>2. items[e].at = NULL /\ lease.by = r
        BY <1>2, <2>2
      <3>3. \A d \in Entities \ {e} : items'[d] = items[d]
        BY <1>0, <3>1
      <3>. QED BY <1>0, <1>1, <3>1, <3>2, <3>3, DatedOK
    <2>. QED BY <2>1, <2>2
  <1>5. Goes(r, LookUp(items[e])) \/ Leaves(r)
    BY DEF AttemptPayment, AttemptRefund
  <1>6. /\ runs' \in [Runs -> Run] /\ \A q \in Runs \ {r} : runs'[q] = runs[q]
        /\ RunOK(r)'
    <2>1. CASE Leaves(r)
      BY <1>0, <2>1, RunLeaves, FreshRunOK
    <2>2. CASE Goes(r, LookUp(items[e]))
      <3>1. LookUp(items[e]) \in {"get", "reload", "find"} /\ (LookUp(items[e]) = "get" => provider[e].count = 1)
        BY <1>0, LookUpFacts
      <3>2. LookUp(items[e]) \in RunPcs
        BY <3>1 DEF RunPcs
      <3>3. /\ runs' \in [Runs -> Run] /\ \A q \in Runs \ {r} : runs'[q] = runs[q]
            /\ runs'[r].pc = LookUp(items[e]) /\ runs'[r].e = e
        BY <1>0, <2>2, <3>2, RunGoes
      <3>4. RunOK(r)'
        BY <1>1, <3>1, <3>3 DEF RunOK
      <3>. QED BY <3>3, <3>4
    <2>. QED BY <1>5, <2>1, <2>2
  <1>7. PaymentTypes'
    BY <1>0, <1>1, <1>3, <1>4, <1>6 DEF PaymentTypes
  <1>8. (\A f \in flights' : FlightOK(f)') /\ OneFlight'
    BY <1>0, <1>1, <1>4, <1>6, FlightsRest
  <1>9. \A q \in Runs \ {r} : RunOK(q)'
    BY <1>1, <1>3, <1>4, <1>6, OtherRunsRest, PaymentFacts
  <1>. QED BY <1>4, <1>6, <1>7, <1>8, <1>9 DEF PaymentInv

(* A write that may be sent arrives, if at all, while its key is kept.     *)
LEMMA WriteStep ==
  ASSUME PaymentInv, NEW r \in Runs, Write(r)
  PROVE  PaymentInv'
  <1>0. /\ PaymentTypes /\ runs[r] \in Run /\ runs[r].e \in Entities /\ runs[r].pc = "write"
        /\ items[runs[r].e] \in Item /\ clock \in Nat
    BY DEF PaymentInv, PaymentTypes, Write, At, Run
  <1>1. UNCHANGED <<clock, items, lease, parked, inbox, provider, refusing, faults>>
    BY DEF Write, record
  <1>. DEFINE e == runs[r].e
  <1>2. CASE Leaves(r) /\ UNCHANGED flights
    <2>1. UNCHANGED record /\ External
      BY <1>1, <1>2 DEF record, External
    <2>. QED BY <1>0, <1>2, <2>1, RunLeaves, FreshRunOK, SilentStep
  <1>3. ASSUME NEW t \in HostTimes, MayWrite(r, e, t), flights' = flights \cup {[by |-> r, e |-> e, sent |-> clock]}, Goes(r, "await")
        PROVE  PaymentInv'
    <2>1. /\ runs' \in [Runs -> Run] /\ \A q \in Runs \ {r} : runs'[q] = runs[q]
          /\ runs'[r].pc = "await" /\ runs'[r].e = e
      <3>1. "await" \in RunPcs
        BY DEF RunPcs
      <3>. QED BY <1>0, <1>3, <3>1, RunGoes
    <2>2. PICK n \in Flight : flights' = flights \cup {n} /\ n.by = r /\ n.e = e /\ n.sent = clock
      <3>1. [by |-> r, e |-> e, sent |-> clock] \in Flight
        BY <1>0 DEF Flight
      <3>2. flights' = flights \cup {[by |-> r, e |-> e, sent |-> clock]}
        BY <1>3
      <3>. QED BY <3>1, <3>2
    <2>3. FlightOK(n)'
      <3>1. /\ items[e].at # NULL /\ t < items[e].at + ReplayWindow
            /\ t \in Nat /\ clock <= t + Skew /\ items[e].at \in Nat
        BY <1>0, <1>3, HostTimesAreLate DEF MayWrite, Item
      <3>2. clock < items[e].at + ReplayWindow + Skew /\ clock <= clock + Latency
        BY <1>0, <3>1, PaymentFacts
      <3>. QED BY <1>1, <2>1, <2>2, <3>1, <3>2 DEF FlightOK
    <2>4. \A f \in flights : f.by # r
      BY <1>0, PaymentFacts DEF PaymentInv, FlightOK
    <2>5. \A f \in flights : FlightOK(f)'
      <3>1. \A f \in flights : FlightOK(f) /\ f.by \in Runs \cup {NoRun}
        BY DEF PaymentInv, PaymentTypes, Flight
      <3>. QED BY <1>1, <2>1, <2>4, <3>1 DEF FlightOK
    <2>6. OneFlight'
      BY <2>2, <2>4 DEF OneFlight, PaymentInv
    <2>7. PaymentTypes'
      BY <1>0, <1>1, <2>1, <2>2 DEF PaymentTypes
    <2>8. \A d \in Entities : EntityOK(d)'
      BY <1>1, EntitiesRest
    <2>9. \A q \in Runs : RunOK(q)'
      BY <1>1, <2>1, OtherRunsRest, FreshRunOK
    <2>. QED BY <2>2, <2>3, <2>5, <2>6, <2>7, <2>8, <2>9 DEF PaymentInv
  <1>. QED BY <1>2, <1>3 DEF Write

(* What arrives creates the object, or finds it and its key.               *)
LEMMA ExecuteStep ==
  ASSUME PaymentInv, NEW f \in flights, Execute(f)
  PROVE  PaymentInv'
  <1>. DEFINE e == f.e
              b == f.by
              refused == ~Remembers(e) /\ e # Pay /\ refusing
  <1>0. /\ PaymentTypes /\ f \in Flight /\ e \in Entities /\ b \in Runs \cup {NoRun}
        /\ provider[e] \in Object /\ items[e] \in Item /\ clock \in Nat
        /\ runs \in [Runs -> Run] /\ provider \in [Entities -> Object]
    BY DEF PaymentInv, PaymentTypes, Flight
  <1>1. UNCHANGED <<clock, items, lease, inbox, refusing>> /\ flights' = flights \ {f}
    BY DEF Execute, record
  <1>2. EntityOK(e) /\ FlightOK(f)
    BY <1>0 DEF PaymentInv
  <1>3. PICK after \in Object :
          /\ provider' = [provider EXCEPT ![e] = after]
          /\ IF Remembers(e) \/ refused THEN after = provider[e]
             ELSE after = [count |-> provider[e].count + 1, status |-> "open", until |-> clock + Retention]
          /\ runs' = IF b = NoRun THEN runs
                     ELSE [runs EXCEPT ![b].pc = IF refused THEN "refused" ELSE "observe",
                                       ![b].seen = after.count, ![b].status = after.status]
    <2>1. [count |-> provider[e].count + 1, status |-> "open", until |-> clock + Retention] \in Object
      BY <1>0, PaymentFacts DEF Object, Known
    <2>. QED BY <1>0, <2>1 DEF Execute
  <1>4. Remembers(e) => provider[e].count = 1
    BY <1>0, <1>2 DEF Remembers, EntityOK, Object
  <1>5. ~Remembers(e) => provider[e].count = 0
    BY KeyIsRemembered
  <1>. HIDE DEF refused
  <1>6. /\ refused => after.count = 0
        /\ ~refused => after.count = 1 /\ after.status \in Known
    BY <1>0, <1>2, <1>3, <1>4, <1>5 DEF EntityOK, refused, Known, Object
  <1>7. \A d \in Entities : EntityOK(d)'
    <2>1. ASSUME NEW d \in Entities, provider'[d] = provider[d] PROVE EntityOK(d)'
      <3>1. EntityOK(d)
        BY DEF PaymentInv
      <3>. QED BY <1>1, <2>1, <3>1 DEF EntityOK
    <2>2. CASE Remembers(e) \/ refused
      BY <1>0, <1>3, <2>1, <2>2
    <2>3. CASE ~Remembers(e) /\ ~refused
      <3>1. /\ provider'[e].count = 1 /\ provider'[e].status = "open"
            /\ provider'[e].until = clock + Retention
        BY <1>0, <1>3, <1>5, <2>3
      <3>2. items[e].at # NULL /\ items[e].at <= clock /\ items[e].at \in Nat
        BY <1>0, <1>2 DEF FlightOK, EntityOK, Item
      <3>3. items[e].status \notin Terminal
        BY <1>2, <1>5, <2>3 DEF EntityOK, refused
      <3>4. items[e].id = NULL
        BY <1>2, <1>5, <2>3 DEF EntityOK
      <3>5. items[e].at + Retention <= clock + Retention
        BY <1>0, <3>2, PaymentFacts
      <3>6. EntityOK(e)'
        BY <1>1, <3>1, <3>2, <3>3, <3>4, <3>5 DEF EntityOK, Known
      <3>7. \A d \in Entities \ {e} : provider'[d] = provider[d]
        BY <1>0, <1>3
      <3>. QED BY <2>1, <3>6, <3>7
    <2>. QED BY <2>2, <2>3
  <1>8. /\ runs' \in [Runs -> Run] /\ \A q \in Runs \ {b} : runs'[q] = runs[q]
        /\ b # NoRun => /\ runs'[b].pc = (IF refused THEN "refused" ELSE "observe")
                        /\ runs'[b].e = runs[b].e
                        /\ runs'[b].seen = after.count /\ runs'[b].status = after.status
    <2>1. CASE b = NoRun
      BY <1>0, <1>3, <2>1
    <2>2. CASE b # NoRun
      <3>. DEFINE pc == IF refused THEN "refused" ELSE "observe"
                  run == [runs[b] EXCEPT !.pc = pc, !.seen = after.count, !.status = after.status]
      <3>1. b \in Runs /\ runs[b] \in Run
        BY <1>0, <2>2
      <3>2. pc \in RunPcs /\ after.count \in Nat /\ after.status \in {"none"} \cup Known
        BY <1>3 DEF RunPcs, Object
      <3>3. runs' = [runs EXCEPT ![b] = run]
        BY <1>0, <1>3, <2>2
      <3>. HIDE DEF pc
      <3>4. /\ run \in Run /\ run.pc = pc /\ run.e = runs[b].e /\ run.seen = after.count
            /\ run.status = after.status
        BY <3>1, <3>2 DEF Run
      <3>. HIDE DEF run
      <3>. QED BY <1>0, <3>1, <3>3, <3>4 DEF pc
    <2>. QED BY <2>1, <2>2
  <1>9. provider' \in [Entities -> Object]
    BY <1>0, <1>3
  <1>10. PaymentTypes'
    BY <1>0, <1>1, <1>8, <1>9 DEF PaymentTypes
  <1>11. (\A g \in flights' : FlightOK(g)') /\ OneFlight'
    <2>1. \A g \in flights : FlightOK(g) /\ g.by \in Runs \cup {NoRun}
      BY DEF PaymentInv, PaymentTypes, Flight
    <2>2. \A g \in flights' : g.by # NoRun => g.by # b
      BY <1>1 DEF PaymentInv, OneFlight
    <2>3. \A g \in flights' : FlightOK(g)'
      BY <1>1, <1>8, <2>1, <2>2 DEF FlightOK
    <2>. QED BY <1>1, <2>3 DEF PaymentInv, OneFlight
  <1>12. ASSUME NEW q \in Runs PROVE RunOK(q)'
    <2>1. RunOK(q) /\ runs[q].e \in Entities
      BY <1>0 DEF PaymentInv, Run
    <2>2. CASE q = b
      <3>1. b # NoRun /\ runs[b].e = e
        BY <1>2, <2>2, PaymentFacts DEF FlightOK
      <3>2. provider'[e] = after
        BY <1>0, <1>3
      <3>. QED BY <1>1, <1>6, <1>8, <2>2, <3>1, <3>2 DEF RunOK, refused
    <2>3. CASE q # b
      <3>1. runs'[q] = runs[q]
        BY <1>8, <2>3
      <3>2. CASE provider'[runs[q].e] = provider[runs[q].e]
        BY <1>1, <2>1, <3>1, <3>2 DEF RunOK
      <3>3. CASE provider'[runs[q].e] # provider[runs[q].e]
        <4>1. runs[q].e = e /\ ~Remembers(e) /\ ~refused
          BY <1>0, <1>3, <2>1, <3>3
        <4>2. provider[e].count = 0
          BY <1>5, <4>1
        <4>3. runs[q].pc \notin {"get", "observe", "refused"}
          BY <2>1, <4>1, <4>2 DEF RunOK, refused
        <4>. QED BY <1>1, <2>1, <3>1, <4>3 DEF RunOK
      <3>. QED BY <3>2, <3>3
    <2>. QED BY <2>2, <2>3
  <1>. QED BY <1>7, <1>10, <1>11, <1>12 DEF PaymentInv

-----------------------------------------------------------------------------
(* What a run writes down of the provider's answer.                        *)

(* Status and id of one entity change, while dates, runs' views and        *)
(* flights do not depend on them.                                          *)
LEMMA StatusSet ==
  ASSUME PaymentInv, NEW e \in Entities, NEW item \in Item, item.at = items[e].at,
         items' = [items EXCEPT ![e] = item], UNCHANGED <<clock, inbox, provider, refusing>>,
         item.id # NULL => item.id = 1 /\ provider[e].count = 1,
         item.status \in Terminal =>
           IF provider[e].count = 1 THEN item.status = provider[e].status
           ELSE item.status = "failed" /\ e # Pay /\ refusing
  PROVE  /\ items' \in [Entities -> Item]
         /\ \A d \in Entities : EntityOK(d)' /\ items'[d].at = items[d].at
  <1>0. items \in [Entities -> Item]
    BY DEF PaymentInv, PaymentTypes
  <1>1. /\ items' \in [Entities -> Item] /\ items'[e] = item
        /\ \A d \in Entities \ {e} : items'[d] = items[d]
    BY <1>0
  <1>2. ASSUME NEW d \in Entities PROVE EntityOK(d)'
    <2>1. EntityOK(d)
      BY DEF PaymentInv
    <2>. QED BY <1>1, <2>1 DEF EntityOK
  <1>. QED BY <1>1, <1>2

LEMMA ObserveSteps ==
  ASSUME PaymentInv, NEW r \in Runs, Observe(r) \/ NotCreated(r)
  PROVE  PaymentInv'
  <1>. DEFINE e == runs[r].e
  <1>0. /\ PaymentTypes /\ runs[r] \in Run /\ e \in Entities /\ RunOK(r) /\ EntityOK(e)
        /\ runs[r].pc \in {"observe", "refused"} /\ items[e] \in Item
        /\ items \in [Entities -> Item] /\ lease \in [by : Runs \cup {NoRun}, until : Nat]
    BY DEF PaymentInv, PaymentTypes, Observe, NotCreated, At, Run
  <1>1. UNCHANGED <<clock, inbox, flights, provider, refusing>>
    BY DEF Observe, NotCreated, External
  <1>2. CASE Leaves(r) /\ UNCHANGED <<items, lease>>
    <2>1. UNCHANGED record /\ External
      BY <1>2 DEF Observe, NotCreated, record, External
    <2>. QED BY <1>0, <1>2, <2>1, RunLeaves, FreshRunOK, SilentStep
  <1>3. ASSUME NEW t \in HostTimes, NEW item \in Item, NEW todo \in SUBSET Refunds,
               lease' = [lease EXCEPT !.until = t + LeaseMs],
               items' = [items EXCEPT ![e] = item], item.at = items[e].at,
               item.id # NULL => item.id = 1 /\ provider[e].count = 1,
               item.status \in Terminal =>
                 IF provider[e].count = 1 THEN item.status = provider[e].status
                 ELSE item.status = "failed" /\ e # Pay /\ refusing,
               Continues(r, todo, runs[r].ok)
        PROVE  PaymentInv'
    <2>1. /\ items' \in [Entities -> Item]
          /\ \A d \in Entities : EntityOK(d)' /\ items'[d].at = items[d].at
      <3>. HIDE DEF e
      <3>. QED BY <1>0, <1>1, <1>3, StatusSet
    <2>2. /\ runs' \in [Runs -> Run] /\ \A q \in Runs \ {r} : runs'[q] = runs[q]
          /\ runs'[r].pc = "release" \/ (runs'[r].pc = "attempt" /\ runs'[r].e # Pay)
      <3>1. runs[r].ok \in BOOLEAN
        BY <1>0 DEF Run
      <3>. QED BY <1>0, <1>3, <3>1, RunContinues
    <2>3. lease' \in [by : Runs \cup {NoRun}, until : Nat] /\ lease'.by = lease.by
      BY <1>0, <1>3, HostTimesAreLate, PaymentFacts
    <2>4. PaymentTypes'
      BY <1>0, <1>1, <2>1, <2>2, <2>3 DEF PaymentTypes
    <2>5. (\A f \in flights' : FlightOK(f)') /\ OneFlight'
      BY <1>0, <1>1, <2>1, <2>2, FlightsRest
    <2>6. \A q \in Runs : RunOK(q)'
      BY <1>1, <2>1, <2>2, <2>3, OtherRunsRest, FreshRunOK, PaymentFacts
    <2>. QED BY <2>1, <2>4, <2>5, <2>6 DEF PaymentInv
  <1>4. CASE Observe(r)
    <2>1. /\ runs[r].seen = 1 /\ provider[e].count = 1 /\ runs[r].status \in Known
          /\ runs[r].status \in Terminal => provider[e].status = runs[r].status
      BY <1>0, <1>4 DEF Observe, At, RunOK
    <2>2. ASSUME NEW t \in HostTimes, lease' = [lease EXCEPT !.until = t + LeaseMs],
                 items' = [items EXCEPT ![e].id = runs[r].seen, ![e].status = runs[r].status],
                 Continues(r, IF e = Pay THEN ToReconcile ELSE runs[r].todo, runs[r].ok)
          PROVE  PaymentInv'
      <3>. DEFINE item == [items[e] EXCEPT !.id = runs[r].seen, !.status = runs[r].status]
      <3>0. runs[r].seen \in Nat /\ runs[r].status \in {"none", "unknown"} \cup Known
        BY <2>1
      <3>1. item \in Item /\ item.at = items[e].at /\ item.id = 1 /\ item.status = runs[r].status
        <4>1. item.at = items[e].at /\ item.id = 1 /\ item.status = runs[r].status
          BY <1>0, <2>1 DEF Item
        <4>2. item \in Item
          BY <1>0, <3>0 DEF Item
        <4>. QED BY <4>1, <4>2
      <3>2. items' = [items EXCEPT ![e] = item]
        BY <1>0, <2>2
      <3>3. (IF e = Pay THEN ToReconcile ELSE runs[r].todo) \in SUBSET Refunds
        BY <1>0 DEF ToReconcile, Run
      <3>. HIDE DEF item
      <3>4. item.id # NULL => item.id = 1 /\ provider[e].count = 1
        BY <2>1, <3>1
      <3>5. item.status \in Terminal =>
              IF provider[e].count = 1 THEN item.status = provider[e].status
              ELSE item.status = "failed" /\ e # Pay /\ refusing
        BY <2>1, <3>1
      <3>6. PICK todo \in SUBSET Refunds : Continues(r, todo, runs[r].ok)
        BY <2>2, <3>3
      <3>. QED BY <1>3, <2>2, <3>1, <3>2, <3>4, <3>5, <3>6
    <2>. QED BY <1>2, <1>4, <2>2 DEF Observe
  <1>5. CASE NotCreated(r)
    <2>1. e # Pay /\ refusing /\ provider[e].count = 0
      BY <1>0, <1>5 DEF NotCreated, At, RunOK
    <2>2. ASSUME NEW t \in HostTimes, lease' = [lease EXCEPT !.until = t + LeaseMs], items[e].id = NULL,
                 items' = [items EXCEPT ![e].status = "failed"],
                 Continues(r, runs[r].todo, runs[r].ok)
          PROVE  PaymentInv'
      <3>. DEFINE item == [items[e] EXCEPT !.status = "failed"]
      <3>1. item \in Item /\ item.at = items[e].at /\ item.id = NULL /\ item.status = "failed"
        BY <1>0, <2>2 DEF Item, Known, Terminal
      <3>2. items' = [items EXCEPT ![e] = item]
        BY <1>0, <2>2
      <3>3. runs[r].todo \in SUBSET Refunds
        BY <1>0 DEF Run
      <3>. HIDE DEF item
      <3>4. item.id # NULL => item.id = 1 /\ provider[e].count = 1
        BY <2>1, <3>1
      <3>5. item.status \in Terminal =>
              IF provider[e].count = 1 THEN item.status = provider[e].status
              ELSE item.status = "failed" /\ e # Pay /\ refusing
        BY <2>1, <3>1
      <3>6. PICK todo \in SUBSET Refunds : Continues(r, todo, runs[r].ok)
        BY <2>2, <3>3
      <3>. QED BY <1>3, <2>2, <3>1, <3>2, <3>4, <3>5, <3>6
    <2>. QED BY <1>2, <1>5, <2>2 DEF NotCreated
  <1>. QED BY <1>4, <1>5

-----------------------------------------------------------------------------
(* A run ends: by itself, by a failure, or with its process.               *)

LEMMA ReleaseStep ==
  ASSUME PaymentInv, NEW r \in Runs, Release(r)
  PROVE  PaymentInv'
  <1>0. /\ PaymentTypes /\ runs[r] \in Run /\ runs[r].pc = "release"
        /\ lease \in [by : Runs \cup {NoRun}, until : Nat]
    BY DEF PaymentInv, PaymentTypes, Release, At
  <1>1. UNCHANGED <<clock, items, flights, provider, refusing>>
    BY DEF Release
  <1>2. /\ runs' \in [Runs -> Run] /\ \A q \in Runs \ {r} : runs'[q] = runs[q]
        /\ runs'[r].pc \in {"release", "idle"}
    BY <1>0, RunLeaves DEF Release
  <1>3. lease' \in [by : Runs \cup {NoRun}, until : Nat] /\ lease'.by \in {lease.by, NoRun}
    BY <1>0 DEF Release, NULL
  <1>4. inbox' \in [Entities -> {"unseen", "pending", "done"}]
        /\ \A e \in Entities : inbox'[e] \in {inbox[e], "done"}
    BY <1>0 DEF Release, PaymentTypes
  <1>5. PaymentTypes'
    BY <1>0, <1>1, <1>2, <1>3, <1>4 DEF PaymentTypes
  <1>6. ASSUME NEW e \in Entities PROVE EntityOK(e)'
    <2>1. EntityOK(e) /\ (inbox'[e] = "pending" => inbox[e] = "pending")
      BY <1>4 DEF PaymentInv
    <2>. QED BY <1>1, <2>1 DEF EntityOK
  <1>7. (\A f \in flights' : FlightOK(f)') /\ OneFlight'
    BY <1>0, <1>1, <1>2, FlightsRest
  <1>8. \A q \in Runs \ {r} : RunOK(q)'
    BY <1>1, <1>2, <1>3, OtherRunsRest, PaymentFacts
  <1>9. RunOK(r)'
    BY <1>2, FreshRunOK
  <1>. QED BY <1>5, <1>6, <1>7, <1>8, <1>9 DEF PaymentInv

LEMMA EndSteps ==
  ASSUME PaymentInv, NEW r \in Runs, Fail(r) \/ Die(r)
  PROVE  PaymentInv'
  <1>0. PaymentTypes /\ flights \subseteq Flight /\ flights' = Orphaned(r)
    BY DEF PaymentInv, PaymentTypes, Fail, Die
  <1>1. UNCHANGED <<clock, items, lease, inbox, provider, refusing>>
    BY DEF Fail, Die, record
  <1>2. /\ runs' \in [Runs -> Run] /\ \A q \in Runs \ {r} : runs'[q] = runs[q]
        /\ runs'[r].pc \in {"release", "idle"}
    BY <1>0, RunLeaves DEF Fail, Die
  <1>3. \A g \in flights' : \E f \in flights :
          /\ g = [f EXCEPT !.by = IF f.by = r THEN NoRun ELSE f.by]
          /\ g \in Flight /\ g.e = f.e /\ g.sent = f.sent
          /\ g.by = IF f.by = r THEN NoRun ELSE f.by
    <2>1. \A f \in flights : LET g == [f EXCEPT !.by = IF f.by = r THEN NoRun ELSE f.by]
                             IN /\ g \in Flight /\ g.e = f.e /\ g.sent = f.sent
                                /\ g.by = IF f.by = r THEN NoRun ELSE f.by
      BY <1>0 DEF Flight
    <2>. QED BY <1>0, <2>1, ZenonT(60) DEF Orphaned
  <1>4. PaymentTypes'
    BY <1>0, <1>1, <1>2, <1>3 DEF PaymentTypes
  <1>5. \A e \in Entities : EntityOK(e)'
    BY <1>1, EntitiesRest
  <1>6. ASSUME NEW g \in flights' PROVE FlightOK(g)'
    <2>1. PICK f \in flights : g.e = f.e /\ g.sent = f.sent /\ g.by = IF f.by = r THEN NoRun ELSE f.by
      BY <1>3
    <2>2. FlightOK(f) /\ f.by \in Runs \cup {NoRun}
      BY <1>0 DEF PaymentInv, Flight
    <2>. QED BY <1>1, <1>2, <2>1, <2>2 DEF FlightOK
  <1>7. OneFlight'
    <2>1. SUFFICES ASSUME NEW g \in flights', NEW h \in flights', g.by = h.by, g.by # NoRun
                   PROVE  g = h
      BY DEF OneFlight
    <2>2. PICK f \in flights : /\ g = [f EXCEPT !.by = IF f.by = r THEN NoRun ELSE f.by]
                               /\ g.by = IF f.by = r THEN NoRun ELSE f.by
      BY <1>3
    <2>3. PICK k \in flights : /\ h = [k EXCEPT !.by = IF k.by = r THEN NoRun ELSE k.by]
                               /\ h.by = IF k.by = r THEN NoRun ELSE k.by
      BY <1>3
    <2>4. f = k
      BY <2>1, <2>2, <2>3 DEF PaymentInv, OneFlight
    <2>. QED BY <2>2, <2>3, <2>4
  <1>8. \A q \in Runs : RunOK(q)'
    BY <1>1, <1>2, OtherRunsRest, FreshRunOK
  <1>. QED BY <1>4, <1>5, <1>6, <1>7, <1>8 DEF PaymentInv

-----------------------------------------------------------------------------
(* Callers, events, the provider and time: no run moves.                   *)

LEMMA RunsStay ==
  ASSUME PaymentInv, UNCHANGED <<lease, runs, flights>>, clock' = clock,
         refusing => refusing',
         \A e \in Entities : /\ items'[e].at = items[e].at
                             /\ provider'[e].count = provider[e].count
                             /\ provider'[e].status = provider[e].status \/ provider[e].status = "open"
  PROVE  (\A f \in flights' : FlightOK(f)') /\ OneFlight' /\ \A r \in Runs : RunOK(r)'
  <1>1. ASSUME NEW f \in flights PROVE FlightOK(f)'
    <2>1. f.e \in Entities /\ FlightOK(f)
      BY DEF PaymentInv, PaymentTypes, Flight
    <2>. QED BY <2>1 DEF FlightOK
  <1>2. ASSUME NEW r \in Runs PROVE RunOK(r)'
    <2>1. runs[r].e \in Entities /\ RunOK(r) /\ Pay \in Entities
      BY PaymentFacts DEF PaymentInv, PaymentTypes, Run
    <2>. QED BY <2>1 DEF RunOK, Terminal
  <1>. QED BY <1>1, <1>2 DEF PaymentInv, OneFlight

LEMMA RequestSteps ==
  ASSUME PaymentInv, Create \/ (\E k \in Refunds : RequestRefund(k)) \/ (\E e \in Entities : Attach(e))
  PROVE  PaymentInv'
  <1>0. PaymentTypes /\ items \in [Entities -> Item] /\ \A e \in Entities : EntityOK(e)
    BY DEF PaymentInv, PaymentTypes
  <1>1. UNCHANGED <<clock, lease, inbox, runs, flights, provider, refusing>>
    BY DEF Create, RequestRefund, Attach
  <1>2. PICK e \in Entities : \/ items[e].status = "none" /\ items' = [items EXCEPT ![e].status = "unknown"]
                              \/ inbox[e] = "pending" /\ items' = [items EXCEPT ![e].id = 1]
    BY PaymentFacts DEF Create, RequestRefund, Attach
  <1>3. \E item \in Item : /\ items' = [items EXCEPT ![e] = item] /\ item.at = items[e].at
                           /\ item.id # NULL => item.id = 1 /\ provider[e].count = 1
                           /\ item.status \in Terminal => item.status = items[e].status
    <2>1. CASE items[e].status = "none" /\ items' = [items EXCEPT ![e].status = "unknown"]
      <3>1. /\ [items[e] EXCEPT !.status = "unknown"] \in Item
            /\ items' = [items EXCEPT ![e] = [items[e] EXCEPT !.status = "unknown"]]
        BY <1>0, <2>1 DEF Item
      <3>. QED BY <1>0, <3>1 DEF EntityOK, Terminal, Item
    <2>2. CASE inbox[e] = "pending" /\ items' = [items EXCEPT ![e].id = 1]
      <3>1. /\ [items[e] EXCEPT !.id = 1] \in Item
            /\ items' = [items EXCEPT ![e] = [items[e] EXCEPT !.id = 1]]
        BY <1>0, <2>2 DEF Item
      <3>. QED BY <1>0, <2>2, <3>1 DEF EntityOK, Item
    <2>. QED BY <1>2, <2>1, <2>2
  <1>4. /\ items' \in [Entities -> Item]
        /\ \A d \in Entities : EntityOK(d)' /\ items'[d].at = items[d].at
    <2>1. EntityOK(e)
      BY <1>0
    <2>. QED BY ZenonT(60), <1>1, <1>3, <2>1, StatusSet DEF EntityOK
  <1>5. (\A f \in flights' : FlightOK(f)') /\ OneFlight' /\ \A r \in Runs : RunOK(r)'
    BY <1>1, <1>4, RunsStay
  <1>. QED BY <1>0, <1>1, <1>4, <1>5 DEF PaymentInv, PaymentTypes

LEMMA ProviderSteps ==
  ASSUME PaymentInv, Refuse \/ \E e \in Entities : Receive(e) \/ \E s \in Terminal : Outcome(e, s)
  PROVE  PaymentInv'
  <1>0. PaymentTypes /\ provider \in [Entities -> Object] /\ \A e \in Entities : EntityOK(e)
    BY DEF PaymentInv, PaymentTypes
  <1>1. UNCHANGED <<clock, items, lease, runs, flights>> /\ (refusing => refusing') /\ refusing' \in BOOLEAN
    BY <1>0 DEF Refuse, Receive, Outcome, record, PaymentTypes
  <1>2. /\ provider' \in [Entities -> Object]
        /\ \A e \in Entities :
             /\ provider'[e].count = provider[e].count /\ provider'[e].until = provider[e].until
             /\ \/ provider'[e].status = provider[e].status
                \/ provider[e].status = "open" /\ provider'[e].status \in Terminal
    <2>1. CASE UNCHANGED provider
      BY <1>0, <2>1
    <2>2. ASSUME NEW d \in Entities, NEW s \in Terminal, Outcome(d, s)
          PROVE  <1>2!1 /\ <1>2!2
      <3>1. provider[d].status = "open" /\ provider' = [provider EXCEPT ![d].status = s]
        BY <2>2 DEF Outcome
      <3>2. /\ [provider[d] EXCEPT !.status = s] \in Object
            /\ provider' = [provider EXCEPT ![d] = [provider[d] EXCEPT !.status = s]]
        BY <1>0, <3>1 DEF Object, Known
      <3>. QED BY <1>0, <3>1, <3>2 DEF Object
    <2>. QED BY <2>1, <2>2 DEF Refuse, Receive
  <1>3. /\ inbox' \in [Entities -> {"unseen", "pending", "done"}]
        /\ \A e \in Entities : inbox'[e] = "pending" => provider[e].count = 1
    <2>1. \A e \in Entities : provider[e].count > 0 => provider[e].count = 1
      BY <1>0 DEF EntityOK
    <2>2. inbox' = inbox \/ \E e \in Entities : provider[e].count > 0 /\ inbox' = [inbox EXCEPT ![e] = "pending"]
      BY DEF Refuse, Receive, Outcome
    <2>. QED BY <1>0, <2>1, <2>2 DEF EntityOK, PaymentTypes
  <1>4. ASSUME NEW e \in Entities PROVE EntityOK(e)'
    <2>1. EntityOK(e)
      BY <1>0
    <2>2. provider[e].count = 1 /\ items[e].status \in Terminal => provider[e].status # "open"
      BY <2>1 DEF EntityOK, Terminal
    <2>. QED BY <1>1, <1>2, <1>3, <2>1, <2>2 DEF EntityOK, Known
  <1>5. (\A f \in flights' : FlightOK(f)') /\ OneFlight' /\ \A r \in Runs : RunOK(r)'
    BY <1>1, <1>2, RunsStay
  <1>. QED BY <1>0, <1>1, <1>2, <1>3, <1>4, <1>5 DEF PaymentInv, PaymentTypes

LEMMA TickStep ==
  ASSUME PaymentInv, Tick
  PROVE  PaymentInv'
  <1>0. /\ PaymentTypes /\ clock \in Nat /\ clock > Skew /\ clock' = clock + 1
        /\ UNCHANGED <<items, lease, inbox, runs, flights, provider, refusing>>
    BY DEF PaymentInv, PaymentTypes, Tick, record
  <1>1. PaymentTypes'
    BY <1>0, PaymentFacts DEF PaymentTypes
  <1>2. ASSUME NEW e \in Entities PROVE EntityOK(e)'
    <2>1. EntityOK(e) /\ items[e].at \in Nat
      BY <1>0 DEF PaymentInv, PaymentTypes, Item
    <2>2. items[e].at <= clock + 1
      BY <1>0, <2>1 DEF EntityOK
    <2>. QED BY <1>0, <2>1, <2>2 DEF EntityOK
  <1>3. ASSUME NEW f \in flights PROVE FlightOK(f)'
    <2>1. FlightOK(f) /\ f.sent \in Nat /\ clock < f.sent + Latency
      BY DEF PaymentInv, PaymentTypes, Flight, Tick
    <2>2. clock + 1 <= f.sent + Latency
      BY <1>0, <2>1, PaymentFacts
    <2>. QED BY <1>0, <2>1, <2>2 DEF FlightOK
  <1>4. \A r \in Runs : RunOK(r)'
    BY <1>0 DEF PaymentInv, RunOK
  <1>. QED BY <1>0, <1>1, <1>2, <1>3, <1>4 DEF PaymentInv, OneFlight

-----------------------------------------------------------------------------

THEOREM PaymentInvariant == Spec => []PaymentInv
  <1>1. Init => PaymentInv
    BY PaymentInit
  <1>2. PaymentInv /\ [Next]_vars => PaymentInv'
    <2>1. SUFFICES ASSUME PaymentInv, [Next]_vars PROVE PaymentInv'
      OBVIOUS
    <2>2. CASE UNCHANGED vars
      BY <2>1, <2>2 DEF vars, record, PaymentInv, PaymentTypes, EntityOK, FlightOK, OneFlight, RunOK
    <2>3. CASE Tick
      BY <2>1, <2>3, TickStep
    <2>4. CASE Create \/ (\E k \in Refunds : RequestRefund(k)) \/ (\E e \in Entities : Attach(e))
      BY <2>1, <2>4, RequestSteps
    <2>5. CASE Refuse \/ \E e \in Entities : Receive(e) \/ \E s \in Terminal : Outcome(e, s)
      BY <2>1, <2>5, ProviderSteps
    <2>6. CASE Deliver
      BY <2>1, <2>6, ExecuteStep DEF Deliver
    <2>7. ASSUME NEW r \in Runs, RunStep(r) \/ Fail(r) \/ Die(r) PROVE PaymentInv'
      BY <2>1, <2>7, AcquireStep, AttemptSteps, AskingSteps, WriteStep, ObserveSteps, ReleaseStep, EndSteps
      DEF RunStep
    <2>. QED BY <2>1, <2>2, <2>3, <2>4, <2>5, <2>6, <2>7 DEF Next
  <1>. QED BY <1>1, <1>2, PTL DEF Spec

(* No object is created twice at the provider, for any number of runs,     *)
(* refunds and failures: beforeWrite's window, the latency and the skew    *)
(* together stay below the retention of the idempotency key.               *)
THEOREM NothingMovesTwice == Spec => []MovedOnce
  <1>1. PaymentInv => MovedOnce
    BY DEF PaymentInv, EntityOK, MovedOnce
  <1>. QED BY <1>1, PaymentInvariant, PTL

(* What run() records as final is so at the provider, for ever.            *)
THEOREM FinalIsFinal == Spec => []TerminalIsTrue
  <1>1. PaymentInv => TerminalIsTrue
    BY DEF PaymentInv, EntityOK, TerminalIsTrue
  <1>. QED BY <1>1, PaymentInvariant, PTL

-----------------------------------------------------------------------------
(***************************************************************************)
(* Sums of amounts                                                         *)
(*                                                                         *)
(* A sum over a set is a CHOOSE'n function of its subsets.  That it is the *)
(* number of the units of money in the amounts is shown by a smallest      *)
(* counterexample, and what one expects of a sum follows from what is      *)
(* known of cardinalities.                                                 *)
(***************************************************************************)
LEMMA LeastNatural ==
  ASSUME NEW T \in SUBSET Nat, T # {}
  PROVE  \E x \in T : \A y \in T : x <= y
  <1>1. PICK x \in T : \A y \in T : ~(<<y, x>> \in OpToRel(<, Nat))
    BY NatLessThanWellFounded, WFMin
  <1>2. OpToRel(<, Nat) = {ss \in Nat \X Nat : ss[1] < ss[2]}
    BY Zenon DEF OpToRel
  <1>3. PICK R : R = OpToRel(<, Nat)
    OBVIOUS
  <1>4. \A y \in T : ~(<<y, x>> \in R)
    BY Zenon, <1>1, <1>3
  <1>5. R = {ss \in Nat \X Nat : ss[1] < ss[2]}
    BY Zenon, <1>2, <1>3
  <1>6. ASSUME NEW y \in T PROVE x <= y
    <2>1. <<y, x>> \notin {ss \in Nat \X Nat : ss[1] < ss[2]}
      BY <1>4, <1>5
    <2>. QED BY <2>1
  <1>. QED BY <1>6

UnitsOf(k) == {k} \X (1..RefundAmount[k])
Units(ks) == UNION {UnitsOf(k) : k \in ks}

LEMMA UnitsOfOne ==
  ASSUME NEW k \in Refunds
  PROVE  IsFiniteSet(UnitsOf(k)) /\ Cardinality(UnitsOf(k)) = RefundAmount[k]
  <1>1. RefundAmount[k] \in Nat
    BY PaymentAssumption
  <1>2. IsFiniteSet(1..RefundAmount[k]) /\ Cardinality(1..RefundAmount[k]) = RefundAmount[k]
    BY <1>1, FS_Interval
  <1>3. IsFiniteSet({k}) /\ Cardinality({k}) = 1
    BY FS_Singleton
  <1>4. IsFiniteSet(UnitsOf(k)) /\ Cardinality(UnitsOf(k)) = Cardinality({k}) * Cardinality(1..RefundAmount[k])
    BY <1>2, <1>3, FS_Product DEF UnitsOf
  <1>. QED BY <1>1, <1>2, <1>3, <1>4

LEMMA UnitsFinite ==
  ASSUME NEW S \in SUBSET Refunds, IsFiniteSet(S)
  PROVE  IsFiniteSet(Units(S)) /\ Cardinality(Units(S)) \in Nat
  <1>. DEFINE f == [k \in S |-> UnitsOf(k)]
  <1>1. f \in Surjection(S, {UnitsOf(k) : k \in S})
    BY DEF Surjection
  <1>2. IsFiniteSet({UnitsOf(k) : k \in S})
    BY <1>1, FS_Surjection
  <1>3. \A T \in {UnitsOf(k) : k \in S} : IsFiniteSet(T)
    BY UnitsOfOne
  <1>4. IsFiniteSet(Units(S))
    BY <1>2, <1>3, FS_UNION DEF Units
  <1>. QED BY <1>4, FS_CardinalityType

(* The units of more refunds are more.                                     *)
LEMMA UnitsGrow ==
  ASSUME NEW S \in SUBSET Refunds, IsFiniteSet(S), NEW s \in SUBSET S
  PROVE  Cardinality(Units(s)) <= Cardinality(Units(S))
  <1>1. Units(s) \in SUBSET Units(S)
    BY DEF Units
  <1>. QED BY <1>1, UnitsFinite, FS_Subset

LEMMA UnitsAdd ==
  ASSUME NEW S \in SUBSET Refunds, IsFiniteSet(S), NEW k \in Refunds \ S
  PROVE  Cardinality(Units(S \cup {k})) = RefundAmount[k] + Cardinality(Units(S))
  <1>1. Units(S \cup {k}) = Units(S) \cup UnitsOf(k)
    BY DEF Units
  <1>2. Units(S) \cap UnitsOf(k) = {}
    BY DEF Units, UnitsOf
  <1>3. IsFiniteSet(Units(S)) /\ Cardinality(Units(S)) \in Nat
    BY UnitsFinite
  <1>4. IsFiniteSet(UnitsOf(k)) /\ Cardinality(UnitsOf(k)) = RefundAmount[k] /\ RefundAmount[k] \in Nat
    BY UnitsOfOne, PaymentAssumption
  <1>5. Cardinality(Units(S) \cup UnitsOf(k)) =
          Cardinality(Units(S)) + Cardinality(UnitsOf(k)) - Cardinality(Units(S) \cap UnitsOf(k))
    BY <1>3, <1>4, FS_Union
  <1>6. Cardinality(Units(S) \cap UnitsOf(k)) = 0
    BY <1>2, FS_EmptySet
  <1>7. Cardinality(Units(S \cup {k})) = Cardinality(Units(S)) + RefundAmount[k] - 0
    BY Zenon, <1>1, <1>4, <1>5, <1>6
  <1>. QED BY <1>3, <1>4, <1>7

LEMMA NoUnits == Units({}) = {} /\ Cardinality(Units({})) = 0
  BY FS_EmptySet DEF Units

Elem(s) == CHOOSE x \in s : TRUE

LEMMA UnitsRemove ==
  ASSUME NEW S \in SUBSET Refunds, IsFiniteSet(S), S # {}
  PROVE  /\ Elem(S) \in S
         /\ Cardinality(Units(S)) = RefundAmount[Elem(S)] + Cardinality(Units(S \ {Elem(S)}))
  <1>1. PICK k \in S : k = Elem(S)
    BY DEF Elem
  <1>2. IsFiniteSet(S \ {k}) /\ (S \ {k}) \cup {k} = S
    BY FS_RemoveElement
  <1>3. S \ {k} \in SUBSET Refunds /\ k \in Refunds \ (S \ {k})
    OBVIOUS
  <1>4. Cardinality(Units((S \ {k}) \cup {k})) = RefundAmount[k] + Cardinality(Units(S \ {k}))
    BY <1>2, <1>3, UnitsAdd
  <1>. QED BY <1>1, <1>2, <1>4

(* A function that adds up amounts counts units.                           *)
LEMMA SumIsUnits ==
  ASSUME NEW S \in SUBSET Refunds, IsFiniteSet(S), NEW h,
         \A s \in SUBSET S : h[s] = IF s = {} THEN 0 ELSE RefundAmount[Elem(s)] + h[s \ {Elem(s)}]
  PROVE  h[S] = Cardinality(Units(S))
  <1>1. \A s \in SUBSET S : s \in SUBSET Refunds /\ IsFiniteSet(s) /\ Cardinality(s) \in Nat
    BY FS_Subset, FS_CardinalityType
  <1>. DEFINE Wrong == {s \in SUBSET S : h[s] # Cardinality(Units(s))}
              T == {Cardinality(s) : s \in Wrong}
  <1>2. SUFFICES ASSUME T # {} PROVE FALSE
    OBVIOUS
  <1>3. T \in SUBSET Nat
    BY <1>1
  <1>4. PICK n \in T : \A m \in T : n <= m
    BY <1>2, <1>3, LeastNatural
  <1>5. PICK s \in SUBSET S : h[s] # Cardinality(Units(s)) /\ n = Cardinality(s)
    BY <1>4
  <1>6. CASE s = {}
    BY <1>5, <1>6, NoUnits
  <1>7. CASE s # {}
    <2>1. /\ Elem(s) \in s
          /\ Cardinality(Units(s)) = RefundAmount[Elem(s)] + Cardinality(Units(s \ {Elem(s)}))
      BY <1>1, <1>7, UnitsRemove
    <2>2. PICK q \in SUBSET S : q = s \ {Elem(s)}
      OBVIOUS
    <2>3. Cardinality(q) = n - 1
      BY <1>1, <1>5, <2>1, <2>2, FS_RemoveElement
    <2>4. h[q] = Cardinality(Units(q))
      <3>1. SUFFICES ASSUME q \in Wrong PROVE FALSE
        OBVIOUS
      <3>2. Cardinality(q) \in T
        BY <3>1
      <3>3. n <= Cardinality(q) /\ n \in Nat
        BY <1>3, <1>4, <3>2
      <3>. QED BY <2>3, <3>3
    <2>. QED BY <1>5, <1>7, <2>1, <2>2, <2>4
  <1>. QED BY <1>6, <1>7

(* The reserved amounts, as refund() adds them up.                         *)
Added(S) == CHOOSE iter : iter = [s \in SUBSET S |->
              IF s = {} THEN 0 ELSE RefundAmount[CHOOSE x \in s : TRUE] + iter[s \ {CHOOSE x \in s : TRUE}]]

LEMMA AmountsAdded ==
  ASSUME NEW S
  PROVE  MapThenSumSet(LAMBDA i : RefundAmount[i], S) = Added(S)[S]
  BY Zenon DEF MapThenSumSet, MapThenFoldSet, Added

Adds(h, s) == IF s = {} THEN 0 ELSE RefundAmount[Elem(s)] + h[s \ {Elem(s)}]

LEMMA AmountsAreUnits ==
  ASSUME NEW S \in SUBSET Refunds, IsFiniteSet(S)
  PROVE  MapThenSumSet(LAMBDA i : RefundAmount[i], S) = Cardinality(Units(S))
  <1>1. PICK g : g = [s \in SUBSET S |-> Cardinality(Units(s))]
    OBVIOUS
  <1>2. g = [s \in SUBSET S |-> Adds(g, s)]
    <2>1. ASSUME NEW s \in SUBSET S PROVE g[s] = Adds(g, s)
      <3>1. s \in SUBSET Refunds /\ IsFiniteSet(s)
        BY FS_Subset
      <3>2. CASE s = {}
        BY <1>1, <3>2, NoUnits DEF Adds
      <3>3. CASE s # {}
        <4>1. g[s] = RefundAmount[Elem(s)] + Cardinality(Units(s \ {Elem(s)}))
          BY <1>1, <3>1, <3>3, UnitsRemove
        <4>2. s \ {Elem(s)} \in SUBSET S
          OBVIOUS
        <4>. QED BY <1>1, <3>3, <4>1, <4>2 DEF Adds
      <3>. QED BY <3>2, <3>3
    <2>. QED BY <1>1, <2>1
  <1>3. Added(S) = CHOOSE iter : iter = [s \in SUBSET S |-> Adds(iter, s)]
    BY Zenon DEF Added, Adds, Elem
  <1>4. PICK h : h = Added(S)
    OBVIOUS
  <1>5. h = [s \in SUBSET S |-> Adds(h, s)]
    BY Zenon, <1>2, <1>3, <1>4
  <1>6. \A s \in SUBSET S : h[s] = Adds(h, s)
    BY <1>5
  <1>7. \A s \in SUBSET S : h[s] = IF s = {} THEN 0 ELSE RefundAmount[Elem(s)] + h[s \ {Elem(s)}]
    BY <1>6 DEF Adds
  <1>8. h[S] = Cardinality(Units(S))
    BY <1>7, SumIsUnits
  <1>. QED BY Zenon, <1>4, <1>8, AmountsAdded

(* What was refunded, as far as each refund was created once.              *)
Created(S) == CHOOSE iter : iter = [s \in SUBSET S |->
                IF s = {} THEN 0
                ELSE provider[CHOOSE x \in s : TRUE].count * RefundAmount[CHOOSE x \in s : TRUE]
                       + iter[s \ {CHOOSE x \in s : TRUE}]]

LEMMA MoneyCreated ==
  ASSUME NEW S
  PROVE  MapThenSumSet(LAMBDA k : provider[k].count * RefundAmount[k], S) = Created(S)[S]
  BY Zenon DEF MapThenSumSet, MapThenFoldSet, Created

Creates(h, s) == IF s = {} THEN 0
                 ELSE provider[Elem(s)].count * RefundAmount[Elem(s)] + h[s \ {Elem(s)}]

LEMMA MoneyIsUnits ==
  ASSUME NEW S \in SUBSET Refunds, IsFiniteSet(S), \A k \in S : provider[k].count = 1
  PROVE  MapThenSumSet(LAMBDA k : provider[k].count * RefundAmount[k], S) = Cardinality(Units(S))
  <1>0. ASSUME NEW h, NEW s \in SUBSET S PROVE Creates(h, s) = Adds(h, s)
    <2>1. CASE s = {}
      BY <2>1 DEF Creates, Adds
    <2>2. CASE s # {}
      <3>1. PICK k \in S : k = Elem(s)
        BY <2>2 DEF Elem
      <3>2. RefundAmount[k] \in Nat /\ provider[k].count = 1
        BY PaymentAssumption
      <3>3. provider[k].count * RefundAmount[k] = RefundAmount[k]
        BY <3>2
      <3>. QED BY <2>2, <3>1, <3>3 DEF Creates, Adds
    <2>. QED BY <2>1, <2>2
  <1>1. PICK g : g = [s \in SUBSET S |-> Cardinality(Units(s))]
    OBVIOUS
  <1>2. g = [s \in SUBSET S |-> Creates(g, s)]
    <2>1. ASSUME NEW s \in SUBSET S PROVE g[s] = Creates(g, s)
      <3>1. s \in SUBSET Refunds /\ IsFiniteSet(s)
        BY FS_Subset
      <3>2. CASE s = {}
        BY <1>1, <3>2, NoUnits DEF Creates
      <3>3. CASE s # {}
        <4>1. g[s] = RefundAmount[Elem(s)] + Cardinality(Units(s \ {Elem(s)}))
          BY <1>1, <3>1, <3>3, UnitsRemove
        <4>2. s \ {Elem(s)} \in SUBSET S
          OBVIOUS
        <4>3. g[s] = Adds(g, s)
          BY <1>1, <3>3, <4>1, <4>2 DEF Adds
        <4>. QED BY <1>0, <4>3
      <3>. QED BY <3>2, <3>3
    <2>. QED BY <1>1, <2>1
  <1>3. Created(S) = CHOOSE iter : iter = [s \in SUBSET S |-> Creates(iter, s)]
    BY Zenon DEF Created, Creates, Elem
  <1>4. PICK h : h = Created(S)
    OBVIOUS
  <1>5. h = [s \in SUBSET S |-> Creates(h, s)]
    BY Zenon, <1>2, <1>3, <1>4
  <1>6. \A s \in SUBSET S : h[s] = Creates(h, s)
    BY <1>5
  <1>7. \A s \in SUBSET S : h[s] = IF s = {} THEN 0 ELSE RefundAmount[Elem(s)] + h[s \ {Elem(s)}]
    BY <1>0, <1>6 DEF Adds
  <1>8. h[S] = Cardinality(Units(S))
    BY <1>7, SumIsUnits
  <1>. QED BY Zenon, <1>4, <1>8, MoneyCreated

-----------------------------------------------------------------------------
(***************************************************************************)
(* Reservations                                                            *)
(***************************************************************************)
Requested == {k \in Refunds : items[k].status # "none"}

(* Only requested refunds are ever attempted, and the reserved amounts     *)
(* never exceed the charge: an amount is reserved from the request until   *)
(* the provider's own final failure.                                       *)
RefundInv ==
  /\ IsFiniteSet(Requested)
  /\ Cardinality(Units(Reserved)) <= Amount
  /\ \A k \in Refunds : items[k].at # NULL => k \in Requested
  /\ \A r \in Runs : /\ runs[r].todo \subseteq Requested
                     /\ runs[r].e # Pay => runs[r].e \in Requested

LEMMA ReservedFacts ==
  Reserved \in SUBSET Refunds /\ Reserved \subseteq Requested
  BY DEF Reserved, Requested

LEMMA ReservedShrinks ==
  ASSUME RefundInv, Reserved' \in SUBSET Reserved
  PROVE  Cardinality(Units(Reserved')) <= Amount
  <1>1. Reserved \in SUBSET Refunds /\ IsFiniteSet(Reserved)
    BY ReservedFacts, FS_Subset DEF RefundInv
  <1>2. Reserved' \in SUBSET Refunds /\ IsFiniteSet(Reserved')
    BY <1>1, FS_Subset
  <1>3. Cardinality(Units(Reserved')) <= Cardinality(Units(Reserved))
    BY <1>1, UnitsGrow
  <1>4. Cardinality(Units(Reserved')) \in Nat /\ Cardinality(Units(Reserved)) \in Nat
    BY <1>1, <1>2, UnitsFinite
  <1>. QED BY <1>3, <1>4, PaymentAssumption DEF RefundInv

(* A new request reserves its amount, if that is left.                     *)
LEMMA RequestReserves ==
  ASSUME PaymentInv, RefundInv, NEW k \in Refunds, RequestRefund(k)
  PROVE  RefundInv'
  <1>0. items \in [Entities -> Item] /\ k \in Entities /\ items[k] \in Item
    BY PaymentFacts DEF PaymentInv, PaymentTypes
  <1>1. items[k].status = "none" /\ UNCHANGED <<runs, provider>>
    BY DEF RequestRefund
  <1>2. RefundAmount[k] + MapThenSumSet(LAMBDA i : RefundAmount[i], Reserved) <= Amount
    BY Zenon DEF RequestRefund
  <1>3. items' = [items EXCEPT ![k].status = "unknown"]
    BY DEF RequestRefund
  <1>4. /\ items'[k].status = "unknown" /\ items'[k].at = items[k].at
        /\ \A e \in Entities \ {k} : items'[e] = items[e]
    BY <1>0, <1>3 DEF Item
  <1>5. Requested' = Requested \cup {k}
    BY <1>4, PaymentFacts DEF Requested
  <1>6. Reserved' = Reserved \cup {k} /\ k \notin Reserved
    BY <1>1, <1>4, PaymentFacts DEF Reserved, Released
  <1>7. IsFiniteSet(Requested')
    BY <1>5, FS_AddElement DEF RefundInv
  <1>8. Cardinality(Units(Reserved')) <= Amount
    <2>1. Reserved \in SUBSET Refunds /\ IsFiniteSet(Reserved)
      BY ReservedFacts, FS_Subset DEF RefundInv
    <2>2. PICK S \in SUBSET Refunds : S = Reserved
      BY <2>1
    <2>3. RefundAmount[k] + MapThenSumSet(LAMBDA i : RefundAmount[i], S) <= Amount
      BY Zenon, <1>2, <2>2
    <2>4. MapThenSumSet(LAMBDA i : RefundAmount[i], S) = Cardinality(Units(S))
      BY <2>1, <2>2, AmountsAreUnits
    <2>5. RefundAmount[k] + Cardinality(Units(S)) <= Amount
      BY Zenon, <2>3, <2>4
    <2>6. Cardinality(Units(S \cup {k})) = RefundAmount[k] + Cardinality(Units(S))
      BY <1>6, <2>1, <2>2, UnitsAdd
    <2>. QED BY <1>6, <2>2, <2>5, <2>6
  <1>9. \A i \in Refunds : items'[i].at # NULL => i \in Requested'
    BY <1>4, <1>5, PaymentFacts DEF RefundInv
  <1>. QED BY <1>1, <1>5, <1>7, <1>8, <1>9 DEF RefundInv

(* Steps that request nothing.                                             *)
LEMMA NothingRequested ==
  ASSUME RefundInv,
         \A k \in Refunds : /\ items'[k].status = "none" <=> items[k].status = "none"
                            /\ items[k].status \in Released => items'[k].status \in Released
                            /\ items'[k].at # NULL => items[k].at # NULL \/ k \in Requested,
         \A r \in Runs : /\ runs'[r].todo \subseteq Requested
                         /\ runs'[r].e # Pay => runs'[r].e \in Requested
  PROVE  RefundInv'
  <1>1. Requested' = Requested
    BY DEF Requested
  <1>2. Reserved' \in SUBSET Reserved
    BY DEF Reserved
  <1>3. Cardinality(Units(Reserved')) <= Amount
    BY <1>2, ReservedShrinks
  <1>4. \A k \in Refunds : items'[k].at # NULL => k \in Requested'
    BY <1>1 DEF RefundInv
  <1>. QED BY <1>1, <1>3, <1>4 DEF RefundInv

LEMMA RefundInit == Init => RefundInv
  <1>. SUFFICES ASSUME Init PROVE RefundInv
    OBVIOUS
  <1>1. Requested = {} /\ Reserved = {}
    BY PaymentFacts DEF Init, NoItem, Requested, Reserved
  <1>2. \A k \in Refunds : items[k].at = NULL
    BY PaymentFacts DEF Init, NoItem
  <1>3. \A r \in Runs : runs[r].todo = {} /\ runs[r].e = Pay
    BY DEF Init, Resting
  <1>. QED BY <1>1, <1>2, <1>3, NoUnits, FS_EmptySet, PaymentAssumption DEF RefundInv

-----------------------------------------------------------------------------
(* What a run holds when it goes on: refunds that were requested.          *)

LEMMA GoesRefunds ==
  ASSUME PaymentTypes, NEW r \in Runs, NEW pc \in RunPcs, Goes(r, pc) \/ Answered(r)
  PROVE  \A q \in Runs : runs'[q].todo = runs[q].todo /\ runs'[q].e = runs[q].e
  BY DEF PaymentTypes, Goes, Answered, Run

LEMMA LeavesRefunds ==
  ASSUME PaymentTypes, NEW r \in Runs, Leaves(r) \/ runs' = [runs EXCEPT ![r] = Resting]
  PROVE  /\ \A q \in Runs \ {r} : runs'[q] = runs[q]
         /\ runs'[r].todo = {} /\ runs'[r].e = Pay
  BY DEF PaymentTypes, Leaves, Resting

LEMMA ContinuesRefunds ==
  ASSUME PaymentTypes, NEW r \in Runs, NEW todo \in SUBSET Requested, NEW ok \in BOOLEAN, Continues(r, todo, ok)
  PROVE  /\ \A q \in Runs \ {r} : runs'[q] = runs[q]
         /\ runs'[r].todo \subseteq Requested
         /\ runs'[r].e # Pay => runs'[r].e \in Requested
  <1>. DEFINE after == [Resting EXCEPT !.ok = ok, !.event = runs[r].event]
  <1>1. CASE todo = {}
    <2>1. runs' = [runs EXCEPT ![r] = [after EXCEPT !.pc = "release"]]
      BY <1>1 DEF Continues
    <2>2. [after EXCEPT !.pc = "release"].todo = {} /\ [after EXCEPT !.pc = "release"].e = Pay
      BY DEF Resting
    <2>. HIDE DEF after
    <2>. QED BY <2>1, <2>2 DEF PaymentTypes
  <1>2. CASE todo # {}
    <2>1. PICK k \in todo :
            runs' = [runs EXCEPT ![r] = [after EXCEPT !.pc = "attempt", !.e = k, !.todo = todo \ {k}]]
      BY <1>2 DEF Continues
    <2>. DEFINE next == [after EXCEPT !.pc = "attempt", !.e = k, !.todo = todo \ {k}]
    <2>2. next.todo = todo \ {k} /\ next.e = k
      BY DEF Resting
    <2>. HIDE DEF next, after
    <2>3. runs' = [runs EXCEPT ![r] = next]
      BY <2>1 DEF next
    <2>. QED BY <2>2, <2>3 DEF PaymentTypes
  <1>. QED BY <1>1, <1>2

(* Steps that leave every item as it is, or change it as no refund sees.   *)
LEMMA SilentRefunds ==
  ASSUME PaymentInv, RefundInv,
         \A k \in Refunds : items'[k].status = items[k].status /\ items'[k].at = items[k].at,
         \/ \A q \in Runs : runs'[q].todo = runs[q].todo /\ runs'[q].e = runs[q].e
         \/ \E r \in Runs : /\ \A q \in Runs \ {r} : runs'[q] = runs[q]
                            /\ runs'[r].todo \subseteq Requested
                            /\ runs'[r].e # Pay => runs'[r].e \in Requested
  PROVE  RefundInv'
  <1>1. \A r \in Runs : /\ runs'[r].todo \subseteq Requested
                        /\ runs'[r].e # Pay => runs'[r].e \in Requested
    BY DEF RefundInv
  <1>. QED BY <1>1, NothingRequested

LEMMA AskingRefunds ==
  ASSUME PaymentInv, RefundInv, NEW r \in Runs, Get(r) \/ Find(r) \/ Reload(r) \/ Write(r)
  PROVE  RefundInv'
  <1>0. PaymentTypes /\ runs[r] \in Run /\ runs[r].todo \in SUBSET Requested
    BY DEF PaymentInv, PaymentTypes, RefundInv
  <1>1. UNCHANGED items
    BY DEF Get, Find, Reload, Write, record
  <1>2. \/ Answered(r) \/ Leaves(r) \/ Continues(r, runs[r].todo, FALSE)
        \/ \E pc \in RunPcs : Goes(r, pc)
    <2>1. {"get", "write", "await", "reload"} \subseteq RunPcs
      BY DEF RunPcs
    <2>2. CASE Get(r)
      BY <2>2 DEF Get
    <2>3. CASE Find(r)
      BY <2>1, <2>3 DEF Find
    <2>4. CASE Reload(r)
      BY <2>1, <2>4 DEF Reload
    <2>5. CASE Write(r)
      BY <2>1, <2>5 DEF Write
    <2>. QED BY <2>2, <2>3, <2>4, <2>5
  <1>3. CASE Answered(r) \/ \E pc \in RunPcs : Goes(r, pc)
    <2>1. "get" \in RunPcs
      BY DEF RunPcs
    <2>2. \A q \in Runs : runs'[q].todo = runs[q].todo /\ runs'[q].e = runs[q].e
      BY <1>0, <1>3, <2>1, GoesRefunds
    <2>. QED BY <1>1, <2>2, SilentRefunds
  <1>4. CASE Leaves(r)
    <2>1. /\ \A q \in Runs \ {r} : runs'[q] = runs[q]
          /\ runs'[r].todo = {} /\ runs'[r].e = Pay
      BY <1>0, <1>4, LeavesRefunds
    <2>. QED BY <1>1, <2>1, SilentRefunds
  <1>5. CASE Continues(r, runs[r].todo, FALSE)
    <2>1. /\ \A q \in Runs \ {r} : runs'[q] = runs[q]
          /\ runs'[r].todo \subseteq Requested
          /\ runs'[r].e # Pay => runs'[r].e \in Requested
      BY <1>0, <1>5, ContinuesRefunds
    <2>. QED BY <1>1, <2>1, SilentRefunds
  <1>. QED BY <1>2, <1>3, <1>4, <1>5

LEMMA AttemptRefunds ==
  ASSUME PaymentInv, RefundInv, NEW r \in Runs, AttemptPayment(r) \/ AttemptRefund(r)
  PROVE  RefundInv'
  <1>0. PaymentTypes /\ items \in [Entities -> Item] /\ runs[r] \in Run /\ runs[r].e \in Entities
    BY DEF PaymentInv, PaymentTypes, Run
  <1>. DEFINE e == runs[r].e
  <1>1. \/ items' = items
        \/ \E t \in HostTimes : items' = [items EXCEPT ![e].at = t]
    BY DEF AttemptPayment, AttemptRefund
  <1>2. \A k \in Refunds : /\ items'[k].status = items[k].status
                           /\ items'[k].at # NULL => items[k].at # NULL \/ k \in Requested
    <2>1. e # Pay => e \in Requested
      BY DEF RefundInv
    <2>2. \A k \in Refunds : /\ k \in Entities /\ k # Pay /\ items[k] \in Item
      BY <1>0, PaymentFacts, PaymentAssumption
    <2>3. \A k \in Refunds : items'[k].status = items[k].status /\ (items'[k].at = items[k].at \/ k = e)
      <3>1. CASE items' = items
        BY <3>1
      <3>2. ASSUME NEW t \in HostTimes, items' = [items EXCEPT ![e].at = t], NEW k \in Refunds
            PROVE  items'[k].status = items[k].status /\ (items'[k].at = items[k].at \/ k = e)
        <4>1. items[e] \in Item /\ [items[e] EXCEPT !.at = t].status = items[e].status
          BY <1>0 DEF Item
        <4>2. items' = [items EXCEPT ![e] = [items[e] EXCEPT !.at = t]]
          BY <1>0, <3>2
        <4>. QED BY <1>0, <2>2, <4>1, <4>2
      <3>. QED BY <1>1, <3>1, <3>2
    <2>. QED BY <2>1, <2>2, <2>3
  <1>3. Goes(r, LookUp(items[e])) \/ Leaves(r)
    BY DEF AttemptPayment, AttemptRefund
  <1>4. LookUp(items[e]) \in RunPcs
    BY DEF LookUp, RunPcs
  <1>5. \A q \in Runs : /\ runs'[q].todo \subseteq Requested
                        /\ runs'[q].e # Pay => runs'[q].e \in Requested
    <2>1. CASE Goes(r, LookUp(items[e]))
      <3>1. \A q \in Runs : runs'[q].todo = runs[q].todo /\ runs'[q].e = runs[q].e
        BY <1>0, <1>4, <2>1, GoesRefunds
      <3>. QED BY <3>1 DEF RefundInv
    <2>2. CASE Leaves(r)
      <3>1. /\ \A q \in Runs \ {r} : runs'[q] = runs[q]
            /\ runs'[r].todo = {} /\ runs'[r].e = Pay
        BY <1>0, <2>2, LeavesRefunds
      <3>. QED BY <3>1 DEF RefundInv
    <2>. QED BY <1>3, <2>1, <2>2
  <1>. QED BY <1>2, <1>5, NothingRequested

LEMMA ObserveRefunds ==
  ASSUME PaymentInv, RefundInv, NEW r \in Runs, Observe(r) \/ NotCreated(r)
  PROVE  RefundInv'
  <1>0. /\ PaymentTypes /\ items \in [Entities -> Item] /\ runs[r] \in Run /\ runs[r].e \in Entities
        /\ runs[r].ok \in BOOLEAN /\ RunOK(r) /\ runs[r].todo \in SUBSET Requested
        /\ (runs[r].e # Pay => runs[r].e \in Requested) /\ items[runs[r].e] \in Item
    BY DEF PaymentInv, PaymentTypes, Run, RefundInv
  <1>. DEFINE e == runs[r].e
  <1>1. \/ Leaves(r) /\ UNCHANGED items
        \/ /\ \E todo \in SUBSET Requested : Continues(r, todo, runs[r].ok)
           /\ \E status \in Known :
                /\ items[e].status \in Terminal => status = items[e].status \/ status = "failed"
                /\ items'[e].at = items[e].at /\ items'[e].status = status
                /\ \A d \in Entities \ {e} : items'[d] = items[d]
    <2>1. CASE Observe(r)
      <3>1. runs[r].status \in Known
        BY <1>0, <2>1 DEF Observe, At, RunOK
      <3>2. ToReconcile \in SUBSET Requested
        BY DEF ToReconcile, Requested
      <3>3. CASE Leaves(r) /\ UNCHANGED items
        BY <3>3
      <3>4. CASE /\ items[e].status \in Terminal => items[e].status = runs[r].status
                 /\ items' = [items EXCEPT ![e].id = runs[r].seen, ![e].status = runs[r].status]
                 /\ Continues(r, IF e = Pay THEN ToReconcile ELSE runs[r].todo, runs[r].ok)
        <4>1. /\ items'[e].at = items[e].at /\ items'[e].status = runs[r].status
              /\ \A d \in Entities \ {e} : items'[d] = items[d]
          BY <1>0, <3>4 DEF Item
        <4>2. \E todo \in SUBSET Requested : Continues(r, todo, runs[r].ok)
          BY <1>0, <3>2, <3>4
        <4>. QED BY <3>1, <3>4, <4>1, <4>2
      <3>. QED BY <2>1, <3>3, <3>4 DEF Observe
    <2>2. CASE NotCreated(r)
      <3>3. CASE Leaves(r) /\ UNCHANGED items
        BY <3>3
      <3>4. CASE /\ items' = [items EXCEPT ![e].status = "failed"]
                 /\ Continues(r, runs[r].todo, runs[r].ok)
        <4>1. /\ items'[e].at = items[e].at /\ items'[e].status = "failed"
              /\ \A d \in Entities \ {e} : items'[d] = items[d]
          BY <1>0, <3>4 DEF Item
        <4>2. "failed" \in Known
          BY DEF Known, Terminal
        <4>. QED BY <1>0, <3>4, <4>1, <4>2
      <3>. QED BY <2>2, <3>3, <3>4 DEF NotCreated
    <2>. QED BY <2>1, <2>2
  <1>2. CASE Leaves(r) /\ UNCHANGED items
    <2>1. /\ \A q \in Runs \ {r} : runs'[q] = runs[q]
          /\ runs'[r].todo = {} /\ runs'[r].e = Pay
      BY <1>0, <1>2, LeavesRefunds
    <2>. QED BY <1>2, <2>1, SilentRefunds
  <1>3. ASSUME NEW todo \in SUBSET Requested, Continues(r, todo, runs[r].ok),
               NEW status \in Known,
               items[e].status \in Terminal => status = items[e].status \/ status = "failed",
               items'[e].at = items[e].at, items'[e].status = status,
               \A d \in Entities \ {e} : items'[d] = items[d]
        PROVE  RefundInv'
    <2>1. /\ \A q \in Runs \ {r} : runs'[q] = runs[q]
          /\ runs'[r].todo \subseteq Requested
          /\ runs'[r].e # Pay => runs'[r].e \in Requested
      BY <1>0, <1>3, ContinuesRefunds
    <2>2. \A q \in Runs : /\ runs'[q].todo \subseteq Requested
                          /\ runs'[q].e # Pay => runs'[q].e \in Requested
      BY <2>1 DEF RefundInv
    <2>3. ASSUME NEW k \in Refunds
          PROVE  /\ items'[k].status = "none" <=> items[k].status = "none"
                 /\ items[k].status \in Released => items'[k].status \in Released
                 /\ items'[k].at # NULL => items[k].at # NULL \/ k \in Requested
      <3>1. k \in Entities /\ k # Pay
        BY PaymentFacts, PaymentAssumption
      <3>2. CASE k # e
        BY <1>3, <3>1, <3>2
      <3>3. CASE k = e
        <4>1. items[k].status # "none" /\ k \in Requested
          BY <1>0, <3>1, <3>3 DEF Requested
        <4>2. status # "none" /\ (items[k].status \in Released => status \in Released)
          BY <1>3, <3>3 DEF Known, Terminal, Released
        <4>. QED BY <1>3, <3>3, <4>1, <4>2
      <3>. QED BY <3>2, <3>3
    <2>. QED BY <2>2, <2>3, NothingRequested
  <1>. QED BY <1>1, <1>2, <1>3

LEMMA OtherRefunds ==
  ASSUME PaymentInv, RefundInv,
         \/ Tick \/ Create \/ Refuse \/ Deliver
         \/ \E e \in Entities : Receive(e) \/ Attach(e) \/ \E s \in Terminal : Outcome(e, s)
         \/ \E r \in Runs : Acquire(r) \/ Release(r) \/ Fail(r) \/ Die(r)
  PROVE  RefundInv'
  <1>0. /\ PaymentTypes /\ items \in [Entities -> Item] /\ runs \in [Runs -> Run]
        /\ \A k \in Refunds : k \in Entities /\ k # Pay /\ items[k] \in Item
    BY PaymentFacts, PaymentAssumption DEF PaymentInv, PaymentTypes
  <1>1. CASE Tick \/ Refuse \/ \E e \in Entities : Receive(e) \/ \E s \in Terminal : Outcome(e, s)
    <2>1. UNCHANGED <<items, runs>>
      BY <1>1 DEF Tick, Refuse, Receive, Outcome, record
    <2>. QED BY <2>1, SilentRefunds
  <1>2. CASE Create \/ \E e \in Entities : Attach(e)
    <2>1. UNCHANGED runs
      BY <1>2 DEF Create, Attach
    <2>2. \/ items' = [items EXCEPT ![Pay].status = "unknown"]
          \/ \E e \in Entities : items' = [items EXCEPT ![e].id = 1]
      BY <1>2 DEF Create, Attach
    <2>3. \A k \in Refunds : items'[k].status = items[k].status /\ items'[k].at = items[k].at
      BY <1>0, <2>2, PaymentFacts DEF Item
    <2>. QED BY <2>1, <2>3, SilentRefunds
  <1>3. CASE Deliver
    <2>1. PICK f \in flights : Execute(f)
      BY <1>3 DEF Deliver
    <2>2. UNCHANGED items
      BY <2>1 DEF Execute, record
    <2>3. \/ runs' = runs
          \/ \E pc, seen, status : runs' = [runs EXCEPT ![f.by].pc = pc, ![f.by].seen = seen, ![f.by].status = status]
      BY <2>1 DEF Execute
    <2>4. \A q \in Runs : runs'[q].todo = runs[q].todo /\ runs'[q].e = runs[q].e
      <3>1. CASE runs' = runs
        BY <3>1
      <3>2. ASSUME NEW pc, NEW seen, NEW status,
                   runs' = [runs EXCEPT ![f.by].pc = pc, ![f.by].seen = seen, ![f.by].status = status],
                   NEW q \in Runs
            PROVE  runs'[q].todo = runs[q].todo /\ runs'[q].e = runs[q].e
        <4>1. runs[q] \in Run
          BY <1>0
        <4>. QED BY <1>0, <3>2, <4>1 DEF Run
      <3>. QED BY <2>3, <3>1, <3>2
    <2>. QED BY <2>2, <2>4, SilentRefunds
  <1>4. ASSUME NEW r \in Runs, Acquire(r) \/ Release(r) \/ Fail(r) \/ Die(r) PROVE RefundInv'
    <2>1. UNCHANGED items
      BY <1>4 DEF Acquire, Release, Fail, Die, record
    <2>2. /\ \A q \in Runs \ {r} : runs'[q] = runs[q]
          /\ runs'[r].todo = {} /\ runs'[r].e = Pay
      <3>1. CASE Acquire(r)
        <4>1. PICK why, pc : runs' = [runs EXCEPT ![r] = [Resting EXCEPT !.ok = TRUE, !.event = why, !.pc = pc]]
          BY <3>1 DEF Acquire
        <4>2. LET run == [Resting EXCEPT !.ok = TRUE, !.event = why, !.pc = pc] IN run.todo = {} /\ run.e = Pay
          BY DEF Resting
        <4>. QED BY <1>0, <4>1, <4>2
      <3>2. CASE Release(r) \/ Fail(r) \/ Die(r)
        BY <1>0, <3>2, LeavesRefunds DEF Release, Fail, Die
      <3>. QED BY <1>4, <3>1, <3>2
    <2>. QED BY <2>1, <2>2, SilentRefunds
  <1>. QED BY <1>1, <1>2, <1>3, <1>4

THEOREM RefundInvariant == Spec => []RefundInv
  <1>1. Init => RefundInv
    BY RefundInit
  <1>2. PaymentInv /\ RefundInv /\ [Next]_vars => RefundInv'
    <2>1. SUFFICES ASSUME PaymentInv, RefundInv, [Next]_vars PROVE RefundInv'
      OBVIOUS
    <2>2. CASE UNCHANGED vars
      BY <2>1, <2>2, SilentRefunds DEF vars, record
    <2>3. ASSUME NEW k \in Refunds, RequestRefund(k) PROVE RefundInv'
      BY <2>1, <2>3, RequestReserves
    <2>4. ASSUME NEW r \in Runs, RunStep(r) \/ Fail(r) \/ Die(r) PROVE RefundInv'
      BY <2>1, <2>4, AskingRefunds, AttemptRefunds, ObserveRefunds, OtherRefunds DEF RunStep
    <2>5. CASE Tick \/ Create \/ Refuse \/ Deliver
      BY <2>1, <2>5, OtherRefunds
    <2>6. ASSUME NEW e \in Entities, Receive(e) \/ Attach(e) \/ \E s \in Terminal : Outcome(e, s) PROVE RefundInv'
      BY <2>1, <2>6, OtherRefunds
    <2>. QED BY <2>1, <2>2, <2>3, <2>4, <2>5, <2>6 DEF Next
  <1>. QED BY <1>1, <1>2, PaymentInvariant, PTL DEF Spec

(* The provider never holds more refunds than was charged: a refund that   *)
(* exists there and did not fail is still reserved here.                   *)
THEOREM ChargeCoversRefunds == Spec => []RefundsCovered
  <1>1. PaymentInv /\ RefundInv => RefundsCovered
    <2>. SUFFICES ASSUME PaymentInv, RefundInv PROVE RefundsCovered
      OBVIOUS
    <2>1. PICK S : S = {k \in Refunds : provider[k].count > 0 /\ provider[k].status \notin Released}
      OBVIOUS
    <2>2. ASSUME NEW k \in S PROVE k \in Reserved /\ provider[k].count = 1
      <3>1. k \in Refunds /\ k \in Entities /\ provider[k].count > 0 /\ provider[k].status \notin Released
        BY <2>1, PaymentFacts
      <3>2. EntityOK(k)
        BY <3>1 DEF PaymentInv
      <3>3. provider[k].count = 1
        BY <3>1, <3>2 DEF EntityOK
      <3>4. items[k].at # NULL
        BY <3>2, <3>3 DEF EntityOK
      <3>5. items[k].status # "none"
        BY <3>1, <3>4 DEF RefundInv, Requested
      <3>6. items[k].status \notin Released
        BY <3>1, <3>2, <3>3 DEF EntityOK, Released, Terminal
      <3>. QED BY <3>1, <3>3, <3>5, <3>6 DEF Reserved
    <2>3. S \in SUBSET Reserved /\ Reserved \in SUBSET Refunds /\ IsFiniteSet(Reserved)
      BY <2>2, ReservedFacts, FS_Subset DEF RefundInv
    <2>4. S \in SUBSET Refunds /\ IsFiniteSet(S)
      BY <2>3, FS_Subset
    <2>5. Cardinality(Units(S)) <= Cardinality(Units(Reserved))
      BY <2>3, UnitsGrow
    <2>6. Cardinality(Units(S)) <= Amount
      <3>1. Cardinality(Units(S)) \in Nat /\ Cardinality(Units(Reserved)) \in Nat
        BY <2>3, <2>4, UnitsFinite
      <3>. QED BY <2>5, <3>1, PaymentAssumption DEF RefundInv
    <2>7. MapThenSumSet(LAMBDA k : provider[k].count * RefundAmount[k], S) = Cardinality(Units(S))
      BY <2>2, <2>4, MoneyIsUnits
    <2>8. MapThenSumSet(LAMBDA k : provider[k].count * RefundAmount[k], S) <= Amount
      BY Zenon, <2>6, <2>7
    <2>. QED BY Zenon, <2>1, <2>8 DEF RefundsCovered
  <1>. QED BY <1>1, PaymentInvariant, RefundInvariant, PTL
=============================================================================
