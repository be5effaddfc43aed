--------------------------- MODULE WebhooksProofs ---------------------------
(***************************************************************************)
(* The webhooks, for any number of deliveries, executions and generations, *)
(* and any concurrency, budget of attempts, deadline and delays.           *)
(*                                                                         *)
(* Three invariants, each on top of the first:                             *)
(*   ExecsInv   every execution runs a job that no other runs, since a     *)
(*              deduplication key never goes back to pending: the token    *)
(*              of an execution is its name;                               *)
(*   LimitInv   a request in flight has an admission lease of its own that *)
(*              outlasts its deadline, and there are at most Concurrency   *)
(*              leases, whose quantities, all 1, add up to their number;   *)
(*   RowsInv    a running delivery has its execution's token and one open  *)
(*              attempt, its last; what waits for a retry ended in an      *)
(*              answer that allows one.                                    *)
(* With the clocks of hosts closer than the margin that a request leaves   *)
(* to its lease, the execution that sends is the owner of the delivery     *)
(* until its deadline (OwnersInv), and nobody else becomes one before.     *)
(*                                                                         *)
(* Sums over sets are CHOOSE'n functions: that they are cardinalities is   *)
(* shown by a smallest counterexample instead of induction.                *)
(***************************************************************************)
EXTENDS Webhooks, WellFoundedInduction, FiniteSetTheorems, FunctionTheorems, SequenceTheorems, TLAPS

-----------------------------------------------------------------------------
(***************************************************************************)
(* Sums and clocks                                                         *)
(***************************************************************************)
LEMMA LeastNatural ==
  ASSUME NEW T \in SUBSET Nat, T # {} PROVE \E x \in T : \A y \in T : x <= y
<1>1. PICK x \in T : \A y \in T : ~(<<y, x>> \in OpToRel(<, Nat))
  BY NatLessThanWellFounded, WFMin
<1>2. OpToRel(<, Nat) = {ss \in Nat \X Nat : ss[1] < ss[2]} BY Zenon DEF OpToRel
<1>3. PICK R : R = OpToRel(<, Nat) OBVIOUS
<1>4. \A y \in T : ~(<<y, x>> \in R) BY Zenon, <1>1, <1>3
<1>5. R = {ss \in Nat \X Nat : ss[1] < ss[2]} BY Zenon, <1>2, <1>3
<1>6. ASSUME NEW y \in T PROVE x <= y
  <2>1. <<y, x>> \notin {ss \in Nat \X Nat : ss[1] < ss[2]} BY <1>4, <1>5
  <2>. QED BY <2>1
<1>. QED BY <1>6

(* The sum over a set, as a function of its subsets.                       *)
Summed(S) == CHOOSE iter : iter = [s \in SUBSET S |->
               IF s = {} THEN 0 ELSE (CHOOSE x \in s : TRUE).quantity + iter[s \ {CHOOSE x \in s : TRUE}]]

LEMMA QuantitiesSummed == ASSUME NEW S PROVE Quantities(S) = Summed(S)[S]
BY Zenon DEF Quantities, MapThenSumSet, MapThenFoldSet, Summed

Elem(s) == CHOOSE x \in s : TRUE
SumOf(iter, s) == IF s = {} THEN 0 ELSE Elem(s).quantity + iter[s \ {Elem(s)}]

LEMMA QuantitiesOfOnes ==
  ASSUME NEW S, IsFiniteSet(S), \A l \in S : l.quantity = 1
  PROVE  Quantities(S) = Cardinality(S)
<1>0. \A s \in SUBSET S : s # {} => Elem(s) \in s BY DEF Elem
<1>1. \A s \in SUBSET S : IsFiniteSet(s) /\ Cardinality(s) \in Nat
  BY FS_Subset, FS_CardinalityType
<1>2. ASSUME NEW s \in SUBSET S, s # {}
      PROVE  /\ s \ {Elem(s)} \in SUBSET S /\ Cardinality(s \ {Elem(s)}) = Cardinality(s) - 1
             /\ Elem(s).quantity = 1
  BY <1>0, <1>1, <1>2, FS_RemoveElement
<1>3. PICK g : g = [s \in SUBSET S |-> Cardinality(s)] OBVIOUS
<1>4. g = [s \in SUBSET S |-> SumOf(g, s)]
  <2>1. ASSUME NEW s \in SUBSET S PROVE g[s] = SumOf(g, s)
    <3>1. CASE s = {} BY <1>3, <3>1, FS_EmptySet DEF SumOf
    <3>2. CASE s # {} BY <1>1, <1>2, <1>3, <3>2 DEF SumOf
    <3>. QED BY <3>1, <3>2
  <2>. QED BY <1>3, <2>1
<1>5. Summed(S) = CHOOSE iter : iter = [s \in SUBSET S |-> SumOf(iter, s)] BY Zenon DEF Summed, SumOf, Elem
<1>6. PICK h : h = Summed(S) OBVIOUS
<1>7. h = [s \in SUBSET S |-> SumOf(h, s)] BY Zenon, <1>4, <1>5, <1>6
<1>8. \A s \in SUBSET S : h[s] = SumOf(h, s) BY <1>7
<1>9. ASSUME NEW s \in SUBSET S PROVE h[s] = Cardinality(s)
  <2>. DEFINE T == {Cardinality(r) : r \in {r \in SUBSET S : h[r] # Cardinality(r)}}
  <2>1. SUFFICES ASSUME T # {} PROVE FALSE OBVIOUS
  <2>2. T \in SUBSET Nat BY <1>1
  <2>3. PICK n \in T : \A m \in T : n <= m BY <2>1, <2>2, LeastNatural
  <2>4. PICK r \in SUBSET S : h[r] # Cardinality(r) /\ n = Cardinality(r) BY <2>3
  <2>5. CASE r = {} BY <1>8, <2>4, <2>5, FS_EmptySet DEF SumOf
  <2>6. CASE r # {}
    <3>1. PICK q \in SUBSET S : q = r \ {Elem(r)} /\ Cardinality(q) = n - 1 BY <1>2, <2>4, <2>6
    <3>2. h[q] = Cardinality(q) BY <1>1, <2>3, <3>1, <2>2
    <3>3. h[r] = 1 + h[q] BY <1>2, <1>8, <2>6, <3>1 DEF SumOf
    <3>. QED BY <1>1, <2>4, <3>1, <3>2, <3>3
  <2>. QED BY <2>5, <2>6
<1>. QED BY <1>6, <1>9, QuantitiesSummed

LEMMA MaxOfTwo ==
  ASSUME NEW a \in Nat, NEW b \in Nat
  PROVE  Max({a, b}) \in {a, b} /\ Max({a, b}) >= a /\ Max({a, b}) >= b
<1>1. \E x \in {a, b} : \A y \in {a, b} : x >= y
  <2>1. CASE a >= b BY <2>1
  <2>2. CASE b >= a BY <2>2
  <2>. QED BY <2>1, <2>2
<1>. QED BY <1>1 DEF Max

LEMMA LaterClock ==
  ASSUME NEW a \in Nat, NEW b \in Nat, b <= a PROVE ClockTime(a, b) = a
BY MaxOfTwo DEF ClockTime

-----------------------------------------------------------------------------
(***************************************************************************)
(* Executions                                                              *)
(***************************************************************************)
ExecPcs == {"idle", "acquire", "claim", "renew", "send", "finish", "release"}
Answers == {"success", "retryable", "permanent"}
Exec == [pc : ExecPcs, d : Deliveries \cup {NULL}, gen : Nat, until : Int, code : Answers \cup {"open"}]
JobStates == {"none", "pending", "running", "ended"}

(* Each execution runs a job that no other runs: tokens are its name.      *)
Busy(x) == execs[x].pc # "idle"
RunsJob(x) == Busy(x) => /\ execs[x].d \in Deliveries /\ execs[x].gen \in 1..MaxGen
                         /\ queue[execs[x].d][execs[x].gen] = "running"
                         /\ execs[x].pc = "finish" => execs[x].code \in Answers
ExecsInv ==
  /\ clock \in Nat /\ execs \in [Execs -> Exec]
  /\ queue \in [Deliveries -> [1..MaxGen -> JobStates]]
  /\ \A x \in Execs : RunsJob(x)
  /\ \A x, y \in Execs : x # y /\ Busy(x) /\ Busy(y) => Token(x) # Token(y)
  /\ DOMAIN limit = {"lastNow", "leases"} /\ limit.lastNow \in 0..clock

USE WebhookAssumption DEF At

LEMMA ExecFields ==
  ASSUME ExecsInv, NEW x \in Execs
  PROVE  /\ execs[x] \in Exec /\ execs[x].pc \in ExecPcs /\ execs[x].d \in Deliveries \cup {NULL}
         /\ execs[x].gen \in Nat /\ execs[x].until \in Int /\ execs[x].code \in Answers \cup {"open"}
  BY DEF ExecsInv, Exec

LEMMA SameToken ==
  ASSUME NEW x, NEW y, Token(x) = Token(y) PROVE execs[x].d = execs[y].d /\ execs[x].gen = execs[y].gen
  BY DEF Token

LEMMA ExecsStart == Init => ExecsInv
<1>. SUFFICES ASSUME Init PROVE ExecsInv OBVIOUS
<1>1. Idle \in Exec BY DEF Idle, Exec, ExecPcs, NULL
<1>2. Idle.pc = "idle" BY DEF Idle
<1>3. clock \in Nat BY DEF Init
<1>4. DOMAIN limit = {"lastNow", "leases"} /\ limit.lastNow \in 0..clock BY <1>3 DEF Init, NoLeases
<1>. QED BY <1>1, <1>2, <1>3, <1>4 DEF Init, ExecsInv, RunsJob, Busy, JobStates

Puts(x, r) == execs' = [execs EXCEPT ![x] = r]

LEMMA Putting ==
  ASSUME ExecsInv, NEW x \in Execs, NEW r \in Exec, Puts(x, r)
  PROVE  execs' \in [Execs -> Exec] /\ execs'[x] = r /\ \A y \in Execs : y # x => execs'[y] = execs[y]
  BY DEF ExecsInv, Puts

(* Limits are asked at the store's clock, which is the latest.             *)
LEMMA LiveNow ==
  ASSUME ExecsInv
  PROVE  LiveState(limit, clock) = [lastNow |-> clock, leases |-> {l \in limit.leases : l.expiresAt > clock}]
<1>1. ClockTime(clock, limit.lastNow) = clock BY LaterClock DEF ExecsInv
<1>. QED BY <1>1 DEF LiveState

LimitMoves ==
  /\ DOMAIN limit' = {"lastNow", "leases"} /\ limit'.lastNow \in {limit.lastNow, clock}
  /\ execs' = execs \/ clock' = clock

LEMMA LimitKeptType ==
  ASSUME ExecsInv, clock' \in Nat, clock' >= clock,
         \/ limit' = limit \/ limit' = LiveState(limit, clock)
         \/ \E token : \/ limit' = AcquireState(LiveState(limit, clock), token, 1, LeaseMs)
                       \/ limit' = RenewState(LiveState(limit, clock), token, LeaseMs)
                       \/ limit' = ReleaseState(LiveState(limit, clock), token)
  PROVE  DOMAIN limit' = {"lastNow", "leases"} /\ limit'.lastNow \in 0..clock'
<1>1. PICK live : live = LiveState(limit, clock) OBVIOUS
<1>2. DOMAIN live = {"lastNow", "leases"} /\ live.lastNow = clock BY <1>1, LiveNow
<1>3. clock \in 0..clock' /\ limit.lastNow \in 0..clock' BY DEF ExecsInv
<1>4. ASSUME NEW q, DOMAIN q = {"lastNow", "leases"}, q.lastNow \in {limit.lastNow, clock}, limit' = q
      PROVE  DOMAIN limit' = {"lastNow", "leases"} /\ limit'.lastNow \in 0..clock'
  BY <1>3, <1>4
<1>5. CASE limit' = limit BY <1>4, <1>5 DEF ExecsInv
<1>6. CASE limit' = live BY <1>2, <1>4, <1>6
<1>7. ASSUME NEW s, limit' = [live EXCEPT !.leases = s]
      PROVE  DOMAIN limit' = {"lastNow", "leases"} /\ limit'.lastNow \in 0..clock'
  <2>1. DOMAIN limit' = {"lastNow", "leases"} /\ limit'.lastNow = clock BY <1>2, <1>7
  <2>. QED BY <1>3, <2>1
<1>8. ASSUME NEW token, limit' = AcquireState(live, token, 1, LeaseMs)
      PROVE  DOMAIN limit' = {"lastNow", "leases"} /\ limit'.lastNow \in 0..clock'
  BY <1>7, <1>8 DEF AcquireState
<1>9. ASSUME NEW token, limit' = RenewState(live, token, LeaseMs)
      PROVE  DOMAIN limit' = {"lastNow", "leases"} /\ limit'.lastNow \in 0..clock'
  BY <1>7, <1>9 DEF RenewState
<1>10. ASSUME NEW token, limit' = ReleaseState(live, token)
       PROVE  DOMAIN limit' = {"lastNow", "leases"} /\ limit'.lastNow \in 0..clock'
  BY <1>7, <1>10 DEF ReleaseState
<1>. QED BY <1>1, <1>5, <1>6, <1>8, <1>9, <1>10

(* A busy execution goes on to another await.                              *)
LEMMA ExecAdvances ==
  ASSUME ExecsInv, NEW x \in Execs, Busy(x), NEW r \in Exec, Puts(x, r), r.d = execs[x].d, r.gen = execs[x].gen,
         r.pc = "finish" => r.code \in Answers, UNCHANGED <<clock, queue>>,
         DOMAIN limit' = {"lastNow", "leases"} /\ limit'.lastNow \in 0..clock'
  PROVE  ExecsInv'
<1>1. execs' \in [Execs -> Exec] /\ execs'[x] = r /\ \A y \in Execs : y # x => execs'[y] = execs[y] BY Putting
<1>2. \A y \in Execs : execs'[y].d = execs[y].d /\ execs'[y].gen = execs[y].gen /\ (Busy(y)' => Busy(y))
  BY <1>1 DEF Busy
<1>3. ASSUME NEW y \in Execs PROVE RunsJob(y)'
  BY <1>1, <1>2 DEF ExecsInv, RunsJob
<1>4. ASSUME NEW y \in Execs, NEW z \in Execs, y # z, Busy(y)', Busy(z)' PROVE Token(y)' # Token(z)'
  BY <1>2, <1>4 DEF ExecsInv, Token
<1>. QED BY <1>1, <1>3, <1>4 DEF ExecsInv

LEMMA ExecEnds ==
  ASSUME ExecsInv, NEW x \in Execs, Busy(x), Ends(x), UNCHANGED clock,
         DOMAIN limit' = {"lastNow", "leases"} /\ limit'.lastNow \in 0..clock'
  PROVE  ExecsInv'
<1>1. Idle \in Exec /\ Idle.pc = "idle" BY DEF Idle, Exec, ExecPcs, NULL
<1>2. execs' \in [Execs -> Exec] /\ execs'[x] = Idle /\ \A y \in Execs : y # x => execs'[y] = execs[y]
  BY <1>1 DEF Ends, ExecsInv
<1>3. PICK d \in Deliveries, g \in 1..MaxGen : d = execs[x].d /\ g = execs[x].gen BY DEF ExecsInv, RunsJob
<1>4. queue' = [queue EXCEPT ![d][g] = "ended"] BY <1>3 DEF Ends
<1>5. /\ queue' \in [Deliveries -> [1..MaxGen -> JobStates]]
      /\ \A e \in Deliveries, h \in 1..MaxGen : e # d \/ h # g => queue'[e][h] = queue[e][h]
  BY <1>4 DEF ExecsInv, JobStates
<1>6. ASSUME NEW y \in Execs PROVE RunsJob(y)'
  <2>1. CASE y = x BY <1>1, <1>2, <2>1 DEF RunsJob, Busy
  <2>2. CASE y # x
    <3>1. SUFFICES ASSUME Busy(y)' PROVE RunsJob(y)' BY DEF RunsJob
    <3>2. Busy(y) /\ execs'[y] = execs[y] BY <1>2, <2>2, <3>1 DEF Busy
    <3>3. Token(y) # Token(x) /\ RunsJob(y) BY <2>2, <3>2 DEF ExecsInv
    <3>4. execs[y].d # d \/ execs[y].gen # g BY <1>3, <3>3 DEF Token
    <3>. QED BY <1>5, <3>2, <3>3, <3>4 DEF RunsJob
  <2>. QED BY <2>1, <2>2
<1>7. ASSUME NEW y \in Execs, NEW z \in Execs, y # z, Busy(y)', Busy(z)' PROVE Token(y)' # Token(z)'
  BY <1>1, <1>2, <1>7 DEF ExecsInv, Token, Busy
<1>. QED BY <1>2, <1>5, <1>6, <1>7 DEF ExecsInv

LEMMA GoesOn ==
  ASSUME ExecsInv, NEW x \in Execs, Busy(x), NEW pc \in ExecPcs \ {"finish"}, Goes(x, pc), UNCHANGED <<clock, queue>>,
         DOMAIN limit' = {"lastNow", "leases"} /\ limit'.lastNow \in 0..clock'
  PROVE  ExecsInv'
<1>1. PICK w \in Exec : w = execs[x] BY ExecFields
<1>2. PICK r : r = [w EXCEPT !.pc = pc] OBVIOUS
<1>3. r \in Exec /\ r.pc = pc /\ r.d = w.d /\ r.gen = w.gen BY <1>2 DEF Exec
<1>4. Puts(x, r) BY <1>1, <1>2 DEF Goes, Puts
<1>. QED BY <1>1, <1>3, <1>4, ExecAdvances

LEMMA StartExecs ==
  ASSUME ExecsInv, NEW x \in Execs, NEW d \in Deliveries, NEW g \in 1..MaxGen, Start(x, d, g) PROVE ExecsInv'
<1>1. PICK r : r = [Idle EXCEPT !.pc = "acquire", !.d = d, !.gen = g] OBVIOUS
<1>2. r \in Exec /\ r.pc = "acquire" /\ r.d = d /\ r.gen = g
  <2>1. r = [pc |-> "acquire", d |-> d, gen |-> g, until |-> NULL, code |-> "open"] BY <1>1 DEF Idle
  <2>2. "acquire" \in ExecPcs /\ NULL \in Int /\ g \in Nat BY DEF ExecPcs, NULL
  <2>. QED BY <2>1, <2>2 DEF Exec
<1>3. Puts(x, r) BY <1>1 DEF Start, Puts
<1>4. execs' \in [Execs -> Exec] /\ execs'[x] = r /\ \A y \in Execs : y # x => execs'[y] = execs[y]
  BY <1>2, <1>3, Putting
<1>5. queue' = [queue EXCEPT ![d][g] = "running"] /\ queue[d][g] = "pending" /\ UNCHANGED <<clock, limit>> BY DEF Start
<1>6. /\ queue' \in [Deliveries -> [1..MaxGen -> JobStates]] /\ queue'[d][g] = "running"
      /\ \A e \in Deliveries, h \in 1..MaxGen : e # d \/ h # g => queue'[e][h] = queue[e][h]
  BY <1>5 DEF ExecsInv, JobStates
<1>7. ASSUME NEW y \in Execs, y # x, Busy(y) PROVE execs[y].d # d \/ execs[y].gen # g
  BY <1>5, <1>7 DEF ExecsInv, RunsJob
<1>8. ASSUME NEW y \in Execs PROVE RunsJob(y)'
  <2>1. CASE y = x BY <1>2, <1>4, <1>6, <2>1 DEF RunsJob
  <2>2. CASE y # x
    <3>1. SUFFICES ASSUME Busy(y)' PROVE RunsJob(y)' BY DEF RunsJob
    <3>2. Busy(y) /\ execs'[y] = execs[y] BY <1>4, <2>2, <3>1 DEF Busy
    <3>3. RunsJob(y) BY DEF ExecsInv
    <3>. QED BY <1>6, <1>7, <2>2, <3>2, <3>3 DEF RunsJob
  <2>. QED BY <2>1, <2>2
<1>9. ASSUME NEW y \in Execs, NEW z \in Execs, y # z, Busy(y)', Busy(z)' PROVE Token(y)' # Token(z)'
  <2>1. CASE y # x /\ z # x BY <1>4, <1>9, <2>1 DEF ExecsInv, Token, Busy
  <2>2. CASE y = x BY <1>2, <1>4, <1>7, <1>9, <2>2 DEF Token, Busy
  <2>3. CASE z = x BY <1>2, <1>4, <1>7, <1>9, <2>3 DEF Token, Busy
  <2>. QED BY <2>1, <2>2, <2>3
<1>. QED BY <1>4, <1>5, <1>6, <1>8, <1>9 DEF ExecsInv

LEMMA ScheduleExecs == ASSUME ExecsInv, NEW p, Schedule(p) PROVE ExecsInv'
<1>1. UNCHANGED <<clock, execs, limit>> BY DEF Schedule
<1>2. CASE queue' = queue BY <1>1, <1>2 DEF ExecsInv, RunsJob, Busy, Token
<1>3. CASE queue[p[1]][p[2]] = "none" /\ queue' = [queue EXCEPT ![p[1]][p[2]] = "pending"]
  <2>1. PICK d, g : d = p[1] /\ g = p[2] OBVIOUS
  <2>2. queue[d][g] = "none" /\ queue' = [queue EXCEPT ![d][g] = "pending"] BY <1>3, <2>1
  <2>3. /\ queue' \in [Deliveries -> [1..MaxGen -> JobStates]]
        /\ \A e \in Deliveries, h \in 1..MaxGen : queue[e][h] = "running" => queue'[e][h] = "running"
    BY <2>2 DEF ExecsInv, JobStates
  <2>. QED BY <1>1, <2>3 DEF ExecsInv, RunsJob, Busy, Token
<1>. QED BY <1>2, <1>3 DEF Schedule

LEMMA AcquireExecs == ASSUME ExecsInv, NEW x \in Execs, Acquire(x) PROVE ExecsInv'
<1>0. Busy(x) /\ clock' = clock /\ clock \in Nat BY DEF Acquire, Busy, ExecsInv
<1>1. DOMAIN limit' = {"lastNow", "leases"} /\ limit'.lastNow \in 0..clock' BY <1>0, LimitKeptType DEF Acquire
<1>2. CASE Ends(x) BY <1>0, <1>1, <1>2, ExecEnds
<1>3. CASE Goes(x, "claim") /\ UNCHANGED queue
  <2>1. "claim" \in ExecPcs \ {"finish"} BY DEF ExecPcs
  <2>. QED BY <1>0, <1>1, <1>3, <2>1, GoesOn
<1>. QED BY <1>2, <1>3 DEF Acquire

LEMMA ClaimExecs == ASSUME ExecsInv, NEW x \in Execs, Claim(x) PROVE ExecsInv'
<1>0. Busy(x) /\ UNCHANGED <<clock, queue, limit>> BY DEF Claim, Busy
<1>1. DOMAIN limit' = {"lastNow", "leases"} /\ limit'.lastNow \in 0..clock' BY <1>0 DEF ExecsInv
<1>2. CASE Goes(x, "release")
  <2>1. "release" \in ExecPcs \ {"finish"} BY DEF ExecPcs
  <2>. QED BY <1>0, <1>1, <1>2, <2>1, GoesOn
<1>3. ASSUME NEW t \in HostTimes, execs' = [execs EXCEPT ![x].pc = "renew", ![x].until = t + LeaseMs] PROVE ExecsInv'
  <2>1. PICK w \in Exec : w = execs[x] BY ExecFields
  <2>2. PICK n \in Int : n = t + LeaseMs BY DEF HostTimes, LeaseMs
  <2>3. PICK r : r = [w EXCEPT !.pc = "renew", !.until = n] OBVIOUS
  <2>4. r \in Exec /\ r.pc = "renew" /\ r.d = w.d /\ r.gen = w.gen BY <2>3 DEF Exec, ExecPcs
  <2>5. Puts(x, r) BY <1>3, <2>1, <2>2, <2>3 DEF Puts, ExecsInv
  <2>. QED BY <1>0, <1>1, <2>1, <2>4, <2>5, ExecAdvances
<1>. QED BY <1>2, <1>3 DEF Claim

LEMMA RenewExecs == ASSUME ExecsInv, NEW x \in Execs, Renew(x) PROVE ExecsInv'
<1>0. Busy(x) /\ UNCHANGED <<clock, queue>> /\ clock \in Nat BY DEF Renew, Busy, ExecsInv
<1>1. DOMAIN limit' = {"lastNow", "leases"} /\ limit'.lastNow \in 0..clock' BY <1>0, LimitKeptType DEF Renew
<1>2. CASE Goes(x, "release")
  <2>1. "release" \in ExecPcs \ {"finish"} BY DEF ExecPcs
  <2>. QED BY <1>0, <1>1, <1>2, <2>1, GoesOn
<1>3. CASE ~Goes(x, "release")
  <2>1. PICK w \in Exec : w = execs[x] BY ExecFields
  <2>2. PICK t \in HostTimes :
          LET until == Deadline(execs[x].until, LiveState(limit, clock).lastNow + LeaseMs, t)
          IN execs' = [execs EXCEPT ![x].pc = IF until > clock THEN "send" ELSE "release", ![x].until = until]
    BY <1>3 DEF Renew
  <2>3. PICK n : n = Deadline(execs[x].until, LiveState(limit, clock).lastNow + LeaseMs, t) OBVIOUS
  <2>4. n \in Int
    BY <2>1, <2>3, <1>0, LiveNow, ExecFields DEF Deadline, Least, LeaseMs, HostTimes
  <2>5. PICK pc \in {"send", "release"} : pc = IF n > clock THEN "send" ELSE "release" OBVIOUS
  <2>6. PICK r : r = [w EXCEPT !.pc = pc, !.until = n] OBVIOUS
  <2>7. r \in Exec /\ r.pc = pc /\ r.d = w.d /\ r.gen = w.gen BY <2>4, <2>6 DEF Exec, ExecPcs
  <2>8. Puts(x, r) BY <2>1, <2>2, <2>3, <2>5, <2>6 DEF Puts, ExecsInv
  <2>. QED BY <1>0, <1>1, <2>1, <2>5, <2>7, <2>8, ExecAdvances
<1>. QED BY <1>2, <1>3

LEMMA SentExecs == ASSUME ExecsInv, NEW x \in Execs, Sent(x) PROVE ExecsInv'
<1>0. Busy(x) /\ UNCHANGED <<clock, queue, limit>> BY DEF Sent, Busy
<1>1. DOMAIN limit' = {"lastNow", "leases"} /\ limit'.lastNow \in 0..clock' BY <1>0 DEF ExecsInv
<1>2. PICK c \in Answers : execs' = [execs EXCEPT ![x].pc = "finish", ![x].code = c, ![x].until = NULL]
  BY DEF Sent, Answers
<1>3. PICK w \in Exec : w = execs[x] BY ExecFields
<1>4. PICK r : r = [w EXCEPT !.pc = "finish", !.code = c, !.until = NULL] OBVIOUS
<1>5. r \in Exec /\ r.pc = "finish" /\ r.d = w.d /\ r.gen = w.gen /\ r.code = c
  <2>1. "finish" \in ExecPcs /\ NULL \in Int /\ c \in Answers \cup {"open"} BY DEF ExecPcs, NULL
  <2>. QED BY <1>4, <2>1 DEF Exec
<1>6. Puts(x, r) BY <1>2, <1>3, <1>4 DEF Puts, ExecsInv
<1>. QED BY <1>0, <1>1, <1>3, <1>5, <1>6, ExecAdvances

LEMMA FinishExecs == ASSUME ExecsInv, NEW x \in Execs, Finish(x) \/ CallFails(x) PROVE ExecsInv'
<1>0. Busy(x) /\ UNCHANGED <<clock, queue, limit>> /\ Goes(x, "release") BY DEF Finish, CallFails, Busy
<1>1. DOMAIN limit' = {"lastNow", "leases"} /\ limit'.lastNow \in 0..clock' BY <1>0 DEF ExecsInv
<1>2. "release" \in ExecPcs \ {"finish"} BY DEF ExecPcs
<1>. QED BY <1>0, <1>1, <1>2, GoesOn

LEMMA ReleaseExecs == ASSUME ExecsInv, NEW x \in Execs, Release(x) \/ Die(x) PROVE ExecsInv'
<1>0. Busy(x) /\ clock' = clock /\ Ends(x) /\ clock \in Nat BY DEF Release, Die, Busy, ExecsInv
<1>1. DOMAIN limit' = {"lastNow", "leases"} /\ limit'.lastNow \in 0..clock' BY <1>0, LimitKeptType DEF Release, Die
<1>. QED BY <1>0, <1>1, ExecEnds

(* The steps that leave executions, jobs, leases and the clock alone.      *)
Elsewhere == UNCHANGED <<clock, queue, execs, limit>>

LEMMA ElsewhereExecs == ASSUME ExecsInv, Elsewhere PROVE ExecsInv'
BY DEF Elsewhere, ExecsInv, RunsJob, Busy, Token

LEMMA ExecsStep == ExecsInv /\ [Next]_vars => ExecsInv'
<1>. SUFFICES ASSUME ExecsInv, [Next]_vars PROVE ExecsInv' OBVIOUS
<1>1. CASE UNCHANGED vars BY <1>1, ElsewhereExecs DEF vars, Elsewhere
<1>2. CASE Tick
  <2>1. clock' \in Nat /\ clock' = clock + 1 /\ UNCHANGED <<queue, execs, limit>> BY <1>2 DEF Tick, ExecsInv
  <2>. QED BY <2>1 DEF ExecsInv, RunsJob, Busy, Token
<1>3. CASE PutEndpoint BY <1>3, ElsewhereExecs DEF PutEndpoint, Elsewhere
<1>4. CASE Work BY <1>4, StartExecs DEF Work
<1>5. CASE Rescue BY <1>5, ElsewhereExecs DEF Rescue, Recover, Lookup, AdvanceSchedule, Elsewhere
<1>6. ASSUME NEW d \in Deliveries, Publish(d) \/ Prune(d) \/ \E o \in Deliveries : Replay(d, o) PROVE ExecsInv'
  BY <1>6, ElsewhereExecs DEF Publish, Prune, Replay, NewDelivery, Elsewhere
<1>7. ASSUME NEW p \in handoff, Schedule(p) \/ ScheduleFails(p) PROVE ExecsInv'
  BY <1>7, ScheduleExecs, ElsewhereExecs DEF ScheduleFails, Elsewhere
<1>8. ASSUME NEW x \in Execs, ExecStep(x) \/ CallFails(x) \/ Die(x) PROVE ExecsInv'
  BY <1>8, AcquireExecs, ClaimExecs, RenewExecs, SentExecs, FinishExecs, ReleaseExecs DEF ExecStep
<1>. QED BY <1>1, <1>2, <1>3, <1>4, <1>5, <1>6, <1>7, <1>8 DEF Next

-----------------------------------------------------------------------------
(***************************************************************************)
(* Admission                                                               *)
(***************************************************************************)
Lease == [token : Deliveries \X (1..MaxGen), quantity : {1}, expiresAt : Nat]

Bounded(S) == /\ S \subseteq Lease /\ IsFiniteSet(S) /\ Cardinality(S) <= Concurrency
              /\ \A l, k \in S : l.token = k.token => l = k
Spent(S) == \A l \in S : queue[l.token[1]][l.token[2]] \in {"running", "ended"}

(* A request has a lease that outlasts its deadline; an execution that has *)
(* not asked for a lease has none left from an earlier one.                *)
Served(x) == At(x, "send") =>
               /\ clock <= execs[x].until
               /\ \E l \in limit.leases : l.token = Token(x) /\ l.expiresAt > execs[x].until
Unserved(x) == At(x, "acquire") => \A l \in limit.leases : l.token # Token(x)
LimitInv == /\ Bounded(limit.leases) /\ Spent(limit.leases)
            /\ \A x \in Execs : Served(x) /\ Unserved(x)

LEMMA LimitStarts == Init => LimitInv
<1>. SUFFICES ASSUME Init PROVE LimitInv OBVIOUS
<1>1. limit.leases = {} /\ Concurrency >= 0 BY DEF Init, NoLeases
<1>2. \A x \in Execs : execs[x].pc = "idle" BY DEF Init, Idle
<1>. QED BY <1>1, <1>2, FS_EmptySet DEF LimitInv, Bounded, Spent, Served, Unserved

LEMMA BoundedSubset == ASSUME NEW S, NEW R, Bounded(S), R \subseteq S PROVE Bounded(R)
<1>1. IsFiniteSet(R) /\ Cardinality(R) <= Cardinality(S) BY FS_Subset DEF Bounded
<1>2. Cardinality(R) \in Nat /\ Cardinality(S) \in Nat BY <1>1, FS_CardinalityType DEF Bounded
<1>. QED BY <1>1, <1>2 DEF Bounded

(* Jobs never go back.                                                     *)
QueueAdvances == \A d \in Deliveries, g \in 1..MaxGen :
                   queue[d][g] \in {"running", "ended"} => queue'[d][g] \in {"running", "ended"}

LEMMA SpentKept ==
  ASSUME LimitInv, QueueAdvances, NEW R, R \subseteq limit.leases
  PROVE  \A l \in R : queue'[l.token[1]][l.token[2]] \in {"running", "ended"}
  BY DEF LimitInv, Bounded, Lease, Spent, QueueAdvances

LEMMA EndsAdvances == ASSUME ExecsInv, NEW x \in Execs, Busy(x), Ends(x) PROVE QueueAdvances
<1>1. PICK d \in Deliveries, g \in 1..MaxGen : d = execs[x].d /\ g = execs[x].gen BY DEF ExecsInv, RunsJob
<1>2. queue' = [queue EXCEPT ![d][g] = "ended"] BY <1>1 DEF Ends
<1>. QED BY <1>2 DEF ExecsInv, QueueAdvances

LEMMA SameAdvances == ASSUME UNCHANGED queue PROVE QueueAdvances BY DEF QueueAdvances

(* A step of x that grants nothing.                                        *)
Moves(x) == /\ \A y \in Execs : y # x => execs'[y] = execs[y]
            /\ execs'[x].pc \notin {"send", "acquire"}

LEMMA LimitShrinks ==
  ASSUME ExecsInv, LimitInv, NEW x \in Execs, Busy(x), Moves(x), QueueAdvances, clock' = clock,
         limit'.leases \subseteq limit.leases,
         \A l \in limit.leases : l.expiresAt > clock /\ l.token # Token(x) => l \in limit'.leases
  PROVE  LimitInv'
<1>1. Bounded(limit.leases)' BY BoundedSubset DEF LimitInv, Bounded
<1>2. Spent(limit.leases)' BY SpentKept DEF Spent
<1>3. ASSUME NEW y \in Execs, execs'[y].pc \in {"send", "acquire"} PROVE Served(y)' /\ Unserved(y)'
  <2>1. y # x /\ execs'[y] = execs[y] /\ Token(y)' = Token(y) BY <1>3 DEF Moves, Token
  <2>2. Served(y) /\ Unserved(y) BY DEF LimitInv
  <2>3. Unserved(y)' BY <2>1, <2>2 DEF Unserved
  <2>4. ASSUME execs[y].pc = "send" PROVE Served(y)'
    <3>1. PICK l \in limit.leases : l.token = Token(y) /\ l.expiresAt > execs[y].until
      BY <2>2, <2>4 DEF Served
    <3>2. l.expiresAt \in Nat BY DEF LimitInv, Bounded, Lease
    <3>3. l.expiresAt > clock BY <2>2, <2>4, <3>1, <3>2, ExecFields DEF Served, ExecsInv
    <3>4. Token(y) # Token(x) BY <2>1, <2>4 DEF ExecsInv, Busy
    <3>. QED BY <2>1, <2>2, <2>4, <3>1, <3>3, <3>4 DEF Served
  <2>. QED BY <2>1, <2>3, <2>4 DEF Served
<1>4. ASSUME NEW y \in Execs PROVE Served(y)' /\ Unserved(y)'
  BY <1>3 DEF Served, Unserved
<1>. QED BY <1>1, <1>2, <1>4 DEF LimitInv

(* The same when nothing is granted to anyone and no execution moves.      *)
LEMMA LimitStays ==
  ASSUME ExecsInv, LimitInv, UNCHANGED <<clock, execs, limit>>, QueueAdvances PROVE LimitInv'
<1>1. Spent(limit.leases)' BY SpentKept DEF Spent
<1>. QED BY <1>1 DEF LimitInv, Served, Unserved, Token

LEMMA GoesMoves ==
  ASSUME ExecsInv, NEW x \in Execs, NEW pc \in ExecPcs \ {"send", "acquire"}, Goes(x, pc) PROVE Moves(x)
  BY ExecFields DEF Goes, Moves, ExecsInv, Exec

LEMMA EndsMoves == ASSUME ExecsInv, NEW x \in Execs, Ends(x) PROVE Moves(x)
  BY DEF Ends, Moves, ExecsInv, Idle

LEMMA LiveLeases ==
  ASSUME ExecsInv, NEW q, q = LiveState(limit, clock)
  PROVE  /\ DOMAIN q = {"lastNow", "leases"} /\ q.lastNow = clock /\ q.leases \subseteq limit.leases
         /\ \A l \in limit.leases : l.expiresAt > clock => l \in q.leases
         /\ \A l \in q.leases : l.expiresAt > clock
  BY LiveNow

LEMMA ReleasedLeases ==
  ASSUME ExecsInv, NEW token, limit' = ReleaseState(LiveState(limit, clock), token)
  PROVE  /\ limit'.leases \subseteq limit.leases
         /\ \A l \in limit.leases : l.expiresAt > clock /\ l.token # token => l \in limit'.leases
<1>1. PICK live : live = LiveState(limit, clock) OBVIOUS
<1>2. limit'.leases = live.leases \ Holding(live, token) BY <1>1, LiveLeases DEF ReleaseState
<1>. QED BY <1>1, <1>2, LiveLeases DEF Holding

(* A lease that is granted is one more, and within the capacity.           *)
LEMMA AcquiredLeases ==
  ASSUME ExecsInv, LimitInv, NEW x \in Execs, At(x, "acquire"), Admits(LiveState(limit, clock), Concurrency, 1),
         limit' = AcquireState(LiveState(limit, clock), Token(x), 1, LeaseMs)
  PROVE  /\ Bounded(limit'.leases)
         /\ \A l \in limit.leases : l.expiresAt > clock => l \in limit'.leases
         /\ \A l \in limit'.leases : l \in limit.leases \/ l.token = Token(x)
<1>1. PICK live : live = LiveState(limit, clock) OBVIOUS
<1>2. PICK new : new = [token |-> Token(x), quantity |-> 1, expiresAt |-> live.lastNow + LeaseMs] OBVIOUS
<1>3. limit'.leases = live.leases \cup {new} BY <1>1, <1>2, LiveLeases DEF AcquireState
<1>4. new \in Lease /\ new.token = Token(x)
  <2>1. execs[x].d \in Deliveries /\ execs[x].gen \in 1..MaxGen BY DEF ExecsInv, RunsJob, Busy
  <2>2. Token(x) \in Deliveries \X (1..MaxGen) BY <2>1 DEF Token
  <2>3. live.lastNow + LeaseMs \in Nat BY <1>1, LiveLeases DEF ExecsInv, LeaseMs
  <2>. QED BY <1>2, <2>2, <2>3 DEF Lease
<1>5. Bounded(live.leases) BY <1>1, LiveLeases, BoundedSubset DEF LimitInv
<1>6. Quantities(live.leases) = Cardinality(live.leases)
  <2>1. \A l \in live.leases : l.quantity = 1 BY <1>5 DEF Bounded, Lease
  <2>. QED BY <1>5, <2>1, QuantitiesOfOnes DEF Bounded
<1>7. Cardinality(live.leases) + 1 <= Concurrency
  <2>1. Cardinality(live.leases) \in Nat BY <1>5, FS_CardinalityType DEF Bounded
  <2>2. 1 <= Concurrency - Quantities(live.leases) BY <1>1 DEF Admits
  <2>. QED BY <1>6, <2>1, <2>2
<1>8. IsFiniteSet(live.leases \cup {new}) /\ Cardinality(live.leases \cup {new}) <= Concurrency
  <2>1. PICK S : S = live.leases OBVIOUS
  <2>2. IsFiniteSet(S) /\ Cardinality(S) \in Nat /\ Cardinality(S) + 1 <= Concurrency
    BY <1>5, <1>7, <2>1, FS_CardinalityType DEF Bounded
  <2>3. /\ IsFiniteSet(S \cup {new})
        /\ Cardinality(S \cup {new}) = Cardinality(S) \/ Cardinality(S \cup {new}) = Cardinality(S) + 1
    BY <2>2, FS_AddElement
  <2>. QED BY <2>1, <2>2, <2>3
<1>9. \A l \in live.leases : l.token # Token(x) BY <1>1, LiveLeases DEF LimitInv, Unserved
<1>. QED BY <1>1, <1>3, <1>4, <1>5, <1>8, <1>9, LiveLeases DEF Bounded

(* A renewal keeps the leases apart and their number.                      *)
LEMMA RenewedLeases ==
  ASSUME ExecsInv, LimitInv, NEW token, limit' = RenewState(LiveState(limit, clock), token, LeaseMs)
  PROVE  /\ Bounded(limit'.leases)
         /\ \A l \in limit.leases : l.expiresAt > clock /\ l.token # token => l \in limit'.leases
         /\ \A l \in limit'.leases : \E k \in limit.leases : k.token = l.token
         /\ \A l \in limit'.leases : l.token = token => l.expiresAt >= clock + LeaseMs
         /\ Holding(LiveState(limit, clock), token) # {} => \E l \in limit'.leases : l.token = token
<1>1. PICK live : live = LiveState(limit, clock) OBVIOUS
<1>2. Bounded(live.leases) /\ live.lastNow = clock BY <1>1, LiveLeases, BoundedSubset DEF LimitInv
<1>3. PICK n \in Nat : n = live.lastNow + LeaseMs BY <1>2 DEF ExecsInv, LeaseMs
<1>4. PICK up : up = [l \in live.leases |-> IF l.token = token THEN [l EXCEPT !.expiresAt = Max({l.expiresAt, n})] ELSE l]
  OBVIOUS
<1>5. limit'.leases = {up[l] : l \in live.leases}
  <2>1. limit'.leases = {IF l.token = token THEN [l EXCEPT !.expiresAt = Max({l.expiresAt, n})] ELSE l : l \in live.leases}
    BY <1>1, <1>3, LiveLeases DEF RenewState
  <2>. QED BY <1>4, <2>1
<1>6. ASSUME NEW l \in live.leases
      PROVE  /\ up[l] \in Lease /\ up[l].token = l.token
             /\ l.token # token => up[l] = l
             /\ l.token = token => up[l].expiresAt >= n
  <2>1. l \in Lease BY <1>2 DEF Bounded
  <2>2. PICK m : m = Max({l.expiresAt, n}) OBVIOUS
  <2>3. m \in Nat /\ m >= n BY <2>1, <2>2, MaxOfTwo DEF Lease
  <2>4. CASE l.token # token BY <1>4, <2>1, <2>4
  <2>5. CASE l.token = token
    <3>1. up[l] = [l EXCEPT !.expiresAt = m] BY <1>4, <2>2, <2>5
    <3>. QED BY <2>1, <2>3, <2>5, <3>1 DEF Lease
  <2>. QED BY <2>4, <2>5
<1>7. IsFiniteSet(limit'.leases) /\ Cardinality(limit'.leases) <= Concurrency
  <2>1. PICK R : R = limit'.leases OBVIOUS
  <2>2. up \in Surjection(live.leases, R) BY <1>4, <1>5, <2>1 DEF Surjection
  <2>3. IsFiniteSet(R) /\ Cardinality(R) <= Cardinality(live.leases) BY <1>2, <2>2, FS_Surjection DEF Bounded
  <2>4. Cardinality(R) \in Nat /\ Cardinality(live.leases) \in Nat BY <1>2, <2>3, FS_CardinalityType DEF Bounded
  <2>. QED BY <1>2, <2>1, <2>3, <2>4 DEF Bounded
<1>8. \A l, k \in limit'.leases : l.token = k.token => l = k BY <1>2, <1>5, <1>6 DEF Bounded
<1>9. Bounded(limit'.leases) BY <1>5, <1>6, <1>7, <1>8 DEF Bounded
<1>10. \A l \in limit.leases : l.expiresAt > clock /\ l.token # token => l \in limit'.leases
  BY <1>1, <1>5, <1>6, LiveLeases
<1>11. \A l \in limit'.leases : \E k \in limit.leases : k.token = l.token BY <1>1, <1>5, <1>6, LiveLeases
<1>12. \A l \in limit'.leases : l.token = token => l.expiresAt >= clock + LeaseMs BY <1>2, <1>3, <1>5, <1>6
<1>13. Holding(live, token) # {} => \E l \in limit'.leases : l.token = token BY <1>5, <1>6 DEF Holding
<1>. QED BY <1>1, <1>9, <1>10, <1>11, <1>12, <1>13

(* A step of x, which leaves the leases of others alone.                   *)
LEMMA LimitSteps ==
  ASSUME ExecsInv, LimitInv, NEW x \in Execs, Busy(x), \A y \in Execs : y # x => execs'[y] = execs[y],
         clock' = clock, Bounded(limit'.leases), Spent(limit.leases)', Served(x)', Unserved(x)',
         \A l \in limit.leases : l.expiresAt > clock /\ l.token # Token(x) => l \in limit'.leases,
         \A l \in limit'.leases : l.token = Token(x) \/ \E k \in limit.leases : k.token = l.token
  PROVE  LimitInv'
<1>1. ASSUME NEW y \in Execs, y # x, execs'[y].pc \in {"send", "acquire"} PROVE Served(y)' /\ Unserved(y)'
  <2>1. execs'[y] = execs[y] /\ Token(y)' = Token(y) /\ Busy(y) BY <1>1 DEF Token, Busy
  <2>2. Served(y) /\ Unserved(y) /\ Token(y) # Token(x) BY <1>1, <2>1 DEF LimitInv, ExecsInv
  <2>3. Unserved(y)' BY <2>1, <2>2 DEF Unserved
  <2>4. ASSUME execs[y].pc = "send" PROVE Served(y)'
    <3>1. PICK l \in limit.leases : l.token = Token(y) /\ l.expiresAt > execs[y].until
      BY <2>2, <2>4 DEF Served
    <3>2. l.expiresAt \in Nat BY DEF LimitInv, Bounded, Lease
    <3>3. l.expiresAt > clock BY <2>2, <2>4, <3>1, <3>2, ExecFields DEF Served, ExecsInv
    <3>. QED BY <2>1, <2>2, <2>4, <3>1, <3>3 DEF Served
  <2>. QED BY <2>1, <2>3, <2>4 DEF Served
<1>2. ASSUME NEW y \in Execs PROVE Served(y)' /\ Unserved(y)'
  BY <1>1 DEF Served, Unserved
<1>. QED BY <1>2 DEF LimitInv, Bounded

LEMMA TickLimit == ASSUME ExecsInv, LimitInv, Tick PROVE LimitInv'
<1>1. UNCHANGED <<queue, execs, limit>> /\ clock' = clock + 1 /\ clock \in Nat BY DEF Tick, ExecsInv
<1>2. \A x \in Execs : execs[x].pc = "send" => clock < execs[x].until BY DEF Tick
<1>3. ASSUME NEW x \in Execs PROVE Served(x)' /\ Unserved(x)'
  BY <1>1, <1>2, ExecFields DEF LimitInv, Served, Unserved, Token
<1>. QED BY <1>1, <1>3 DEF LimitInv, Spent

LEMMA StartLimit ==
  ASSUME ExecsInv, LimitInv, NEW x \in Execs, NEW d \in Deliveries, NEW g \in 1..MaxGen, Start(x, d, g)
  PROVE  LimitInv'
<1>1. UNCHANGED <<clock, limit>> /\ queue[d][g] = "pending" /\ queue' = [queue EXCEPT ![d][g] = "running"]
      /\ execs' = [execs EXCEPT ![x] = [Idle EXCEPT !.pc = "acquire", !.d = d, !.gen = g]]
  BY DEF Start
<1>2. QueueAdvances BY <1>1 DEF ExecsInv, QueueAdvances
<1>3. Spent(limit.leases)' BY <1>1, <1>2, SpentKept DEF Spent
<1>4. execs'[x].pc = "acquire" /\ execs'[x].d = d /\ execs'[x].gen = g /\ \A y \in Execs : y # x => execs'[y] = execs[y]
  BY <1>1 DEF ExecsInv, Idle
<1>5. \A l \in limit.leases : l.token # <<d, g>> BY <1>1 DEF LimitInv, Spent
<1>6. Served(x)' /\ Unserved(x)' BY <1>1, <1>4, <1>5 DEF Served, Unserved, Token
<1>7. ASSUME NEW y \in Execs, y # x PROVE Served(y)' /\ Unserved(y)'
  BY <1>1, <1>4, <1>7 DEF LimitInv, Served, Unserved, Token
<1>. QED BY <1>1, <1>3, <1>6, <1>7 DEF LimitInv

LEMMA AcquireLimit == ASSUME ExecsInv, LimitInv, NEW x \in Execs, Acquire(x) PROVE LimitInv'
<1>0. Busy(x) /\ At(x, "acquire") /\ clock' = clock BY DEF Acquire, Busy
<1>1. PICK live : live = LiveState(limit, clock) OBVIOUS
<1>2. CASE limit' = live /\ Ends(x)
  <2>1. Moves(x) /\ QueueAdvances BY <1>0, <1>2, EndsMoves, EndsAdvances
  <2>2. limit'.leases \subseteq limit.leases BY <1>1, <1>2, LiveLeases
  <2>3. \A l \in limit.leases : l.expiresAt > clock /\ l.token # Token(x) => l \in limit'.leases
    BY <1>1, <1>2, LiveLeases
  <2>. QED BY <1>0, <2>1, <2>2, <2>3, LimitShrinks
<1>3. CASE /\ Admits(live, Concurrency, 1) /\ limit' = AcquireState(live, Token(x), 1, LeaseMs)
           /\ Goes(x, "claim") /\ UNCHANGED queue
  <2>1. /\ Bounded(limit'.leases) /\ \A l \in limit.leases : l.expiresAt > clock => l \in limit'.leases
        /\ \A l \in limit'.leases : l \in limit.leases \/ l.token = Token(x)
    BY <1>0, <1>1, <1>3, AcquiredLeases
  <2>2. queue[execs[x].d][execs[x].gen] = "running" BY <1>0 DEF ExecsInv, RunsJob
  <2>3. ASSUME NEW l \in limit'.leases PROVE queue'[l.token[1]][l.token[2]] \in {"running", "ended"}
    <3>1. CASE l \in limit.leases BY <1>3, <3>1 DEF LimitInv, Spent
    <3>2. CASE l.token = Token(x) BY <1>3, <2>2, <3>2 DEF Token
    <3>. QED BY <2>1, <3>1, <3>2
  <2>4. Spent(limit.leases)' BY <2>3 DEF Spent
  <2>5. Moves(x)
    <3>1. "claim" \in ExecPcs \ {"send", "acquire"} BY DEF ExecPcs
    <3>. QED BY <1>3, <3>1, GoesMoves
  <2>6. Served(x)' /\ Unserved(x)' BY <2>5 DEF Moves, Served, Unserved
  <2>. QED BY <1>0, <2>1, <2>4, <2>5, <2>6, LimitSteps DEF Moves
<1>. QED BY <1>1, <1>2, <1>3 DEF Acquire

(* Claim, Finish and failures leave the leases alone.                      *)
LEMMA SameLimit ==
  ASSUME ExecsInv, LimitInv, NEW x \in Execs, Busy(x), Moves(x), UNCHANGED <<clock, queue, limit>> PROVE LimitInv'
<1>1. QueueAdvances BY SameAdvances
<1>. QED BY <1>1, LimitShrinks

LEMMA ClaimLimit == ASSUME ExecsInv, LimitInv, NEW x \in Execs, Claim(x) PROVE LimitInv'
<1>0. Busy(x) /\ UNCHANGED <<clock, queue, limit>> BY DEF Claim, Busy
<1>1. CASE Goes(x, "release")
  <2>1. "release" \in ExecPcs \ {"send", "acquire"} BY DEF ExecPcs
  <2>. QED BY <1>0, <1>1, <2>1, GoesMoves, SameLimit
<1>2. ASSUME NEW t \in HostTimes, execs' = [execs EXCEPT ![x].pc = "renew", ![x].until = t + LeaseMs] PROVE LimitInv'
  <2>1. Moves(x) BY <1>2, ExecFields DEF Moves, ExecsInv, Exec
  <2>. QED BY <1>0, <2>1, SameLimit
<1>. QED BY <1>1, <1>2 DEF Claim

LEMMA SentLimit == ASSUME ExecsInv, LimitInv, NEW x \in Execs, Sent(x) PROVE LimitInv'
<1>0. Busy(x) /\ UNCHANGED <<clock, queue, limit>> BY DEF Sent, Busy
<1>1. PICK c : execs' = [execs EXCEPT ![x].pc = "finish", ![x].code = c, ![x].until = NULL] BY DEF Sent
<1>2. Moves(x) BY <1>1, ExecFields DEF Moves, ExecsInv, Exec
<1>. QED BY <1>0, <1>2, SameLimit

LEMMA FinishLimit == ASSUME ExecsInv, LimitInv, NEW x \in Execs, Finish(x) \/ CallFails(x) PROVE LimitInv'
<1>0. Busy(x) /\ UNCHANGED <<clock, queue, limit>> /\ Goes(x, "release") BY DEF Finish, CallFails, Busy
<1>1. "release" \in ExecPcs \ {"send", "acquire"} BY DEF ExecPcs
<1>. QED BY <1>0, <1>1, GoesMoves, SameLimit

LEMMA ReleaseLimit == ASSUME ExecsInv, LimitInv, NEW x \in Execs, Release(x) \/ Die(x) PROVE LimitInv'
<1>0. Busy(x) /\ clock' = clock /\ Ends(x) BY DEF Release, Die, Busy
<1>1. Moves(x) /\ QueueAdvances BY <1>0, EndsMoves, EndsAdvances
<1>2. /\ limit'.leases \subseteq limit.leases
      /\ \A l \in limit.leases : l.expiresAt > clock /\ l.token # Token(x) => l \in limit'.leases
  <2>1. CASE Release(x)
    <3>1. limit' = ReleaseState(LiveState(limit, clock), Token(x)) BY <2>1 DEF Release
    <3>. QED BY <3>1, ReleasedLeases
  <2>2. CASE Die(x) BY <2>2 DEF Die
  <2>. QED BY <2>1, <2>2
<1>. QED BY <1>0, <1>1, <1>2, LimitShrinks

(* The deadline lies within the time of a request, and so before the end   *)
(* of a lease that is renewed now.                                         *)
LEMMA DeadlineBefore ==
  ASSUME clock \in Nat, NEW lease \in Int, NEW expires \in Int, NEW t \in Nat
  PROVE  /\ Deadline(lease, expires, t) \in Int /\ Deadline(lease, expires, t) < clock + LeaseMs
         /\ Deadline(lease, expires, t) <= clock + (lease - t - Margin)
  BY DEF Deadline, Least, LeaseMs

LEMMA RenewLimit == ASSUME ExecsInv, LimitInv, NEW x \in Execs, Renew(x) PROVE LimitInv'
<1>0. Busy(x) /\ UNCHANGED <<clock, queue>> /\ clock \in Nat BY DEF Renew, Busy, ExecsInv
<1>1. PICK live : live = LiveState(limit, clock) OBVIOUS
<1>2. CASE limit' = live /\ Goes(x, "release")
  <2>1. "release" \in ExecPcs \ {"send", "acquire"} BY DEF ExecPcs
  <2>2. Moves(x) /\ QueueAdvances BY <1>0, <1>2, <2>1, GoesMoves, SameAdvances
  <2>3. /\ limit'.leases \subseteq limit.leases
        /\ \A l \in limit.leases : l.expiresAt > clock /\ l.token # Token(x) => l \in limit'.leases
    BY <1>1, <1>2, LiveLeases
  <2>. QED BY <1>0, <2>2, <2>3, LimitShrinks
<1>3. ASSUME Holding(live, Token(x)) # {}, limit' = RenewState(live, Token(x), LeaseMs),
             NEW t \in HostTimes, NEW n, n = Deadline(execs[x].until, live.lastNow + LeaseMs, t),
             execs' = [execs EXCEPT ![x].pc = IF n > clock THEN "send" ELSE "release", ![x].until = n]
      PROVE  LimitInv'
  <2>1. /\ Bounded(limit'.leases)
        /\ \A l \in limit.leases : l.expiresAt > clock /\ l.token # Token(x) => l \in limit'.leases
        /\ \A l \in limit'.leases : \E k \in limit.leases : k.token = l.token
        /\ \A l \in limit'.leases : l.token = Token(x) => l.expiresAt >= clock + LeaseMs
        /\ \E l \in limit'.leases : l.token = Token(x)
    BY <1>1, <1>3, RenewedLeases
  <2>2. Spent(limit.leases)' BY <1>0, <2>1 DEF LimitInv, Spent
  <2>3. n \in Int /\ n < clock + LeaseMs
    <3>1. PICK e, u : e = live.lastNow + LeaseMs /\ u = execs[x].until OBVIOUS
    <3>2. live.lastNow = clock /\ LeaseMs \in Nat BY <1>1, LiveLeases DEF LeaseMs
    <3>3. e \in Int /\ u \in Int /\ t \in Nat BY <1>0, <3>1, <3>2, ExecFields DEF HostTimes
    <3>4. n = Deadline(u, e, t) BY <1>3, <3>1
    <3>. QED BY <1>0, <3>3, <3>4, DeadlineBefore
  <2>4. /\ execs'[x].pc \in {"send", "release"} /\ (execs'[x].pc = "send" => n > clock)
        /\ execs'[x].until = n /\ Token(x)' = Token(x) /\ \A y \in Execs : y # x => execs'[y] = execs[y]
    BY <1>3, ExecFields DEF ExecsInv, Token, Exec
  <2>5. Unserved(x)' BY <2>4 DEF Unserved
  <2>6. Served(x)'
    <3>1. PICK l \in limit'.leases : l.token = Token(x) /\ l.expiresAt >= clock + LeaseMs BY <2>1
    <3>2. l.expiresAt \in Nat /\ LeaseMs \in Nat BY <2>1 DEF Bounded, Lease, LeaseMs
    <3>. QED BY <1>0, <2>3, <2>4, <3>1, <3>2 DEF Served
  <2>. QED BY <1>0, <2>1, <2>2, <2>4, <2>5, <2>6, LimitSteps
<1>. QED BY <1>1, <1>2, <1>3 DEF Renew

LEMMA LimitSteady == ASSUME ExecsInv, LimitInv, Elsewhere PROVE LimitInv'
BY LimitStays, SameAdvances DEF Elsewhere

LEMMA ScheduleLimit == ASSUME ExecsInv, LimitInv, NEW p, Schedule(p) PROVE LimitInv'
<1>1. UNCHANGED <<clock, execs, limit>> BY DEF Schedule
<1>2. CASE queue' = queue BY <1>1, <1>2, LimitStays, SameAdvances
<1>3. CASE queue[p[1]][p[2]] = "none" /\ queue' = [queue EXCEPT ![p[1]][p[2]] = "pending"]
  <2>1. PICK d, g : d = p[1] /\ g = p[2] OBVIOUS
  <2>2. queue[d][g] = "none" /\ queue' = [queue EXCEPT ![d][g] = "pending"] BY <1>3, <2>1
  <2>3. QueueAdvances BY <2>2 DEF ExecsInv, QueueAdvances
  <2>. QED BY <1>1, <2>3, LimitStays
<1>. QED BY <1>2, <1>3 DEF Schedule

LEMMA LimitStep == ExecsInv /\ LimitInv /\ [Next]_vars => LimitInv'
<1>. SUFFICES ASSUME ExecsInv, LimitInv, [Next]_vars PROVE LimitInv' OBVIOUS
<1>1. CASE UNCHANGED vars BY <1>1, LimitSteady DEF vars, Elsewhere
<1>2. CASE Tick BY <1>2, TickLimit
<1>3. CASE PutEndpoint BY <1>3, LimitSteady DEF PutEndpoint, Elsewhere
<1>4. CASE Work BY <1>4, StartLimit DEF Work
<1>5. CASE Rescue BY <1>5, LimitSteady DEF Rescue, Recover, Lookup, AdvanceSchedule, Elsewhere
<1>6. ASSUME NEW d \in Deliveries, Publish(d) \/ Prune(d) \/ \E o \in Deliveries : Replay(d, o) PROVE LimitInv'
  BY <1>6, LimitSteady DEF Publish, Prune, Replay, NewDelivery, Elsewhere
<1>7. ASSUME NEW p \in handoff, Schedule(p) \/ ScheduleFails(p) PROVE LimitInv'
  BY <1>7, ScheduleLimit, LimitSteady DEF ScheduleFails, Elsewhere
<1>8. ASSUME NEW x \in Execs, ExecStep(x) \/ CallFails(x) \/ Die(x) PROVE LimitInv'
  BY <1>8, AcquireLimit, ClaimLimit, RenewLimit, SentLimit, FinishLimit, ReleaseLimit DEF ExecStep
<1>. QED BY <1>1, <1>2, <1>3, <1>4, <1>5, <1>6, <1>7, <1>8 DEF Next

(* Every request has a lease of its own, which ends after it.              *)
THEOREM RequestsHaveLeases == Spec => [](ExecsInv /\ LimitInv)
<1>1. ExecsInv /\ LimitInv /\ [Next]_vars => (ExecsInv /\ LimitInv)' BY ExecsStep, LimitStep
<1>2. Init => ExecsInv /\ LimitInv BY ExecsStart, LimitStarts
<1>. QED BY <1>1, <1>2, PTL DEF Spec

LEMMA OneLeaseEach == ASSUME ExecsInv, LimitInv PROVE WithinConcurrency
<1>. DEFINE R == UNION {Requests(d) : d \in Deliveries}
<1>1. \A x \in R : x \in Execs /\ At(x, "send") BY DEF Requests
<1>2. PICK f : f = [x \in R |-> CHOOSE l \in limit.leases : l.token = Token(x)] OBVIOUS
<1>3. \A x \in R : f[x] \in limit.leases /\ f[x].token = Token(x)
  <2>1. ASSUME NEW x \in R PROVE \E l \in limit.leases : l.token = Token(x) BY <1>1 DEF LimitInv, Served
  <2>. QED BY <1>2, <2>1
<1>4. \A x, y \in R : f[x] = f[y] => x = y
  <2>1. \A x, y \in R : Token(x) = Token(y) => x = y BY <1>1 DEF ExecsInv, Busy
  <2>. QED BY <1>3, <2>1
<1>5. f \in Injection(R, limit.leases) BY <1>2, <1>3, <1>4 DEF Injection, IsInjective
<1>6. IsFiniteSet(limit.leases) /\ Cardinality(limit.leases) <= Concurrency BY DEF LimitInv, Bounded
<1>7. IsFiniteSet(R) /\ Cardinality(R) <= Cardinality(limit.leases) BY <1>5, <1>6, FS_Injection
<1>8. Cardinality(R) \in Nat /\ Cardinality(limit.leases) \in Nat BY <1>6, <1>7, FS_CardinalityType
<1>9. Cardinality(R) <= Concurrency BY <1>6, <1>7, <1>8
<1>. QED BY <1>9 DEF WithinConcurrency

(* Never more requests are in flight than the configured concurrency:      *)
(* there are no more of them than leases, although leases expire.          *)
THEOREM RequestsWithinConcurrency == Spec => []WithinConcurrency
<1>1. ExecsInv /\ LimitInv => WithinConcurrency BY OneLeaseEach
<1>. QED BY <1>1, RequestsHaveLeases, PTL

-----------------------------------------------------------------------------
(***************************************************************************)
(* Deliveries and their attempts                                           *)
(***************************************************************************)
RowStates == {"none", "pending", "running", "retry", "succeeded", "failed", "pruned"}
Row == [state : RowStates, count : Nat, due : Int, gen : Nat, until : Int, replayOf : Deliveries \cup {NULL},
        token : (Deliveries \X Nat) \cup {<< >>}]
Attempt == [by : Nat, ended : Nat, code : Answers \cup {"open", "lease-expired"}]

(* What is accounted for of one delivery, and what its state says of the   *)
(* attempt that a claim appends or a finish overwrites.                    *)
Accounted(r, a) ==
  /\ Len(a) = r.count /\ r.count <= MaxAttempts
  /\ \A i \in 1..r.count :
       /\ a[i].code = "open" <=> (r.state = "running" /\ i = r.count)
       /\ a[i].code \notin {"open", "lease-expired"} => a[i].ended = a[i].by
       /\ i < r.count => a[i].code \in {"retryable", "lease-expired"}
  /\ r.state = "succeeded" => r.count > 0 /\ a[r.count].code = "success"
  /\ r.state \in {"retry", "failed"} /\ r.count > 0 => a[r.count].code # "success"

RowOk(d, r, a) ==
  /\ Accounted(r, a)
  /\ r.state \in {"none", "pending", "pruned"} => r.count = 0
  /\ r.state = "retry" => r.count > 0 /\ a[r.count].code \in {"retryable", "lease-expired"}
  /\ r.state = "running" => r.count > 0 /\ r.token = <<d, a[r.count].by>>

RowsInv == /\ rows \in [Deliveries -> Row] /\ attempts \in [Deliveries -> Seq(Attempt)]
           /\ \A d \in Deliveries : RowOk(d, rows[d], attempts[d])

LEMMA RowFields ==
  ASSUME RowsInv, NEW d \in Deliveries
  PROVE  /\ rows[d] \in Row /\ attempts[d] \in Seq(Attempt) /\ RowOk(d, rows[d], attempts[d])
         /\ rows[d].count \in Nat /\ rows[d].gen \in Nat /\ rows[d].due \in Int /\ rows[d].until \in Int
         /\ rows[d].state \in RowStates
  BY DEF RowsInv, Row

LEMMA RowsStart == Init => RowsInv
<1>. SUFFICES ASSUME Init PROVE RowsInv OBVIOUS
<1>1. "none" \in RowStates /\ NULL \in Int /\ << >> \in {<< >>} /\ NULL \in Deliveries \cup {NULL} BY DEF RowStates, NULL
<1>2. NoRow \in Row BY <1>1 DEF NoRow, Row
<1>3. << >> \in Seq(Attempt) /\ Len(<< >>) = 0 OBVIOUS
<1>4. NoRow.state = "none" /\ NoRow.count = 0 BY DEF NoRow
<1>5. ASSUME NEW d PROVE RowOk(d, NoRow, << >>) BY <1>3, <1>4 DEF RowOk, Accounted
<1>. QED BY <1>2, <1>3, <1>5 DEF Init, RowsInv

LEMMA EmptyRow ==
  ASSUME NEW d, NEW q \in Row, q.count = 0, q.state \in {"pending", "pruned"} PROVE RowOk(d, q, << >>)
<1>1. Len(<< >>) = 0 OBVIOUS
<1>. QED BY <1>1 DEF RowOk, Accounted

LEMMA ClaimedRow ==
  ASSUME NEW d, NEW r \in Row, NEW a \in Seq(Attempt), RowOk(d, r, a), r.state \in Waiting, r.count < MaxAttempts,
         NEW g \in Nat, NEW q \in Row, q.state = "running", q.count = r.count + 1, q.token = <<d, g>>,
         NEW b, b = Append(a, [by |-> g, ended |-> 0, code |-> "open"])
  PROVE  b \in Seq(Attempt) /\ RowOk(d, q, b)
<1>1. PICK e : e = [by |-> g, ended |-> 0, code |-> "open"] OBVIOUS
<1>2. e \in Attempt /\ e.by = g /\ e.code = "open" BY <1>1 DEF Attempt
<1>3. PICK n \in Nat : n = r.count /\ n < MaxAttempts /\ Len(a) = n /\ q.count = n + 1 BY DEF Row, RowOk, Accounted
<1>4. b \in Seq(Attempt) /\ Len(b) = n + 1 /\ b[n + 1] = e BY <1>1, <1>2, <1>3
<1>5. \A i \in 1..n : b[i] = a[i] BY <1>1, <1>2, <1>3
<1>6. \A i \in 1..n : a[i].code # "open" /\ a[i].code \in {"retryable", "lease-expired"} /\ (a[i].code # "lease-expired" => a[i].ended = a[i].by)
  BY <1>3 DEF RowOk, Accounted, Waiting
<1>7. \A i \in 1..(n + 1) : i = n + 1 \/ i \in 1..n OBVIOUS
<1>8. n + 1 > 0 /\ n + 1 <= MaxAttempts BY <1>3
<1>9. ASSUME NEW i \in 1..(n + 1)
      PROVE  /\ b[i].code = "open" <=> (q.state = "running" /\ i = n + 1)
             /\ b[i].code \notin {"open", "lease-expired"} => b[i].ended = b[i].by
             /\ i < n + 1 => b[i].code \in {"retryable", "lease-expired"}
  <2>1. CASE i = n + 1 BY <1>2, <1>4, <2>1
  <2>2. CASE i \in 1..n BY <1>5, <1>6, <2>2
  <2>. QED BY <1>7, <2>1, <2>2
<1>. QED BY <1>2, <1>3, <1>4, <1>8, <1>9 DEF RowOk, Accounted

LEMMA RefusedRow ==
  ASSUME NEW d, NEW r \in Row, NEW a \in Seq(Attempt), RowOk(d, r, a), r.state \in Waiting,
         NEW q \in Row, q.state = "failed", q.count = r.count
  PROVE  RowOk(d, q, a)
<1>1. r.count \in Nat BY DEF Row
<1>2. \A i \in 1..r.count : a[i].code # "open" BY DEF RowOk, Accounted, Waiting
<1>3. r.count > 0 => a[r.count].code # "success" BY <1>1 DEF RowOk, Accounted, Waiting
<1>. QED BY <1>1, <1>2, <1>3 DEF RowOk, Accounted

LEMMA EndedRow ==
  ASSUME NEW d, NEW r \in Row, NEW a \in Seq(Attempt), RowOk(d, r, a), r.state = "running",
         NEW c \in Answers \cup {"lease-expired"}, NEW e \in Attempt, e.by = a[r.count].by, e.code = c,
         c # "lease-expired" => e.ended = e.by,
         NEW b, b = [a EXCEPT ![r.count] = e],
         NEW q \in Row, q.count = r.count, q.state \in {"succeeded", "retry", "failed"},
         q.state = "succeeded" <=> c = "success", q.state = "retry" => c \in {"retryable", "lease-expired"}
  PROVE  b \in Seq(Attempt) /\ RowOk(d, q, b)
<1>1. PICK n \in Nat : n = r.count /\ n > 0 /\ n <= MaxAttempts /\ Len(a) = n /\ q.count = n BY DEF Row, RowOk, Accounted
<1>2. b = [a EXCEPT ![n] = e] BY <1>1
<1>3. b \in Seq(Attempt) /\ Len(b) = n /\ b[n] = e /\ \A i \in 1..n : i # n => b[i] = a[i] BY <1>1, <1>2
<1>4. e.code # "open" /\ (e.code \notin {"open", "lease-expired"} => e.ended = e.by) BY DEF Answers
<1>5. ASSUME NEW i \in 1..n
      PROVE  /\ b[i].code # "open"
             /\ b[i].code \notin {"open", "lease-expired"} => b[i].ended = b[i].by
             /\ i < n => b[i].code \in {"retryable", "lease-expired"}
  <2>1. CASE i = n BY <1>3, <1>4, <2>1
  <2>2. CASE i # n BY <1>1, <1>3, <2>2 DEF RowOk, Accounted
  <2>. QED BY <2>1, <2>2
<1>6. b[n].code = c BY <1>3
<1>. QED BY <1>1, <1>3, <1>5, <1>6 DEF RowOk, Accounted

(* One delivery changes.                                                   *)
RowPuts(d, r, a) == rows' = [rows EXCEPT ![d] = r] /\ attempts' = [attempts EXCEPT ![d] = a]

LEMMA RowPutting ==
  ASSUME RowsInv, NEW d \in Deliveries, NEW r \in Row, NEW a \in Seq(Attempt), RowOk(d, r, a), RowPuts(d, r, a)
  PROVE  RowsInv'
<1>1. rows' \in [Deliveries -> Row] /\ attempts' \in [Deliveries -> Seq(Attempt)] BY DEF RowsInv, RowPuts
<1>2. ASSUME NEW e \in Deliveries PROVE RowOk(e, rows'[e], attempts'[e])
  <2>1. CASE e = d BY <2>1 DEF RowsInv, RowPuts
  <2>2. CASE e # d BY <2>2 DEF RowsInv, RowPuts
  <2>. QED BY <2>1, <2>2
<1>. QED BY <1>1, <1>2 DEF RowsInv

LEMMA SameAttempts ==
  ASSUME RowsInv, NEW d \in Deliveries, NEW r, rows' = [rows EXCEPT ![d] = r], attempts' = attempts
  PROVE  RowPuts(d, r, attempts[d])
  BY DEF RowsInv, RowPuts

LEMMA SameRows == ASSUME RowsInv, UNCHANGED <<rows, attempts>> PROVE RowsInv'
BY DEF RowsInv

LEMMA NewRow ==
  ASSUME RowsInv, NEW d \in Deliveries, NEW o \in Deliveries \cup {NULL}, NEW t \in HostTimes, NewDelivery(d, o, t)
  PROVE  RowsInv'
<1>1. PICK r : r = [NoRow EXCEPT !.state = "pending", !.due = t, !.gen = 1, !.replayOf = o] OBVIOUS
<1>2. r = [state |-> "pending", count |-> 0, due |-> t, gen |-> 1, token |-> << >>, until |-> NULL, replayOf |-> o]
  BY <1>1 DEF NoRow
<1>3. "pending" \in RowStates /\ NULL \in Int /\ t \in Int BY DEF RowStates, NULL, HostTimes
<1>4. r \in Row /\ r.count = 0 /\ r.state = "pending" BY <1>2, <1>3 DEF Row
<1>5. rows' = [rows EXCEPT ![d] = r] /\ attempts' = attempts /\ rows[d].state = "none" BY <1>1 DEF NewDelivery
<1>6. attempts[d] = << >> BY <1>5, RowFields DEF RowOk, Accounted
<1>7. RowOk(d, r, attempts[d]) BY <1>4, <1>6, EmptyRow
<1>. QED BY <1>4, <1>5, <1>7, RowFields, RowPutting, SameAttempts

LEMMA PruneRows == ASSUME RowsInv, NEW d \in Deliveries, Prune(d) PROVE RowsInv'
<1>1. PICK r : r = [NoRow EXCEPT !.state = "pruned"] OBVIOUS
<1>2. r = [state |-> "pruned", count |-> 0, due |-> NULL, gen |-> 0, token |-> << >>, until |-> NULL, replayOf |-> NULL]
  BY <1>1 DEF NoRow
<1>3. "pruned" \in RowStates /\ NULL \in Int BY DEF RowStates, NULL
<1>4. r \in Row /\ r.count = 0 /\ r.state = "pruned" BY <1>2, <1>3 DEF Row
<1>5. RowPuts(d, r, << >>) BY <1>1 DEF Prune, RowPuts
<1>6. << >> \in Seq(Attempt) OBVIOUS
<1>. QED BY <1>4, <1>5, <1>6, EmptyRow, RowPutting

LEMMA ClaimRows == ASSUME ExecsInv, RowsInv, NEW x \in Execs, Claim(x) PROVE RowsInv'
<1>0. Busy(x) BY DEF Claim, Busy
<1>1. PICK d \in Deliveries : d = execs[x].d BY <1>0 DEF ExecsInv, RunsJob
<1>2. PICK g \in Nat : g = execs[x].gen BY ExecFields
<1>3. PICK t \in HostTimes :
        \/ UNCHANGED <<rows, attempts>>
        \/ /\ rows[d].state \in Waiting /\ rows' = [rows EXCEPT ![d].state = "failed"] /\ attempts' = attempts
        \/ /\ rows[d].state \in Waiting /\ rows[d].count < MaxAttempts
           /\ rows' = [rows EXCEPT ![d].state = "running", ![d].token = Token(x),
                                   ![d].count = @ + 1, ![d].until = t + LeaseMs]
           /\ attempts' = [attempts EXCEPT ![d] = Append(@, [by |-> g, ended |-> 0, code |-> "open"])]
  BY <1>1, <1>2 DEF Claim, Claimable, repository
<1>4. PICK w \in Row : w = rows[d] /\ RowOk(d, w, attempts[d]) BY RowFields
<1>5. CASE rows[d].state \in Waiting /\ rows' = [rows EXCEPT ![d].state = "failed"] /\ attempts' = attempts
  <2>1. PICK r : r = [w EXCEPT !.state = "failed"] OBVIOUS
  <2>2. r \in Row /\ r.state = "failed" /\ r.count = w.count BY <2>1 DEF Row, RowStates
  <2>3. rows' = [rows EXCEPT ![d] = r] BY <1>4, <1>5, <2>1
  <2>4. RowOk(d, r, attempts[d]) BY <1>4, <1>5, <2>2, RowFields, RefusedRow
  <2>. QED BY <1>5, <2>2, <2>3, <2>4, RowFields, RowPutting, SameAttempts
<1>6. CASE /\ rows[d].state \in Waiting /\ rows[d].count < MaxAttempts
           /\ rows' = [rows EXCEPT ![d].state = "running", ![d].token = Token(x),
                                   ![d].count = @ + 1, ![d].until = t + LeaseMs]
           /\ attempts' = [attempts EXCEPT ![d] = Append(@, [by |-> g, ended |-> 0, code |-> "open"])]
  <2>1. PICK n \in Int : n = t + LeaseMs BY DEF HostTimes, LeaseMs
  <2>2. PICK k \in (Deliveries \X Nat) \cup {<< >>} : k = Token(x) /\ k = <<d, g>> BY <1>1, <1>2 DEF Token
  <2>3. PICK c \in Nat : c = w.count + 1 BY DEF Row
  <2>4. PICK r : r = [w EXCEPT !.state = "running", !.token = k, !.count = c, !.until = n] OBVIOUS
  <2>5. r \in Row /\ r.state = "running" /\ r.count = c /\ r.token = k BY <2>4 DEF Row, RowStates
  <2>6. PICK b : b = Append(attempts[d], [by |-> g, ended |-> 0, code |-> "open"]) OBVIOUS
  <2>7. b \in Seq(Attempt) /\ RowOk(d, r, b) BY <1>4, <1>6, <2>2, <2>3, <2>5, <2>6, RowFields, ClaimedRow
  <2>8. RowPuts(d, r, b)
    <3>1. rows' = [rows EXCEPT ![d] = r] BY <1>4, <1>6, <2>1, <2>2, <2>3, <2>4 DEF RowsInv
    <3>2. attempts' = [attempts EXCEPT ![d] = b] BY <1>6, <2>6
    <3>. QED BY <3>1, <3>2 DEF RowPuts
  <2>. QED BY <2>5, <2>7, <2>8, RowPutting
<1>. QED BY <1>3, <1>5, <1>6, SameRows

LEMMA FinishRows == ASSUME ExecsInv, RowsInv, NEW x \in Execs, Finish(x) PROVE RowsInv'
<1>0. Busy(x) /\ At(x, "finish") BY DEF Finish, Busy
<1>1. PICK d \in Deliveries : d = execs[x].d BY <1>0 DEF ExecsInv, RunsJob
<1>2. PICK g \in Nat : g = execs[x].gen BY ExecFields
<1>3. PICK c \in Answers : c = execs[x].code BY <1>0 DEF ExecsInv, RunsJob
<1>4. CASE UNCHANGED <<rows, attempts>> BY <1>4, SameRows
<1>5. CASE ~UNCHANGED <<rows, attempts>>
  <2>1. PICK w \in Row : w = rows[d] /\ RowOk(d, w, attempts[d]) BY RowFields
  <2>2. PICK n \in Nat : n = w.count BY DEF Row
  <2>3. PICK retry \in BOOLEAN : retry <=> (c = "retryable" /\ n < MaxAttempts) OBVIOUS
  <2>4. PICK state : state = CASE c = "success" -> "succeeded" [] retry -> "retry" [] OTHER -> "failed" OBVIOUS
  <2>5. state \in {"succeeded", "retry", "failed"} /\ (state = "succeeded" <=> c = "success") /\ (state = "retry" => c = "retryable")
    BY <2>3, <2>4
  <2>6. PICK t \in HostTimes, delay \in Delays :
          /\ Owns(x, t)
          /\ rows' = [rows EXCEPT ![d].state = state, ![d].token = << >>, ![d].until = NULL,
                                  ![d].due = IF retry THEN t + delay ELSE @,
                                  ![d].gen = IF retry THEN @ + 1 ELSE @]
          /\ attempts' = [attempts EXCEPT ![d][n].code = c, ![d][n].ended = g]
    BY <1>1, <1>2, <1>3, <1>5, <2>1, <2>2, <2>3, <2>4 DEF Finish, repository
  <2>7. PICK due \in Int : due = IF retry THEN t + delay ELSE w.due
    <3>1. t + delay \in Int /\ w.due \in Int BY <2>1, RowFields DEF HostTimes, ExecsInv
    <3>2. CASE retry BY <3>1, <3>2
    <3>3. CASE ~retry BY <3>1, <3>3
    <3>. QED BY <3>2, <3>3
  <2>8. PICK gen \in Nat : gen = IF retry THEN w.gen + 1 ELSE w.gen BY DEF Row
  <2>9. PICK r : r = [w EXCEPT !.state = state, !.token = << >>, !.until = NULL, !.due = due, !.gen = gen] OBVIOUS
  <2>10. r \in Row /\ r.state = state /\ r.count = n
    <3>1. state \in RowStates /\ NULL \in Int BY <2>5 DEF RowStates, NULL
    <3>. QED BY <2>2, <2>9, <3>1 DEF Row
  <2>11. rows' = [rows EXCEPT ![d] = r] BY <2>1, <2>6, <2>7, <2>8, <2>9 DEF RowsInv
  <2>12. w.state = "running" /\ w.token = <<d, g>> BY <1>1, <1>2, <2>1, <2>6 DEF Owns, Token
  <2>13. PICK a \in Seq(Attempt) : a = attempts[d] /\ n \in 1..Len(a) /\ a[n].by = g
    BY <2>1, <2>2, <2>12, RowFields DEF RowOk, Accounted
  <2>14. PICK o \in Attempt : o = a[n] BY <2>13
  <2>15. PICK e : e = [o EXCEPT !.code = c, !.ended = g] OBVIOUS
  <2>16. e \in Attempt /\ e.by = g /\ e.code = c /\ e.ended = g BY <2>13, <2>14, <2>15 DEF Attempt
  <2>17. PICK b : b = [a EXCEPT ![n] = e] OBVIOUS
  <2>18. attempts' = [attempts EXCEPT ![d] = b] BY <2>6, <2>13, <2>14, <2>15, <2>17 DEF RowsInv
  <2>19. b \in Seq(Attempt) /\ RowOk(d, r, b)
    <3>1. RowOk(d, w, a) /\ w.state = "running" /\ e.by = a[w.count].by /\ b = [a EXCEPT ![w.count] = e]
      BY <2>1, <2>2, <2>12, <2>13, <2>16, <2>17
    <3>2. c \in Answers \cup {"lease-expired"} /\ (c # "lease-expired" => e.ended = e.by) /\ e.code = c BY <2>16
    <3>3. /\ r.count = w.count /\ r.state \in {"succeeded", "retry", "failed"}
          /\ (r.state = "succeeded" <=> c = "success") /\ (r.state = "retry" => c \in {"retryable", "lease-expired"})
      BY <2>2, <2>5, <2>10
    <3>. QED BY <2>10, <2>16, <3>1, <3>2, <3>3, EndedRow
  <2>20. RowPuts(d, r, b) BY <2>11, <2>18 DEF RowPuts
  <2>. QED BY <2>10, <2>19, <2>20, RowPutting
<1>. QED BY <1>4, <1>5

LEMMA RecoverRows == ASSUME ExecsInv, RowsInv, Recover PROVE RowsInv'
<1>1. PICK t \in HostTimes :
        LET lost == {d \in Deliveries : Abandoned(d, t)}
            back(d) == [rows[d] EXCEPT !.state = IF rows[d].count >= MaxAttempts THEN "failed" ELSE "retry",
                          !.gen = @ + 1, !.due = t, !.token = << >>, !.until = NULL]
        IN /\ rows' = [d \in Deliveries |-> IF d \in lost THEN back(d) ELSE rows[d]]
           /\ attempts' = [d \in Deliveries |-> IF d \in lost
                             THEN [attempts[d] EXCEPT ![rows[d].count].code = "lease-expired"]
                             ELSE attempts[d]]
  BY DEF Recover
<1>2. ASSUME NEW d \in Deliveries
      PROVE  rows'[d] \in Row /\ attempts'[d] \in Seq(Attempt) /\ RowOk(d, rows'[d], attempts'[d])
  <2>1. CASE ~Abandoned(d, t)
    <3>1. rows'[d] = rows[d] /\ attempts'[d] = attempts[d] BY <1>1, <2>1
    <3>. QED BY <3>1, RowFields
  <2>2. CASE Abandoned(d, t)
    <3>1. PICK w \in Row : w = rows[d] /\ RowOk(d, w, attempts[d]) /\ w.state = "running"
      BY <2>2, RowFields DEF Abandoned
    <3>2. PICK n \in Nat : n = w.count BY DEF Row
    <3>3. PICK state \in {"failed", "retry"} : state = IF n >= MaxAttempts THEN "failed" ELSE "retry" OBVIOUS
    <3>4. PICK gen \in Nat : gen = w.gen + 1 BY DEF Row
    <3>5. PICK r : r = [w EXCEPT !.state = state, !.gen = gen, !.due = t, !.token = << >>, !.until = NULL] OBVIOUS
    <3>6. r \in Row /\ r.state = state /\ r.count = w.count
      <4>1. state \in RowStates /\ NULL \in Int /\ t \in Int BY <3>3 DEF RowStates, NULL, HostTimes, ExecsInv
      <4>. QED BY <3>5, <4>1 DEF Row
    <3>7. rows'[d] = r BY <1>1, <2>2, <3>1, <3>2, <3>3, <3>4, <3>5
    <3>8. PICK a \in Seq(Attempt) : a = attempts[d] /\ n \in 1..Len(a) /\ RowOk(d, w, a)
      BY <3>1, <3>2, RowFields DEF RowOk, Accounted
    <3>9. PICK o \in Attempt : o = a[n] BY <3>8
    <3>10. PICK e : e = [o EXCEPT !.code = "lease-expired"] OBVIOUS
    <3>11. e \in Attempt /\ e.by = a[w.count].by /\ e.code = "lease-expired" BY <3>2, <3>9, <3>10 DEF Attempt
    <3>12. PICK b : b = [a EXCEPT ![w.count] = e] OBVIOUS
    <3>13. attempts'[d] = b
      <4>1. attempts'[d] = [a EXCEPT ![n].code = "lease-expired"] BY <1>1, <2>2, <3>1, <3>2, <3>8
      <4>. QED BY <3>2, <3>9, <3>10, <3>12, <4>1
    <3>14. PICK c \in Answers \cup {"lease-expired"} : c = "lease-expired" OBVIOUS
    <3>15. /\ r.state \in {"succeeded", "retry", "failed"} /\ (r.state = "succeeded" <=> c = "success")
           /\ (r.state = "retry" => c \in {"retryable", "lease-expired"})
           /\ e.code = c /\ (c # "lease-expired" => e.ended = e.by)
      BY <3>3, <3>6, <3>11, <3>14
    <3>16. b \in Seq(Attempt) /\ RowOk(d, r, b)
      <4>1. r \in Row /\ r.count = w.count BY <3>6
      <4>2. RowOk(d, w, a) /\ w.state = "running" BY <3>1, <3>8
      <4>3. e \in Attempt /\ e.by = a[w.count].by BY <3>11
      <4>. QED BY <3>12, <3>14, <3>15, <4>1, <4>2, <4>3, EndedRow
    <3>. QED BY <3>6, <3>7, <3>13, <3>16
  <2>. QED BY <2>1, <2>2
<1>3. rows' \in [Deliveries -> Row] /\ attempts' \in [Deliveries -> Seq(Attempt)] BY <1>1, <1>2
<1>. QED BY <1>2, <1>3 DEF RowsInv

LEMMA AdvanceRows == ASSUME RowsInv, NEW d \in Deliveries, AdvanceSchedule(d) PROVE RowsInv'
<1>1. CASE UNCHANGED <<rows, attempts>> BY <1>1, SameRows
<1>2. CASE rows[d].state \in Waiting /\ rows' = [rows EXCEPT ![d].gen = @ + 1] /\ attempts' = attempts
  <2>1. PICK w \in Row : w = rows[d] /\ RowOk(d, w, attempts[d]) BY RowFields
  <2>2. PICK gen \in Nat : gen = w.gen + 1 BY DEF Row
  <2>3. PICK r : r = [w EXCEPT !.gen = gen] OBVIOUS
  <2>4. r \in Row /\ r.state = w.state /\ r.count = w.count /\ r.token = w.token BY <2>3 DEF Row
  <2>5. rows' = [rows EXCEPT ![d] = r] BY <1>2, <2>1, <2>2, <2>3
  <2>6. RowOk(d, r, attempts[d]) BY <2>1, <2>4 DEF RowOk, Accounted
  <2>. QED BY <1>2, <2>4, <2>5, <2>6, RowFields, RowPutting, SameAttempts
<1>. QED BY <1>1, <1>2 DEF AdvanceSchedule

LEMMA RowsStep == ExecsInv /\ RowsInv /\ [Next]_vars => RowsInv'
<1>. SUFFICES ASSUME ExecsInv, RowsInv, [Next]_vars PROVE RowsInv' OBVIOUS
<1>1. CASE UNCHANGED vars BY <1>1, SameRows DEF vars, repository
<1>2. CASE Tick \/ PutEndpoint \/ Work BY <1>2, SameRows DEF Tick, PutEndpoint, Work, Start, repository
<1>3. CASE Rescue
  <2>1. ASSUME NEW d \in Deliveries, Lookup(d) PROVE RowsInv' BY <2>1, SameRows DEF Lookup, repository
  <2>. QED BY <1>3, <2>1, RecoverRows, AdvanceRows DEF Rescue
<1>4. ASSUME NEW d \in Deliveries, Publish(d) \/ Prune(d) \/ \E o \in Deliveries : Replay(d, o) PROVE RowsInv'
  BY <1>4, NewRow, PruneRows DEF Publish, Replay
<1>5. ASSUME NEW p \in handoff, Schedule(p) \/ ScheduleFails(p) PROVE RowsInv'
  BY <1>5, SameRows DEF Schedule, ScheduleFails, repository
<1>6. ASSUME NEW x \in Execs, ExecStep(x) \/ CallFails(x) \/ Die(x) PROVE RowsInv'
  <2>1. CASE Claim(x) \/ Finish(x) BY <2>1, ClaimRows, FinishRows
  <2>2. CASE Acquire(x) \/ Renew(x) \/ Sent(x) \/ Release(x) \/ CallFails(x) \/ Die(x)
    BY <2>2, SameRows DEF Acquire, Renew, Sent, Release, CallFails, Die, repository
  <2>. QED BY <1>6, <2>1, <2>2 DEF ExecStep
<1>. QED BY <1>1, <1>2, <1>3, <1>4, <1>5, <1>6 DEF Next

(* Attempts are accounted for, whatever is lost and whoever dies.          *)
THEOREM DeliveriesAccounted == Spec => []AttemptsAccounted
<1>1. Init => ExecsInv /\ RowsInv BY ExecsStart, RowsStart
<1>2. ExecsInv /\ RowsInv /\ [Next]_vars => (ExecsInv /\ RowsInv)' BY ExecsStep, RowsStep
<1>3. RowsInv => AttemptsAccounted BY DEF RowsInv, RowOk, Accounted, AttemptsAccounted
<1>. QED BY <1>1, <1>2, <1>3, PTL DEF Spec

-----------------------------------------------------------------------------
(***************************************************************************)
(* Owners                                                                  *)
(***************************************************************************)

(* The execution that will send, or sends, holds its delivery's lease,     *)
(* which does not end before the request.                                  *)
Holds(x) == rows[execs[x].d].state = "running" /\ rows[execs[x].d].token = Token(x)
Owned(x) ==
  /\ At(x, "renew") /\ clock < execs[x].until => Holds(x) /\ rows[execs[x].d].until = execs[x].until
  /\ At(x, "send") => Holds(x) /\ execs[x].until < rows[execs[x].d].until
OwnersInv == \A x \in Execs : Owned(x)
Sound == ExecsInv /\ LimitInv /\ RowsInv /\ OwnersInv

(* A delivery that is running changes only when its owner finishes or its  *)
(* lease is over.                                                          *)
LEMMA RowKept ==
  ASSUME ExecsInv, RowsInv, [Next]_vars, NEW d \in Deliveries, rows[d].state = "running", clock < rows[d].until,
         \A y \in Execs : At(y, "finish") => rows[d].token # Token(y)
  PROVE  rows'[d] = rows[d]
<1>0. rows[d].until \in Int /\ clock \in Nat /\ "running" \notin Waiting /\ "running" \notin Ended
  BY RowFields DEF ExecsInv, Waiting, Ended
<1>1. CASE UNCHANGED rows BY <1>1
<1>2. ASSUME NEW e \in Deliveries, NEW o, NEW t, NewDelivery(e, o, t) PROVE rows'[d] = rows[d]
  BY <1>2 DEF NewDelivery, RowsInv
<1>3. ASSUME NEW e \in Deliveries, Prune(e) PROVE rows'[d] = rows[d] BY <1>0, <1>3 DEF Prune, RowsInv
<1>4. ASSUME NEW e \in Deliveries, AdvanceSchedule(e) PROVE rows'[d] = rows[d]
  BY <1>0, <1>4 DEF AdvanceSchedule, RowsInv
<1>5. CASE Recover
  <2>1. PICK t \in HostTimes : ~Abandoned(d, t) => rows'[d] = rows[d] BY <1>5 DEF Recover
  <2>2. t <= clock BY DEF HostTimes, ExecsInv
  <2>. QED BY <1>0, <2>1, <2>2 DEF Abandoned, HostTimes
<1>6. ASSUME NEW x \in Execs, Claim(x) PROVE rows'[d] = rows[d]
  <2>1. rows[execs[x].d].state \in Waiting \/ rows' = rows BY <1>6 DEF Claim, Claimable, repository
  <2>2. execs[x].d # d => rows'[d] = rows[d] BY <1>6 DEF Claim, repository, RowsInv
  <2>. QED BY <1>0, <2>1, <2>2
<1>7. ASSUME NEW x \in Execs, Finish(x) PROVE rows'[d] = rows[d]
  <2>1. (\E t \in HostTimes : Owns(x, t)) \/ rows' = rows BY <1>7 DEF Finish, repository
  <2>2. execs[x].d # d => rows'[d] = rows[d] BY <1>7 DEF Finish, repository, RowsInv
  <2>3. At(x, "finish") BY <1>7 DEF Finish
  <2>. QED BY <2>1, <2>2, <2>3 DEF Owns
<1>8. CASE UNCHANGED vars BY <1>8 DEF vars, repository
<1>9. CASE Tick \/ PutEndpoint \/ Work BY <1>9 DEF Tick, PutEndpoint, Work, Start, repository
<1>10. CASE Rescue BY <1>4, <1>5, <1>10 DEF Rescue, Lookup, repository
<1>11. ASSUME NEW e \in Deliveries, Publish(e) \/ Prune(e) \/ \E o \in Deliveries : Replay(e, o)
       PROVE  rows'[d] = rows[d]
  BY <1>2, <1>3, <1>11 DEF Publish, Replay
<1>12. ASSUME NEW p \in handoff, Schedule(p) \/ ScheduleFails(p) PROVE rows'[d] = rows[d]
  BY <1>12 DEF Schedule, ScheduleFails, repository
<1>13. ASSUME NEW x \in Execs, ExecStep(x) \/ CallFails(x) \/ Die(x) PROVE rows'[d] = rows[d]
  <2>1. CASE Acquire(x) \/ Renew(x) \/ Sent(x) \/ Release(x) \/ CallFails(x) \/ Die(x)
    BY <2>1 DEF Acquire, Renew, Sent, Release, CallFails, Die, repository
  <2>. QED BY <1>6, <1>7, <1>13, <2>1 DEF ExecStep
<1>. QED BY <1>8, <1>9, <1>10, <1>11, <1>12, <1>13 DEF Next

(* Only Claim and Renew bring an execution closer to its request.          *)
LEMMA WhoMoves ==
  ASSUME ExecsInv, [Next]_vars, NEW x \in Execs
  PROVE  execs'[x] = execs[x] \/ Claim(x) \/ Renew(x) \/ execs'[x].pc \notin {"renew", "send"}
<1>1. ASSUME NEW y \in Execs, NEW pc, Goes(y, pc), pc \notin {"renew", "send"}
      PROVE  execs'[x] = execs[x] \/ execs'[x].pc \notin {"renew", "send"}
  <2>1. execs[y] \in Exec BY ExecFields
  <2>2. y = x => execs'[x].pc = pc BY <1>1, <2>1 DEF Goes, ExecsInv, Exec
  <2>3. y # x => execs'[x] = execs[x] BY <1>1 DEF Goes, ExecsInv
  <2>. QED BY <1>1, <2>2, <2>3
<1>2. ASSUME NEW y \in Execs, Ends(y) PROVE execs'[x] = execs[x] \/ execs'[x].pc \notin {"renew", "send"}
  BY <1>2 DEF Ends, ExecsInv, Idle
<1>3. ASSUME NEW y \in Execs, y # x, Claim(y) PROVE execs'[x] = execs[x]
  BY <1>3 DEF Claim, Goes, ExecsInv
<1>4. ASSUME NEW y \in Execs, y # x, Renew(y) PROVE execs'[x] = execs[x]
  BY <1>4 DEF Renew, Goes, ExecsInv
<1>5. ASSUME NEW y \in Execs, Sent(y) PROVE execs'[x] = execs[x] \/ execs'[x].pc \notin {"renew", "send"}
  <2>1. execs[y] \in Exec BY ExecFields
  <2>2. PICK c : execs' = [execs EXCEPT ![y].pc = "finish", ![y].code = c, ![y].until = NULL] BY <1>5 DEF Sent
  <2>. QED BY <2>1, <2>2 DEF ExecsInv, Exec
<1>6. ASSUME NEW y \in Execs, NEW d \in Deliveries, NEW g \in 1..MaxGen, Start(y, d, g)
      PROVE  execs'[x] = execs[x] \/ execs'[x].pc \notin {"renew", "send"}
  BY <1>6 DEF Start, ExecsInv, Idle
<1>7. CASE UNCHANGED vars BY <1>7 DEF vars
<1>8. CASE Tick \/ PutEndpoint BY <1>8 DEF Tick, PutEndpoint
<1>9. CASE Work BY <1>6, <1>9 DEF Work
<1>10. CASE Rescue BY <1>10 DEF Rescue, Recover, Lookup, AdvanceSchedule
<1>11. ASSUME NEW e \in Deliveries, Publish(e) \/ Prune(e) \/ \E o \in Deliveries : Replay(e, o)
       PROVE  execs'[x] = execs[x]
  BY <1>11 DEF Publish, Replay, Prune, NewDelivery
<1>12. ASSUME NEW p \in handoff, Schedule(p) \/ ScheduleFails(p) PROVE execs'[x] = execs[x]
  BY <1>12 DEF Schedule, ScheduleFails
<1>13. ASSUME NEW y \in Execs, ExecStep(y) \/ CallFails(y) \/ Die(y)
       PROVE  execs'[x] = execs[x] \/ Claim(x) \/ Renew(x) \/ execs'[x].pc \notin {"renew", "send"}
  <2>1. CASE Claim(y) \/ Renew(y) BY <1>3, <1>4, <2>1
  <2>2. CASE Acquire(y) BY <1>1, <1>2, <2>2 DEF Acquire
  <2>3. CASE Finish(y) \/ CallFails(y) BY <1>1, <2>3 DEF Finish, CallFails
  <2>4. CASE Release(y) \/ Die(y) BY <1>2, <2>4 DEF Release, Die
  <2>. QED BY <1>5, <1>13, <2>1, <2>2, <2>3, <2>4 DEF ExecStep
<1>. QED BY <1>7, <1>8, <1>9, <1>10, <1>11, <1>12, <1>13 DEF Next

LEMMA OwnersStart == Init => OwnersInv
BY DEF Init, Idle, OwnersInv, Owned

(* Others do not disturb an owner before its deadline.                     *)
LEMMA OwnerKept ==
  ASSUME Sound, [Next]_vars, clock' >= clock, NEW x \in Execs, execs'[x] = execs[x] PROVE Owned(x)'
<1>0. ExecsInv /\ LimitInv /\ RowsInv /\ Owned(x) /\ clock \in Nat BY DEF Sound, OwnersInv, ExecsInv
<1>1. SUFFICES ASSUME (At(x, "renew") /\ clock' < execs[x].until) \/ At(x, "send") PROVE Owned(x)'
  BY DEF Owned
<1>2. PICK d \in Deliveries : d = execs[x].d BY <1>0, <1>1 DEF ExecsInv, RunsJob, Busy
<1>3. execs[x].until \in Int /\ rows[d].until \in Int BY <1>0, ExecFields, RowFields
<1>4. clock' \in Nat
  <2>1. ExecsInv' BY <1>0, ExecsStep
  <2>. QED BY <2>1 DEF ExecsInv
<1>5. rows[d].state = "running" /\ rows[d].token = Token(x) /\ clock < rows[d].until
  <2>1. CASE At(x, "renew") /\ clock' < execs[x].until BY <1>0, <1>2, <1>3, <1>4, <2>1 DEF Owned, Holds
  <2>2. CASE At(x, "send") BY <1>0, <1>2, <1>3, <2>2 DEF Owned, Holds, LimitInv, Served
  <2>. QED BY <1>1, <2>1, <2>2
<1>6. ASSUME NEW y \in Execs, At(y, "finish") PROVE rows[d].token # Token(y)
  <2>1. y # x /\ Busy(x) /\ Busy(y) BY <1>1, <1>6 DEF Busy
  <2>. QED BY <1>0, <1>5, <2>1 DEF ExecsInv
<1>7. rows'[d] = rows[d] BY <1>0, <1>5, <1>6, RowKept
<1>8. Token(x)' = Token(x) BY DEF Token
<1>. QED BY <1>0, <1>1, <1>2, <1>3, <1>4, <1>7, <1>8 DEF Owned, Holds

LEMMA ClaimOwns == ASSUME ExecsInv, RowsInv, NEW x \in Execs, Claim(x) PROVE Owned(x)'
<1>0. Busy(x) BY DEF Claim, Busy
<1>1. PICK d \in Deliveries : d = execs[x].d BY <1>0 DEF ExecsInv, RunsJob
<1>2. execs[x] \in Exec /\ rows[d] \in Row BY ExecFields, RowFields
<1>3. CASE Goes(x, "release") BY <1>2, <1>3 DEF Goes, Owned, ExecsInv, Exec
<1>4. ASSUME NEW t \in HostTimes, execs' = [execs EXCEPT ![x].pc = "renew", ![x].until = t + LeaseMs],
             rows' = [rows EXCEPT ![d].state = "running", ![d].token = Token(x),
                                  ![d].count = @ + 1, ![d].until = t + LeaseMs]
      PROVE  Owned(x)'
  <2>1. execs'[x].pc = "renew" /\ execs'[x].until = t + LeaseMs /\ execs'[x].d = d /\ Token(x)' = Token(x)
    BY <1>1, <1>2, <1>4 DEF ExecsInv, Exec, Token
  <2>2. rows'[d].state = "running" /\ rows'[d].token = Token(x) /\ rows'[d].until = t + LeaseMs
    BY <1>2, <1>4 DEF RowsInv, Row
  <2>. QED BY <2>1, <2>2 DEF Owned, Holds
<1>. QED BY <1>1, <1>3, <1>4 DEF Claim

(* The deadline is before the lease, as the clock is, although the host's  *)
(* clock may be slow.                                                      *)
LEMMA RenewOwns == ASSUME Skew < Margin, Sound, NEW x \in Execs, Renew(x) PROVE Owned(x)'
<1>0. ExecsInv /\ RowsInv /\ Owned(x) /\ Busy(x) /\ At(x, "renew") /\ UNCHANGED <<clock, rows>>
  BY DEF Sound, OwnersInv, Renew, Busy, repository
<1>1. PICK d \in Deliveries : d = execs[x].d BY <1>0 DEF ExecsInv, RunsJob
<1>2. execs[x] \in Exec /\ clock \in Nat BY <1>0, ExecFields DEF ExecsInv
<1>3. CASE Goes(x, "release") BY <1>0, <1>2, <1>3 DEF Goes, Owned, ExecsInv, Exec
<1>4. ASSUME NEW t \in HostTimes, NEW n, n = Deadline(execs[x].until, LiveState(limit, clock).lastNow + LeaseMs, t),
             execs' = [execs EXCEPT ![x].pc = IF n > clock THEN "send" ELSE "release", ![x].until = n]
      PROVE  Owned(x)'
  <2>1. PICK e, u : e = LiveState(limit, clock).lastNow + LeaseMs /\ u = execs[x].until OBVIOUS
  <2>2. e \in Int /\ u \in Int /\ t \in Nat /\ clock <= t + Skew
    <3>1. LiveState(limit, clock).lastNow = clock /\ LeaseMs \in Nat BY <1>0, LiveLeases DEF LeaseMs
    <3>. QED BY <1>0, <1>2, <2>1, <3>1, ExecFields DEF HostTimes
  <2>3. n \in Int /\ n <= clock + (u - t - Margin)
    <3>1. n = Deadline(u, e, t) BY <1>4, <2>1
    <3>. QED BY <1>2, <2>2, <3>1, DeadlineBefore
  <2>4. n < u BY <1>2, <2>2, <2>3
  <2>5. execs'[x].until = n /\ execs'[x].d = d /\ Token(x)' = Token(x)
        /\ execs'[x].pc = IF n > clock THEN "send" ELSE "release"
    BY <1>0, <1>1, <1>2, <1>4 DEF ExecsInv, Exec, Token
  <2>6. CASE n > clock
    <3>1. clock < execs[x].until BY <1>2, <2>1, <2>2, <2>3, <2>4, <2>6
    <3>2. Holds(x) /\ rows[d].until = u BY <1>0, <1>1, <2>1, <3>1 DEF Owned
    <3>. QED BY <1>0, <1>1, <2>4, <2>5, <2>6, <3>2 DEF Owned, Holds
  <2>7. CASE ~(n > clock) BY <2>5, <2>7 DEF Owned
  <2>. QED BY <2>6, <2>7
<1>. QED BY <1>3, <1>4 DEF Renew

LEMMA OwnersStep == ASSUME Skew < Margin, Sound, [Next]_vars PROVE OwnersInv'
<1>1. clock' >= clock
  <2>1. clock \in Nat BY DEF Sound, ExecsInv
  <2>2. clock' \in {clock, clock + 1}
    BY ZenonT(60) DEF Next, vars, Tick, PutEndpoint, Work, Start, Rescue, Recover, Lookup, AdvanceSchedule, Publish, Prune, Replay,
           NewDelivery, Schedule, ScheduleFails, ExecStep, Acquire, Claim, Renew, Sent, Finish, Release, CallFails, Die
  <2>. QED BY <2>1, <2>2
<1>2. ASSUME NEW x \in Execs PROVE Owned(x)'
  <2>1. CASE execs'[x] = execs[x] BY <1>1, <2>1, OwnerKept
  <2>2. CASE Claim(x) BY <2>2, ClaimOwns DEF Sound
  <2>3. CASE Renew(x) BY <2>3, RenewOwns
  <2>4. CASE execs'[x].pc \notin {"renew", "send"} BY <2>4 DEF Owned
  <2>. QED BY <2>1, <2>2, <2>3, <2>4, WhoMoves DEF Sound
<1>. QED BY <1>2 DEF OwnersInv

(* Two requests of a delivery would both hold its lease, whose token names *)
(* one execution.                                                          *)
LEMMA OneOwner == ASSUME Sound PROVE OneRequestAtATime
<1>1. ASSUME NEW d \in Deliveries PROVE Cardinality(Requests(d)) <= 1
  <2>1. \A x, y \in Requests(d) : x = y
    BY DEF Requests, Sound, ExecsInv, OwnersInv, Owned, Holds, Busy
  <2>2. CASE Requests(d) = {} BY <2>2, FS_EmptySet
  <2>3. ASSUME NEW x \in Requests(d) PROVE Cardinality(Requests(d)) = 1
    <3>1. Requests(d) = {x} BY <2>1
    <3>. QED BY <3>1, FS_Singleton
  <2>. QED BY <2>2, <2>3
<1>. QED BY <1>1 DEF OneRequestAtATime

(* A delivery never has two requests in flight, if clocks differ by less   *)
(* than the margin between a request and its lease.                        *)
THEOREM OneRequestPerDelivery == ASSUME Skew < Margin PROVE Spec => []OneRequestAtATime
<1>1. Init => Sound BY ExecsStart, LimitStarts, RowsStart, OwnersStart DEF Sound
<1>2. Sound /\ [Next]_vars => Sound' BY ExecsStep, LimitStep, RowsStep, OwnersStep DEF Sound
<1>3. Sound => OneRequestAtATime BY OneOwner
<1>. QED BY <1>1, <1>2, <1>3, PTL DEF Spec
=============================================================================
