--------------------------- MODULE ServicesProofs ---------------------------
(***************************************************************************)
(* The services that guard a record: each component has its own invariant, *)
(* for any number of concurrent calls and any values of its constants.     *)
(*                                                                         *)
(* Counters (CounterInv): the store's windows only grow, so what is spent  *)
(*   of a window stays within its capacity.  Leases (LeaseInv): a lease of *)
(*   the service is known to the service or its grant was lost, and what   *)
(*   close() drains stays drained.                                         *)
(* Cache (FlightIsFresh): what a flight read or loaded is no older than    *)
(*   what was over when it began, because a mutation advances the          *)
(*   generation (a flight that writes after it is refused) and deletes.    *)
(* Organization (ReadSome): who read the version that is stored read the   *)
(*   row that is stored, so a compare-and-swap that succeeds changes what  *)
(*   it decided on; InviteMoves bounds what it may do to an invitation.    *)
(* Initialization (HoldsStored, ActivatesFirst): past its commit a call    *)
(*   holds the request that is stored for good.                            *)
(* PostgreSQL tasks (RowsAgree, AnswerHolds, RelationInv): the rows of     *)
(*   pg-boss and of the relation agree about a job, whose attempts end in  *)
(*   order, and an answer of cancel is still written in one of them.       *)
(* Realtime (StreamInv): of a subscription that is up, the client is or    *)
(*   will be told up to its cursor or of a gap; of any other nothing is    *)
(*   queued but that it is closed.                                         *)
(***************************************************************************)
EXTENDS Limits, Cache, Organization, Initialization, PostgresTasks, Realtime,
        WellFoundedInduction, FiniteSetTheorems, SequenceTheorems, TLAPS

-----------------------------------------------------------------------------
(***************************************************************************)
(* The counters                                                            *)
(***************************************************************************)
LEMMA MaxOfTwo ==
  ASSUME NEW a \in Nat, NEW b \in Nat
  PROVE  Max({a, b}) \in {a, b} /\ Max({a, b}) >= a /\ Max({a, b}) >= b
<1>1. \E x \in {a, b} : \A y \in {a, b} : x >= y
  <2>1. CASE a >= b BY <2>1
  <2>2. CASE b >= a BY <2>2
  <2>. QED BY <2>1, <2>2
<1>. QED BY <1>1 DEF Max

LEMMA ProductGrows == ASSUME NEW x \in Nat, NEW y \in Nat, NEW p \in Nat, x <= y PROVE x * p <= y * p
<1>1. PICK d \in Nat : y = x + d BY y - x \in Nat
<1>2. y * p = x * p + d * p BY <1>1
<1>3. d * p \in Nat /\ x * p \in Nat OBVIOUS
<1>. QED BY <1>2, <1>3

LEMMA WindowsGrow ==
  ASSUME NEW s \in Nat, NEW t \in Nat, NEW p \in Nat \ {0}, s <= t
  PROVE  WindowOf(s, p) \in Nat /\ WindowOf(s, p) <= WindowOf(t, p)
<1>1. PICK q \in Nat : q = s \div p /\ q * p <= s /\ s < (q + 1) * p OBVIOUS
<1>2. PICK r \in Nat : r = t \div p /\ r * p <= t /\ t < (r + 1) * p OBVIOUS
<1>3. q <= r
  <2>1. SUFFICES ASSUME r + 1 <= q PROVE FALSE BY <1>1, <1>2
  <2>2. (r + 1) * p <= q * p BY <2>1, ProductGrows
  <2>3. q * p \in Nat /\ (r + 1) * p \in Nat OBVIOUS
  <2>. QED BY <1>1, <1>2, <2>2, <2>3
<1>4. q * p <= r * p BY <1>3, ProductGrows
<1>. QED BY <1>1, <1>2, <1>4 DEF WindowOf

(* The counter is of the latest window that anything was admitted in, and  *)
(* has counted it.                                                         *)
LimitWindows == {WindowOf(t, LimitPeriod) : t \in LimitTimes}
CounterInv ==
  /\ counter.lastNow \in Nat /\ counter.used \in 0..LimitCapacity
  /\ admitted \in [LimitWindows -> 0..LimitCapacity]
  /\ counter.windowStart \in {NoWindow, WindowOf(counter.lastNow, LimitPeriod)}
  /\ counter.windowStart = NoWindow => counter.lastNow = 0 /\ \A w \in LimitWindows : admitted[w] = 0
  /\ counter.windowStart # NoWindow =>
       /\ counter.windowStart \in LimitWindows /\ admitted[counter.windowStart] = counter.used
       /\ \A w \in LimitWindows : w > counter.windowStart => admitted[w] = 0

LEMMA CounterStarts == CounterInit => CounterInv
BY LimitAssumption DEF CounterInit, CounterInv, NoCounter, LimitWindows, NoWindow

LEMMA CounterStep == CounterInv /\ [CounterNext]_counterVars => CounterInv'
<1>. SUFFICES ASSUME CounterInv, [CounterNext]_counterVars PROVE CounterInv' OBVIOUS
<1>1. CASE UNCHANGED counterVars BY <1>1 DEF counterVars, CounterInv
<1>2. ASSUME NEW t \in LimitTimes, Consume(t) PROVE CounterInv'
  <2>0. t \in Nat /\ LimitPeriod \in Nat \ {0} /\ LimitCapacity \in Nat \ {0} BY LimitAssumption
  <2>1. PICK now : now = ClockTime(t, counter.lastNow) OBVIOUS
  <2>2. now \in {t, counter.lastNow} /\ now >= t /\ now >= counter.lastNow /\ now \in Nat
    BY <2>0, <2>1, MaxOfTwo DEF ClockTime, CounterInv
  <2>3. PICK w : w = WindowOf(now, LimitPeriod) OBVIOUS
  <2>4. w \in Nat /\ w \in LimitWindows
    <3>1. w \in Nat BY <2>0, <2>2, <2>3, WindowsGrow
    <3>2. CASE counter.windowStart = NoWindow
      <4>1. now = t BY <2>0, <2>2, <3>2 DEF CounterInv
      <4>. QED BY <2>3, <3>1, <4>1 DEF LimitWindows
    <3>3. CASE counter.windowStart # NoWindow
      BY <2>2, <2>3, <3>1, <3>3 DEF CounterInv, LimitWindows
    <3>. QED BY <3>2, <3>3
  <2>5. counter.windowStart # NoWindow => counter.windowStart \in Nat /\ counter.windowStart <= w
    BY <2>0, <2>2, <2>3, WindowsGrow DEF CounterInv
  <2>6. PICK used : used = IF counter.windowStart = w THEN counter.used ELSE 0 OBVIOUS
  <2>7. used \in 0..LimitCapacity /\ admitted[w] = used /\ (\A v \in LimitWindows : v > w => admitted[v] = 0)
    <3>0. \A v \in LimitWindows : v \in Nat
      BY <2>0, LimitAssumption, WindowsGrow DEF LimitWindows
    <3>1. CASE counter.windowStart = NoWindow
      BY <2>0, <2>4, <2>6, <3>1 DEF CounterInv, NoWindow
    <3>2. CASE counter.windowStart # NoWindow
      <4>1. ASSUME NEW v \in LimitWindows, v > w PROVE admitted[v] = 0
        BY <2>4, <2>5, <3>0, <3>2, <4>1 DEF CounterInv
      <4>. QED BY <2>0, <2>4, <2>5, <2>6, <3>2, <4>1 DEF CounterInv
    <3>. QED BY <3>1, <3>2
  <2>8. PICK n : n = IF 1 <= LimitCapacity - used THEN used + 1 ELSE used OBVIOUS
  <2>9. PICK next : next = ConsumeState(counter, LimitCapacity, LimitPeriod, 1, t) OBVIOUS
  <2>a. /\ next.allowed <=> 1 <= LimitCapacity - used
        /\ next.state = [windowStart |-> w, lastNow |-> now, used |-> n]
    BY <2>1, <2>3, <2>6, <2>8, <2>9 DEF ConsumeState
  <2>10. counter' = [windowStart |-> w, lastNow |-> now, used |-> n] BY <1>2, <2>9, <2>a DEF Consume
  <2>11. admitted' = IF 1 <= LimitCapacity - used THEN [admitted EXCEPT ![w] = admitted[w] + 1] ELSE admitted
    <3>1. next.state.windowStart = w BY <2>a
    <3>. QED BY <1>2, <2>9, <2>a, <3>1 DEF Consume
  <2>12. n \in 0..LimitCapacity BY <2>0, <2>7, <2>8
  <2>13. /\ admitted' \in [LimitWindows -> 0..LimitCapacity] /\ admitted'[w] = n
         /\ \A v \in LimitWindows : v > w => admitted'[v] = 0
    <3>1. admitted \in [LimitWindows -> 0..LimitCapacity] BY DEF CounterInv
    <3>2. CASE 1 <= LimitCapacity - used
      <4>1. admitted' = [admitted EXCEPT ![w] = n] BY <2>7, <2>8, <2>11, <3>2
      <4>. QED BY <2>4, <2>7, <2>12, <3>1, <4>1
    <3>3. CASE ~(1 <= LimitCapacity - used) BY <2>4, <2>7, <2>8, <2>11, <3>1, <3>3
    <3>. QED BY <3>2, <3>3
  <2>. QED BY <2>2, <2>3, <2>4, <2>10, <2>12, <2>13 DEF CounterInv, NoWindow
<1>. QED BY <1>1, <1>2 DEF CounterNext

-----------------------------------------------------------------------------
(***************************************************************************)
(* The leases                                                              *)
(***************************************************************************)
LeaseFields == {"token", "quantity", "expiresAt"}
CallPcs == {"idle", "acquire", "acquired", "held", "finally", "done"}
LimitCall == [pc : CallPcs, wrapped : BOOLEAN, aborted : BOOLEAN,
              renewal : {"none", "sent", "renewed", "lost"}, release : {"none", "sent", "released"},
              lost : BOOLEAN]

(* Every stored lease is one the service knows, may learn of, or lost with *)
(* its answer.                                                             *)
KnownLease(l) == LET c == l.token IN calls[c].lost \/ calls[c].pc = "acquired" \/ c \in owned
Before(c) == calls[c].pc \in {"idle", "acquire", "acquired"}
LimitCallInv(c) ==
  /\ calls[c].pc = "idle" => ~calls[c].wrapped
  /\ calls[c].aborted \/ calls[c].pc = "finally" => calls[c].wrapped
  /\ calls[c].renewal # "none" \/ calls[c].release # "none" => ~Before(c)
  /\ calls[c].renewal = "lost" \/ calls[c].release = "released" => \A l \in bucket.leases : l.token # c

LeaseInv ==
  /\ DOMAIN bucket = {"lastNow", "leases"}
  /\ \A l \in bucket.leases : DOMAIN l = LeaseFields /\ l.token \in LimitCalls
  /\ calls \in [LimitCalls -> LimitCall]
  /\ \A l \in bucket.leases : KnownLease(l)
  /\ \A c \in LimitCalls : LimitCallInv(c)
  /\ closing \in {"release", "closed", "failed"} => Drains
  /\ closing = "closed" => owned = {}
  /\ closing \in {"open", "drain", "release", "closed", "failed"}

LEMMA LeasesStart == LimitInit => LeaseInv
<1>. SUFFICES ASSUME LimitInit PROVE LeaseInv OBVIOUS
<1>1. NoCall \in LimitCall BY DEF NoCall, LimitCall, CallPcs
<1>2. NoLeases.leases = {} /\ DOMAIN NoLeases = {"lastNow", "leases"} BY DEF NoLeases
<1>3. ASSUME NEW c \in LimitCalls PROVE LimitCallInv(c)
  BY <1>2, <1>3 DEF LimitInit, LimitCallInv, NoCall, Before
<1>. QED BY <1>1, <1>2, <1>3 DEF LimitInit, LeaseInv

(* What a store call may do to the leases.                                 *)
FewerTokens == \A l \in bucket'.leases : DOMAIN l = LeaseFields /\ \E k \in bucket.leases : k.token = l.token

LEMMA LiveTokens ==
  ASSUME NEW t, LeaseInv
  PROVE  DOMAIN Live(t) = {"lastNow", "leases"} /\ Live(t).leases \subseteq bucket.leases
  BY DEF Live, LiveState

LEMMA RenewTokens ==
  ASSUME NEW t, NEW c, LeaseInv, bucket' = RenewState(Live(t), c, LimitTtl)
  PROVE  /\ DOMAIN bucket' = {"lastNow", "leases"} /\ FewerTokens
         /\ \A l \in bucket'.leases : \E k \in Live(t).leases : k.token = l.token
<1>1. PICK live : live = Live(t) OBVIOUS
<1>2. DOMAIN live = {"lastNow", "leases"} /\ live.leases \subseteq bucket.leases BY <1>1, LiveTokens
<1>3. PICK q : q = RenewState(live, c, LimitTtl) OBVIOUS
<1>4. bucket' = q BY <1>1, <1>3
<1>5. DOMAIN q = {"lastNow", "leases"} BY <1>2, <1>3 DEF RenewState
<1>6. ASSUME NEW l \in q.leases PROVE DOMAIN l = LeaseFields /\ \E k \in live.leases : k.token = l.token
  <2>1. q.leases = {IF k.token = c THEN [k EXCEPT !.expiresAt = Max({k.expiresAt, live.lastNow + LimitTtl})] ELSE k
                     : k \in live.leases}
    BY <1>2, <1>3 DEF RenewState
  <2>2. PICK k \in live.leases :
          l = IF k.token = c THEN [k EXCEPT !.expiresAt = Max({k.expiresAt, live.lastNow + LimitTtl})] ELSE k
    BY <2>1
  <2>3. DOMAIN k = LeaseFields /\ k \in bucket.leases BY <1>2 DEF LeaseInv
  <2>4. DOMAIN l = LeaseFields /\ l.token = k.token BY <2>2, <2>3 DEF LeaseFields
  <2>. QED BY <2>3, <2>4
<1>. QED BY <1>1, <1>2, <1>4, <1>5, <1>6 DEF FewerTokens

LEMMA ReleaseTokens ==
  ASSUME NEW t, NEW c, LeaseInv, bucket' = ReleaseState(Live(t), c)
  PROVE  DOMAIN bucket' = {"lastNow", "leases"} /\ FewerTokens /\ \A l \in bucket'.leases : l.token # c
BY LiveTokens DEF ReleaseState, Holding, FewerTokens, LeaseInv

LEMMA LiveFewer ==
  ASSUME NEW t, LeaseInv, bucket' = Live(t)
  PROVE  DOMAIN bucket' = {"lastNow", "leases"} /\ FewerTokens
BY LiveTokens DEF FewerTokens, LeaseInv

LEMMA SameFewer == ASSUME LeaseInv, bucket' = bucket PROVE DOMAIN bucket' = {"lastNow", "leases"} /\ FewerTokens
BY DEF FewerTokens, LeaseInv

(* A step of one caller, whose record becomes r.                           *)
Granting(c, r) ==
  /\ r.lost \/ r.pc = "acquired"
  /\ \A l \in bucket'.leases : DOMAIN l = LeaseFields /\ (l.token = c \/ \E k \in bucket.leases : k.token = l.token)
Becomes(c, r) == calls' = [calls EXCEPT ![c] = r]

LEMMA Becoming ==
  ASSUME LeaseInv, NEW c \in LimitCalls, NEW r \in LimitCall, Becomes(c, r)
  PROVE  /\ calls' \in [LimitCalls -> LimitCall] /\ calls'[c] = r
         /\ \A d \in LimitCalls : d # c => calls'[d] = calls[d]
  BY DEF LeaseInv, Becomes

LEMMA CallFields ==
  ASSUME LeaseInv, NEW c \in LimitCalls
  PROVE  /\ calls[c] \in LimitCall /\ calls[c].pc \in CallPcs /\ calls[c].wrapped \in BOOLEAN
         /\ calls[c].aborted \in BOOLEAN /\ calls[c].lost \in BOOLEAN
         /\ calls[c].renewal \in {"none", "sent", "renewed", "lost"}
         /\ calls[c].release \in {"none", "sent", "released"}
  BY DEF LeaseInv, LimitCall

(* A caller is under way while its slot waits for a store call or executes;*)
(* what it does then neither ends nor concerns a close that has drained.   *)
LEMMA NotDrained ==
  ASSUME LeaseInv, NEW c \in LimitCalls, Pending(c) \/ Running(c) \/ closing = "open" \/ closing = "drain"
  PROVE  closing \in {"open", "drain"}
  BY DEF LeaseInv, Drains

(* A step of a caller that grants nothing keeps what holds of the others.  *)
LEMMA CallerMoves ==
  ASSUME LeaseInv, NEW c \in LimitCalls, NEW r \in LimitCall, Becomes(c, r), closing' = closing,
         closing \in {"open", "drain"},
         DOMAIN bucket' = {"lastNow", "leases"}, FewerTokens \/ Granting(c, r),
         \A d \in LimitCalls : d # c /\ d \in owned => d \in owned',
         calls[c].lost => r.lost,
         calls[c].pc = "acquired" => r.pc = "acquired" \/ c \in owned',
         c \in owned /\ c \notin owned' => \A l \in bucket'.leases : l.token # c,
         LimitCallInv(c)'
  PROVE  LeaseInv'
<1>1. /\ calls' \in [LimitCalls -> LimitCall] /\ calls'[c] = r
      /\ \A d \in LimitCalls : d # c => calls'[d] = calls[d]
  BY Becoming
<1>2. ASSUME NEW l \in bucket'.leases PROVE DOMAIN l = LeaseFields /\ l.token \in LimitCalls /\ KnownLease(l)'
  <2>1. DOMAIN l = LeaseFields BY DEF FewerTokens, Granting
  <2>2. CASE \E k \in bucket.leases : k.token = l.token
    <3>1. PICK k \in bucket.leases : k.token = l.token BY <2>2
    <3>2. l.token \in LimitCalls /\ KnownLease(k) BY <3>1 DEF LeaseInv
    <3>3. CASE l.token = c BY <1>1, <2>1, <3>1, <3>2, <3>3 DEF KnownLease
    <3>4. CASE l.token # c BY <1>1, <2>1, <3>1, <3>2, <3>4 DEF KnownLease
    <3>. QED BY <3>3, <3>4
  <2>3. CASE ~\E k \in bucket.leases : k.token = l.token
    BY <1>1, <2>1, <2>3 DEF FewerTokens, Granting, KnownLease
  <2>. QED BY <2>2, <2>3
<1>3. ASSUME NEW d \in LimitCalls PROVE LimitCallInv(d)'
  <2>1. CASE d = c BY <2>1
  <2>2. CASE d # c
    <3>1. calls'[d] = calls[d] /\ LimitCallInv(d) BY <1>1, <2>2 DEF LeaseInv
    <3>2. (\A l \in bucket.leases : l.token # d) => \A l \in bucket'.leases : l.token # d
      BY <2>2 DEF FewerTokens, Granting
    <3>. QED BY <3>1, <3>2 DEF LimitCallInv, Before
  <2>. QED BY <2>1, <2>2
<1>. QED BY <1>1, <1>2, <1>3 DEF LeaseInv

LEMMA CallKept == ASSUME LeaseInv, NEW c \in LimitCalls, NEW wrapped \in BOOLEAN, Call(c, wrapped) PROVE LeaseInv'
<1>0. PICK w \in LimitCall : w = calls[c] BY CallFields
<1>1. LimitCallInv(c) BY DEF LeaseInv
<1>2. w.pc = "idle" /\ closing = "open" /\ UNCHANGED <<bucket, owned, closing>> BY <1>0 DEF Call, Open
<1>3. DOMAIN bucket' = {"lastNow", "leases"} /\ FewerTokens BY <1>2, SameFewer
<1>41. PICK r : r = [w EXCEPT !.pc = "acquire", !.wrapped = wrapped] OBVIOUS
<1>42. r \in LimitCall /\ r.pc = "acquire" /\ r.wrapped = wrapped /\ r.aborted = w.aborted
       /\ r.renewal = w.renewal /\ r.release = w.release /\ r.lost = w.lost
  BY <1>41 DEF LimitCall, CallPcs
<1>43. Becomes(c, r) BY <1>41, <1>0 DEF Call, Becomes, LeaseInv
<1>44. calls'[c] = r BY <1>42, <1>43, Becoming
<1>45. LimitCallInv(c)'
  BY <1>0, <1>1, <1>2, <1>3, <1>42, <1>44 DEF LimitCallInv, Before
<1>. QED BY <1>0, <1>1, <1>2, <1>3, <1>42, <1>43, <1>45, CallerMoves

LEMMA AcquiredKept == ASSUME LeaseInv, NEW c \in LimitCalls, Acquired(c) PROVE LeaseInv'
<1>0. PICK w \in LimitCall : w = calls[c] BY CallFields
<1>1. LimitCallInv(c) BY DEF LeaseInv
<1>2. w.pc = "acquired" /\ owned' = owned \cup {c} /\ UNCHANGED <<bucket, closing>> BY <1>0 DEF Acquired
<1>3. DOMAIN bucket' = {"lastNow", "leases"} /\ FewerTokens BY <1>2, SameFewer
<1>a. closing \in {"open", "drain"} BY <1>0, <1>2, NotDrained DEF Pending
<1>4. PICK pc \in {"finally", "held"} : pc = IF w.aborted THEN "finally" ELSE "held" OBVIOUS
<1>51. PICK r : r = [w EXCEPT !.pc = pc] OBVIOUS
<1>52. r \in LimitCall /\ r.pc = pc /\ r.wrapped = w.wrapped /\ r.aborted = w.aborted
       /\ r.renewal = w.renewal /\ r.release = w.release /\ r.lost = w.lost
  BY <1>51 DEF LimitCall, CallPcs
<1>53. Becomes(c, r) BY <1>51, <1>0, <1>4 DEF Acquired, Becomes, LeaseInv
<1>54. calls'[c] = r BY <1>52, <1>53, Becoming
<1>55. LimitCallInv(c)'
  BY <1>0, <1>1, <1>2, <1>3, <1>a, <1>4, <1>52, <1>54 DEF LimitCallInv, Before
<1>. QED BY <1>0, <1>1, <1>2, <1>3, <1>a, <1>4, <1>52, <1>53, <1>55, CallerMoves

LEMMA AcquireFailsKept == ASSUME LeaseInv, NEW c \in LimitCalls, AcquireFails(c) PROVE LeaseInv'
<1>0. PICK w \in LimitCall : w = calls[c] BY CallFields
<1>1. LimitCallInv(c) BY DEF LeaseInv
<1>2. w.pc = "acquire" /\ UNCHANGED <<bucket, owned, closing>> BY <1>0 DEF AcquireFails
<1>3. DOMAIN bucket' = {"lastNow", "leases"} /\ FewerTokens BY <1>2, SameFewer
<1>a. closing \in {"open", "drain"} BY <1>0, <1>2, NotDrained DEF Pending
<1>4. CASE calls' = [calls EXCEPT ![c].pc = "done"]
  <2>11. PICK r : r = [w EXCEPT !.pc = "done"] OBVIOUS
  <2>12. r \in LimitCall /\ r.pc = "done" /\ r.wrapped = w.wrapped /\ r.aborted = w.aborted
         /\ r.renewal = w.renewal /\ r.release = w.release /\ r.lost = w.lost
    BY <2>11 DEF LimitCall, CallPcs
  <2>13. Becomes(c, r) BY <2>11, <1>0, <1>4 DEF Becomes, LeaseInv
  <2>14. calls'[c] = r BY <2>12, <2>13, Becoming
  <2>15. LimitCallInv(c)'
    BY <1>0, <1>1, <1>2, <1>3, <1>a, <2>12, <2>14 DEF LimitCallInv, Before
  <2>. QED BY <1>0, <1>1, <1>2, <1>3, <1>a, <2>12, <2>13, <2>15, CallerMoves
<1>5. CASE calls' = [calls EXCEPT ![c].pc = "held", ![c].lost = TRUE]
  <2>11. PICK r : r = [w EXCEPT !.pc = "held", !.lost = TRUE] OBVIOUS
  <2>12. r \in LimitCall /\ r.pc = "held" /\ r.wrapped = w.wrapped /\ r.aborted = w.aborted
         /\ r.renewal = w.renewal /\ r.release = w.release /\ r.lost
    BY <2>11 DEF LimitCall, CallPcs
  <2>13. Becomes(c, r) BY <2>11, <1>0, <1>5 DEF Becomes, LeaseInv
  <2>14. calls'[c] = r BY <2>12, <2>13, Becoming
  <2>15. LimitCallInv(c)'
    BY <1>0, <1>1, <1>2, <1>3, <1>a, <2>12, <2>14 DEF LimitCallInv, Before
  <2>. QED BY <1>0, <1>1, <1>2, <1>3, <1>a, <2>12, <2>13, <2>15, CallerMoves
<1>. QED BY <1>4, <1>5 DEF AcquireFails

LEMMA LimitRenewKept == ASSUME LeaseInv, NEW c \in LimitCalls, Renew(c) PROVE LeaseInv'
<1>0. PICK w \in LimitCall : w = calls[c] BY CallFields
<1>1. LimitCallInv(c) BY DEF LeaseInv
<1>2. w.pc = "held" /\ w.renewal = "none" /\ UNCHANGED <<bucket, owned, closing>> BY <1>0 DEF Renew
<1>3. DOMAIN bucket' = {"lastNow", "leases"} /\ FewerTokens BY <1>2, SameFewer
<1>4. CASE Open /\ calls' = [calls EXCEPT ![c].renewal = "sent"]
  <2>a. closing \in {"open", "drain"} BY <1>4 DEF Open
  <2>11. PICK r : r = [w EXCEPT !.renewal = "sent"] OBVIOUS
  <2>12. r \in LimitCall /\ r.pc = w.pc /\ r.wrapped = w.wrapped /\ r.aborted = w.aborted
         /\ r.renewal = "sent" /\ r.release = w.release /\ r.lost = w.lost
    BY <2>11 DEF LimitCall, CallPcs
  <2>13. Becomes(c, r) BY <2>11, <1>0, <1>4 DEF Becomes, LeaseInv
  <2>14. calls'[c] = r BY <2>12, <2>13, Becoming
  <2>15. LimitCallInv(c)'
    BY <1>0, <1>1, <1>2, <1>3, <2>a, <2>12, <2>14 DEF LimitCallInv, Before
  <2>. QED BY <1>0, <1>1, <1>2, <1>3, <2>a, <2>12, <2>13, <2>15, CallerMoves
<1>5. CASE ~Open /\ calls[c].wrapped /\ calls' = [calls EXCEPT ![c].aborted = TRUE]
  <2>a. closing \in {"open", "drain"} BY <1>0, <1>2, <1>5, NotDrained DEF Running
  <2>11. PICK r : r = [w EXCEPT !.aborted = TRUE] OBVIOUS
  <2>12. r \in LimitCall /\ r.pc = w.pc /\ r.wrapped = w.wrapped /\ r.aborted
         /\ r.renewal = w.renewal /\ r.release = w.release /\ r.lost = w.lost
    BY <2>11 DEF LimitCall, CallPcs
  <2>13. Becomes(c, r) BY <2>11, <1>0, <1>5 DEF Becomes, LeaseInv
  <2>14. calls'[c] = r BY <2>12, <2>13, Becoming
  <2>15. LimitCallInv(c)'
    BY <1>0, <1>1, <1>2, <1>3, <1>5, <2>a, <2>12, <2>14 DEF LimitCallInv, Before
  <2>. QED BY <1>0, <1>1, <1>2, <1>3, <1>5, <2>a, <2>12, <2>13, <2>15, CallerMoves
<1>. QED BY <1>4, <1>5 DEF Renew

LEMMA RenewStoredKept ==
  ASSUME LeaseInv, NEW c \in LimitCalls, NEW t, RenewStored(c, t) PROVE LeaseInv'
<1>0. PICK w \in LimitCall : w = calls[c] BY CallFields
<1>1. LimitCallInv(c) BY DEF LeaseInv
<1>2. w.renewal = "sent" /\ UNCHANGED <<owned, closing>> BY <1>0 DEF RenewStored
<1>3. DOMAIN bucket' = {"lastNow", "leases"} /\ FewerTokens
  BY RenewTokens, SameFewer DEF RenewStored
<1>a. closing \in {"open", "drain"} BY <1>0, <1>2, NotDrained DEF Pending
<1>4. CASE /\ bucket' = RenewState(Live(t), c, LimitTtl)
           /\ calls' = [calls EXCEPT ![c].renewal = IF Holding(Live(t), c) = {} THEN "lost" ELSE "renewed"]
  <2>1. PICK answer \in {"lost", "renewed"} : answer = IF Holding(Live(t), c) = {} THEN "lost" ELSE "renewed" OBVIOUS
  <2>b. answer = "lost" => \A l \in bucket'.leases : l.token # c
    <3>. SUFFICES ASSUME answer = "lost" PROVE \A l \in bucket'.leases : l.token # c OBVIOUS
    <3>1. \A l \in Live(t).leases : l.token # c BY <2>1 DEF Holding
    <3>2. \A l \in bucket'.leases : \E k \in Live(t).leases : k.token = l.token BY <1>4, RenewTokens
    <3>. QED BY <3>1, <3>2
  <2>21. PICK r : r = [w EXCEPT !.renewal = answer] OBVIOUS
  <2>22. r \in LimitCall /\ r.pc = w.pc /\ r.wrapped = w.wrapped /\ r.aborted = w.aborted
         /\ r.renewal = answer /\ r.release = w.release /\ r.lost = w.lost
    BY <2>21 DEF LimitCall, CallPcs
  <2>23. Becomes(c, r) BY <2>21, <1>0, <1>4, <2>1 DEF Becomes, LeaseInv
  <2>24. calls'[c] = r BY <2>22, <2>23, Becoming
  <2>25. LimitCallInv(c)'
    BY <1>0, <1>1, <1>2, <1>3, <1>a, <2>1, <2>b, <2>22, <2>24 DEF LimitCallInv, Before, FewerTokens
  <2>. QED BY <1>0, <1>1, <1>2, <1>3, <1>a, <2>1, <2>b, <2>22, <2>23, <2>25, CallerMoves
<1>5. CASE calls' = [calls EXCEPT ![c].renewal = "none", ![c].aborted = calls[c].wrapped]
  <2>11. PICK r : r = [w EXCEPT !.renewal = "none", !.aborted = w.wrapped] OBVIOUS
  <2>12. r \in LimitCall /\ r.pc = w.pc /\ r.wrapped = w.wrapped /\ r.aborted = w.wrapped
         /\ r.renewal = "none" /\ r.release = w.release /\ r.lost = w.lost
    BY <2>11 DEF LimitCall, CallPcs
  <2>13. Becomes(c, r) BY <2>11, <1>0, <1>5 DEF Becomes, LeaseInv
  <2>14. calls'[c] = r BY <2>12, <2>13, Becoming
  <2>15. LimitCallInv(c)'
    BY <1>0, <1>1, <1>2, <1>3, <1>a, <2>12, <2>14 DEF LimitCallInv, Before, FewerTokens
  <2>. QED BY <1>0, <1>1, <1>2, <1>3, <1>a, <2>12, <2>13, <2>15, CallerMoves
<1>. QED BY <1>4, <1>5 DEF RenewStored

LEMMA RenewedKept == ASSUME LeaseInv, NEW c \in LimitCalls, Renewed(c) PROVE LeaseInv'
<1>0. PICK w \in LimitCall : w = calls[c] BY CallFields
<1>1. LimitCallInv(c) BY DEF LeaseInv
<1>2. /\ w.renewal \in {"renewed", "lost"} /\ UNCHANGED <<bucket, closing>>
      /\ owned' = IF w.renewal = "lost" THEN owned \ {c} ELSE owned
  BY <1>0 DEF Renewed
<1>3. DOMAIN bucket' = {"lastNow", "leases"} /\ FewerTokens BY <1>2, SameFewer
<1>a. closing \in {"open", "drain"} BY <1>0, <1>2, NotDrained DEF Pending
<1>4. PICK aborted \in BOOLEAN : aborted = (w.aborted \/ (w.wrapped /\ w.renewal = "lost"))
  BY DEF LimitCall
<1>b. aborted => w.wrapped BY <1>0, <1>1, <1>4 DEF LimitCallInv
<1>c. w.renewal = "lost" => \A l \in bucket'.leases : l.token # c BY <1>0, <1>1, <1>2 DEF LimitCallInv
<1>51. PICK r : r = [w EXCEPT !.renewal = "none", !.aborted = aborted] OBVIOUS
<1>52. r \in LimitCall /\ r.pc = w.pc /\ r.wrapped = w.wrapped /\ r.aborted = aborted
       /\ r.renewal = "none" /\ r.release = w.release /\ r.lost = w.lost
  BY <1>51 DEF LimitCall, CallPcs
<1>53. Becomes(c, r) BY <1>51, <1>0, <1>4 DEF Renewed, Becomes, LeaseInv
<1>54. calls'[c] = r BY <1>52, <1>53, Becoming
<1>55. LimitCallInv(c)'
  BY <1>0, <1>1, <1>2, <1>3, <1>a, <1>b, <1>c, <1>52, <1>54 DEF LimitCallInv, Before
<1>. QED BY <1>0, <1>1, <1>2, <1>3, <1>a, <1>b, <1>c, <1>52, <1>53, <1>55, CallerMoves

LEMMA ExecutedKept == ASSUME LeaseInv, NEW c \in LimitCalls, Executed(c) PROVE LeaseInv'
<1>0. PICK w \in LimitCall : w = calls[c] BY CallFields
<1>1. LimitCallInv(c) BY DEF LeaseInv
<1>2. w.pc = "held" /\ w.wrapped /\ UNCHANGED <<bucket, owned, closing>> BY <1>0 DEF Executed
<1>3. DOMAIN bucket' = {"lastNow", "leases"} /\ FewerTokens BY <1>2, SameFewer
<1>a. closing \in {"open", "drain"} BY <1>0, <1>2, NotDrained DEF Running
<1>51. PICK r : r = [w EXCEPT !.pc = "finally"] OBVIOUS
<1>52. r \in LimitCall /\ r.pc = "finally" /\ r.wrapped = w.wrapped /\ r.aborted = w.aborted
       /\ r.renewal = w.renewal /\ r.release = w.release /\ r.lost = w.lost
  BY <1>51 DEF LimitCall, CallPcs
<1>53. Becomes(c, r) BY <1>51, <1>0 DEF Executed, Becomes, LeaseInv
<1>54. calls'[c] = r BY <1>52, <1>53, Becoming
<1>55. LimitCallInv(c)'
  BY <1>0, <1>1, <1>2, <1>3, <1>a, <1>52, <1>54 DEF LimitCallInv, Before
<1>. QED BY <1>0, <1>1, <1>2, <1>3, <1>a, <1>52, <1>53, <1>55, CallerMoves

LEMMA LimitReleaseKept == ASSUME LeaseInv, NEW c \in LimitCalls, Release(c) PROVE LeaseInv'
<1>0. PICK w \in LimitCall : w = calls[c] BY CallFields
<1>1. LimitCallInv(c) BY DEF LeaseInv
<1>2. w.release = "none" /\ UNCHANGED <<bucket, owned, closing>> BY <1>0 DEF Release
<1>3. DOMAIN bucket' = {"lastNow", "leases"} /\ FewerTokens BY <1>2, SameFewer
<1>b. (w.pc = "held" /\ Open) \/ (w.pc = "finally" /\ w.renewal = "none") BY <1>0 DEF Release
<1>a. closing \in {"open", "drain"}
  <2>1. w.pc = "finally" => w.wrapped BY <1>0, <1>1 DEF LimitCallInv
  <2>. QED BY <1>0, <1>b, <2>1, NotDrained DEF Running, Open
<1>4. CASE calls' = [calls EXCEPT ![c].release = "sent"]
  <2>11. PICK r : r = [w EXCEPT !.release = "sent"] OBVIOUS
  <2>12. r \in LimitCall /\ r.pc = w.pc /\ r.wrapped = w.wrapped /\ r.aborted = w.aborted
         /\ r.renewal = w.renewal /\ r.release = "sent" /\ r.lost = w.lost
    BY <2>11 DEF LimitCall, CallPcs
  <2>13. Becomes(c, r) BY <2>11, <1>0, <1>4 DEF Becomes, LeaseInv
  <2>14. calls'[c] = r BY <2>12, <2>13, Becoming
  <2>15. LimitCallInv(c)'
    BY <1>0, <1>1, <1>2, <1>3, <1>a, <1>b, <2>12, <2>14 DEF LimitCallInv, Before
  <2>. QED BY <1>0, <1>1, <1>2, <1>3, <1>a, <1>b, <2>12, <2>13, <2>15, CallerMoves
<1>5. CASE w.pc = "finally" /\ calls' = [calls EXCEPT ![c].pc = "done"]
  <2>11. PICK r : r = [w EXCEPT !.pc = "done"] OBVIOUS
  <2>12. r \in LimitCall /\ r.pc = "done" /\ r.wrapped = w.wrapped /\ r.aborted = w.aborted
         /\ r.renewal = w.renewal /\ r.release = w.release /\ r.lost = w.lost
    BY <2>11 DEF LimitCall, CallPcs
  <2>13. Becomes(c, r) BY <2>11, <1>0, <1>5 DEF Becomes, LeaseInv
  <2>14. calls'[c] = r BY <2>12, <2>13, Becoming
  <2>15. LimitCallInv(c)'
    BY <1>0, <1>1, <1>2, <1>3, <1>a, <1>b, <2>12, <2>14 DEF LimitCallInv, Before
  <2>. QED BY <1>0, <1>1, <1>2, <1>3, <1>a, <1>b, <2>12, <2>13, <2>15, CallerMoves
<1>6. ASSUME calls' = [calls EXCEPT ![c] = IF calls[c].lost THEN [calls[c] EXCEPT !.pc = "done"]
                                                             ELSE [calls[c] EXCEPT !.release = "sent"]]
      PROVE  \/ calls' = [calls EXCEPT ![c].pc = "done"]
             \/ calls' = [calls EXCEPT ![c].release = "sent"]
  <2>1. CASE calls[c].lost BY <1>6, <2>1 DEF LeaseInv
  <2>2. CASE ~calls[c].lost BY <1>6, <2>2 DEF LeaseInv
  <2>. QED BY <2>1, <2>2
<1>. QED BY <1>0, <1>4, <1>5, <1>6 DEF Release

LEMMA ReleaseStoredKept ==
  ASSUME LeaseInv, NEW c \in LimitCalls, NEW t, ReleaseStored(c, t) PROVE LeaseInv'
<1>0. PICK w \in LimitCall : w = calls[c] BY CallFields
<1>1. LimitCallInv(c) BY DEF LeaseInv
<1>2. w.release = "sent" /\ UNCHANGED <<owned, closing>> BY <1>0 DEF ReleaseStored
<1>3. DOMAIN bucket' = {"lastNow", "leases"} /\ FewerTokens
  BY ReleaseTokens, SameFewer DEF ReleaseStored
<1>a. closing \in {"open", "drain"} BY <1>0, <1>2, NotDrained DEF Pending
<1>d. w.pc # "acquired" BY <1>0, <1>1, <1>2 DEF LimitCallInv, Before
<1>4. CASE bucket' = ReleaseState(Live(t), c) /\ calls' = [calls EXCEPT ![c].release = "released"]
  <2>b. \A l \in bucket'.leases : l.token # c BY <1>4, ReleaseTokens
  <2>21. PICK r : r = [w EXCEPT !.release = "released"] OBVIOUS
  <2>22. r \in LimitCall /\ r.pc = w.pc /\ r.wrapped = w.wrapped /\ r.aborted = w.aborted
         /\ r.renewal = w.renewal /\ r.release = "released" /\ r.lost = w.lost
    BY <2>21 DEF LimitCall, CallPcs
  <2>23. Becomes(c, r) BY <2>21, <1>0, <1>4 DEF Becomes, LeaseInv
  <2>24. calls'[c] = r BY <2>22, <2>23, Becoming
  <2>25. LimitCallInv(c)'
    BY <1>0, <1>1, <1>2, <1>3, <1>a, <2>b, <2>22, <2>24 DEF LimitCallInv, Before, FewerTokens
  <2>. QED BY <1>0, <1>1, <1>2, <1>3, <1>a, <2>b, <2>22, <2>23, <2>25, CallerMoves
<1>5. CASE calls' = [calls EXCEPT ![c].release = "none", ![c].pc = IF calls[c].wrapped THEN "done" ELSE "held"]
  <2>1. PICK pc \in {"done", "held"} : pc = IF w.wrapped THEN "done" ELSE "held" OBVIOUS
  <2>21. PICK r : r = [w EXCEPT !.release = "none", !.pc = pc] OBVIOUS
  <2>22. r \in LimitCall /\ r.pc = pc /\ r.wrapped = w.wrapped /\ r.aborted = w.aborted
         /\ r.renewal = w.renewal /\ r.release = "none" /\ r.lost = w.lost
    BY <2>21 DEF LimitCall, CallPcs
  <2>23. Becomes(c, r) BY <2>21, <1>0, <1>5, <2>1 DEF Becomes, LeaseInv
  <2>24. calls'[c] = r BY <2>22, <2>23, Becoming
  <2>25. LimitCallInv(c)'
    BY <1>0, <1>1, <1>2, <1>3, <1>a, <1>d, <2>1, <2>22, <2>24 DEF LimitCallInv, Before, FewerTokens
  <2>. QED BY <1>0, <1>1, <1>2, <1>3, <1>a, <1>d, <2>1, <2>22, <2>23, <2>25, CallerMoves
<1>. QED BY <1>4, <1>5 DEF ReleaseStored

LEMMA ReleasedKept == ASSUME LeaseInv, NEW c \in LimitCalls, Released(c) PROVE LeaseInv'
<1>0. PICK w \in LimitCall : w = calls[c] BY CallFields
<1>1. LimitCallInv(c) BY DEF LeaseInv
<1>2. w.release = "released" /\ owned' = owned \ {c} /\ UNCHANGED <<bucket, closing>>
  BY <1>0 DEF Released
<1>3. DOMAIN bucket' = {"lastNow", "leases"} /\ FewerTokens BY <1>2, SameFewer
<1>a. closing \in {"open", "drain"} BY <1>0, <1>2, NotDrained DEF Pending
<1>d. w.pc # "acquired" BY <1>0, <1>1, <1>2 DEF LimitCallInv, Before
<1>c. (\A l \in bucket'.leases : l.token # c) /\ ~Before(c) BY <1>0, <1>1, <1>2 DEF LimitCallInv
<1>51. PICK r : r = [w EXCEPT !.release = "none", !.pc = "done"] OBVIOUS
<1>52. r \in LimitCall /\ r.pc = "done" /\ r.wrapped = w.wrapped /\ r.aborted = w.aborted
       /\ r.renewal = w.renewal /\ r.release = "none" /\ r.lost = w.lost
  BY <1>51 DEF LimitCall, CallPcs
<1>53. Becomes(c, r) BY <1>51, <1>0 DEF Released, Becomes, LeaseInv
<1>54. calls'[c] = r BY <1>52, <1>53, Becoming
<1>55. LimitCallInv(c)'
  BY <1>0, <1>1, <1>2, <1>3, <1>a, <1>c, <1>d, <1>52, <1>54 DEF LimitCallInv, Before
<1>. QED BY <1>0, <1>1, <1>2, <1>3, <1>a, <1>c, <1>d, <1>52, <1>53, <1>55, CallerMoves

LEMMA AcquireKept == ASSUME LeaseInv, NEW c \in LimitCalls, NEW t, Acquire(c, t) PROVE LeaseInv'
<1>0. PICK w \in LimitCall : w = calls[c] BY CallFields
<1>1. LimitCallInv(c) BY DEF LeaseInv
<1>2. w.pc = "acquire" /\ UNCHANGED <<owned, closing>> BY <1>0 DEF Acquire
<1>a. closing \in {"open", "drain"} BY <1>0, <1>2, NotDrained DEF Pending
<1>b. w.renewal = "none" /\ w.release = "none" BY <1>0, <1>1, <1>2 DEF LimitCallInv, Before
<1>3. CASE ~Admits(Live(t), LimitCapacity, 1)
  <2>1. bucket' = Live(t) /\ calls' = [calls EXCEPT ![c].pc = "done"] BY <1>3 DEF Acquire
  <2>2. DOMAIN bucket' = {"lastNow", "leases"} /\ FewerTokens BY <2>1, LiveFewer
  <2>3. PICK r : r = [w EXCEPT !.pc = "done"] OBVIOUS
  <2>4. /\ r \in LimitCall /\ r.pc = "done" /\ r.wrapped = w.wrapped /\ r.aborted = w.aborted
        /\ r.renewal = w.renewal /\ r.release = w.release /\ r.lost = w.lost
    BY <2>3 DEF LimitCall, CallPcs
  <2>5. Becomes(c, r) BY <1>0, <2>1, <2>3 DEF Becomes, LeaseInv
  <2>6. calls'[c] = r BY <2>4, <2>5, Becoming
  <2>7. LimitCallInv(c)' BY <1>0, <1>1, <1>b, <2>4, <2>6 DEF LimitCallInv, Before
  <2>. QED BY <1>0, <1>2, <1>a, <2>2, <2>4, <2>5, <2>7, CallerMoves
<1>4. CASE Admits(Live(t), LimitCapacity, 1)
  <2>1. bucket' = AcquireState(Live(t), c, 1, LimitTtl) BY <1>4 DEF Acquire
  <2>2. /\ DOMAIN bucket' = {"lastNow", "leases"}
        /\ \A l \in bucket'.leases : DOMAIN l = LeaseFields /\ (l.token = c \/ \E k \in bucket.leases : k.token = l.token)
    <3>1. PICK live : live = Live(t) OBVIOUS
    <3>2. DOMAIN live = {"lastNow", "leases"} /\ live.leases \subseteq bucket.leases BY <3>1, LiveTokens
    <3>3. PICK new : new = [token |-> c, quantity |-> 1, expiresAt |-> live.lastNow + LimitTtl] OBVIOUS
    <3>4. DOMAIN new = LeaseFields /\ new.token = c BY <3>3 DEF LeaseFields
    <3>5. bucket' = [live EXCEPT !.leases = live.leases \cup {new}] BY <2>1, <3>1, <3>3 DEF AcquireState
    <3>6. DOMAIN bucket' = {"lastNow", "leases"} /\ bucket'.leases = live.leases \cup {new} BY <3>2, <3>5
    <3>. QED BY <3>2, <3>4, <3>6 DEF LeaseInv
  <2>3. \/ calls' = [calls EXCEPT ![c].pc = "acquired"]
        \/ \E pc \in {"done", "held"} : /\ calls' = [calls EXCEPT ![c].lost = TRUE, ![c].pc = pc]
                                        /\ pc = "held" => calls[c].wrapped
    BY <1>4 DEF Acquire
  <2>4. CASE calls' = [calls EXCEPT ![c].pc = "acquired"]
    <3>1. PICK r : r = [w EXCEPT !.pc = "acquired"] OBVIOUS
    <3>2. /\ r \in LimitCall /\ r.pc = "acquired" /\ r.wrapped = w.wrapped /\ r.aborted = w.aborted
          /\ r.renewal = w.renewal /\ r.release = w.release /\ r.lost = w.lost
      BY <3>1 DEF LimitCall, CallPcs
    <3>3. Becomes(c, r) BY <1>0, <2>4, <3>1 DEF Becomes, LeaseInv
    <3>4. calls'[c] = r BY <3>2, <3>3, Becoming
    <3>5. LimitCallInv(c)' BY <1>0, <1>1, <1>b, <1>2, <3>2, <3>4 DEF LimitCallInv, Before
    <3>6. Granting(c, r) BY <2>2, <3>2 DEF Granting
    <3>. QED BY <1>0, <1>2, <1>a, <2>2, <3>2, <3>3, <3>5, <3>6, CallerMoves
  <2>5. ASSUME NEW pc \in {"done", "held"}, calls' = [calls EXCEPT ![c].lost = TRUE, ![c].pc = pc] PROVE LeaseInv'
    <3>1. PICK r : r = [w EXCEPT !.lost = TRUE, !.pc = pc] OBVIOUS
    <3>2. /\ r \in LimitCall /\ r.pc = pc /\ r.wrapped = w.wrapped /\ r.aborted = w.aborted
          /\ r.renewal = w.renewal /\ r.release = w.release /\ r.lost
      BY <3>1 DEF LimitCall, CallPcs
    <3>3. Becomes(c, r) BY <1>0, <2>5, <3>1 DEF Becomes, LeaseInv
    <3>4. calls'[c] = r BY <3>2, <3>3, Becoming
    <3>5. LimitCallInv(c)' BY <1>0, <1>1, <1>b, <1>2, <3>2, <3>4 DEF LimitCallInv, Before
    <3>6. Granting(c, r) BY <2>2, <3>2 DEF Granting
    <3>. QED BY <1>0, <1>2, <1>a, <2>2, <3>2, <3>3, <3>5, <3>6, CallerMoves
  <2>. QED BY <2>3, <2>4, <2>5
<1>. QED BY <1>3, <1>4

LEMMA CloseLimitsKept == ASSUME LeaseInv, CloseLimits PROVE LeaseInv'
<1>0. UNCHANGED <<bucket, owned>> /\ closing' = "drain" BY DEF CloseLimits
<1>1. ASSUME NEW c \in LimitCalls PROVE calls'[c] \in LimitCall /\ LimitCallInv(c)' /\ calls'[c].lost = calls[c].lost
                                        /\ calls'[c].pc = calls[c].pc
  <2>1. PICK w \in LimitCall : w = calls[c] BY CallFields
  <2>2. LimitCallInv(c) BY DEF LeaseInv
  <2>3. CASE w.wrapped
    <3>1. PICK r : r = [w EXCEPT !.aborted = TRUE] OBVIOUS
    <3>2. /\ r \in LimitCall /\ r.pc = w.pc /\ r.wrapped = w.wrapped /\ r.aborted
          /\ r.renewal = w.renewal /\ r.release = w.release /\ r.lost = w.lost
      BY <3>1 DEF LimitCall
    <3>3. calls'[c] = r BY <2>1, <2>3, <3>1 DEF CloseLimits
    <3>. QED BY <1>0, <2>1, <2>2, <2>3, <3>2, <3>3 DEF LimitCallInv, Before
  <2>4. CASE ~w.wrapped
    <3>1. calls'[c] = w BY <2>1, <2>4 DEF CloseLimits
    <3>. QED BY <1>0, <2>1, <2>2, <3>1 DEF LimitCallInv, Before
  <2>. QED BY <2>3, <2>4
<1>2. calls' \in [LimitCalls -> LimitCall] BY <1>1 DEF CloseLimits
<1>3. ASSUME NEW l \in bucket.leases PROVE KnownLease(l)'
  <2>1. KnownLease(l) /\ l.token \in LimitCalls BY DEF LeaseInv
  <2>. QED BY <1>0, <1>1, <2>1 DEF KnownLease
<1>. QED BY <1>0, <1>1, <1>2, <1>3 DEF LeaseInv

(* When everything has drained, a lease that was not lost is owned.        *)
LEMMA CloseReleasesKept == ASSUME LeaseInv, NEW t, CloseReleases(t) PROVE LeaseInv'
<1>0. UNCHANGED calls /\ closing = "release" /\ closing' \in {"closed", "failed"} BY DEF CloseReleases
<1>1. Drains /\ Drains' BY <1>0 DEF LeaseInv, Drains, Running, Pending
<1>2. PICK done :
        /\ bucket' = [Live(t) EXCEPT !.leases = {l \in Live(t).leases : l.token \notin done}]
        /\ owned' = owned \ done
        /\ closing' = "closed" => owned' = {}
  BY DEF CloseReleases
<1>3. /\ DOMAIN bucket' = {"lastNow", "leases"}
      /\ \A l \in bucket'.leases : l \in bucket.leases /\ l.token \notin done
  BY <1>2, LiveTokens
<1>4. ASSUME NEW l \in bucket'.leases PROVE DOMAIN l = LeaseFields /\ l.token \in LimitCalls /\ KnownLease(l)'
  BY <1>0, <1>2, <1>3 DEF LeaseInv, KnownLease
<1>5. ASSUME NEW c \in LimitCalls PROVE LimitCallInv(c)'
  BY <1>0, <1>3 DEF LeaseInv, LimitCallInv, Before
<1>. QED BY <1>0, <1>1, <1>2, <1>3, <1>4, <1>5 DEF LeaseInv

LEMMA LeaseStep == LeaseInv /\ [LimitNext]_leaseVars => LeaseInv'
<1>. SUFFICES ASSUME LeaseInv, [LimitNext]_leaseVars PROVE LeaseInv' OBVIOUS
<1>1. CASE UNCHANGED leaseVars
  BY <1>1 DEF leaseVars, LeaseInv, KnownLease, LimitCallInv, Before, Drains, Running, Pending
<1>2. CASE LimitsDrained
  BY <1>2 DEF LimitsDrained, LeaseInv, KnownLease, LimitCallInv, Before, Drains, Running, Pending
<1>3. CASE CloseLimits BY <1>3, CloseLimitsKept
<1>4. ASSUME NEW t \in LimitTimes, CloseReleases(t) PROVE LeaseInv' BY <1>4, CloseReleasesKept
<1>5. ASSUME NEW c \in LimitCalls, NEW wrapped \in BOOLEAN, Call(c, wrapped) PROVE LeaseInv' BY <1>5, CallKept
<1>6. ASSUME NEW c \in LimitCalls,
             \/ Acquired(c) \/ AcquireFails(c) \/ Renew(c) \/ Renewed(c) \/ Executed(c) \/ Release(c) \/ Released(c)
      PROVE  LeaseInv'
  BY <1>6, AcquiredKept, AcquireFailsKept, LimitRenewKept, RenewedKept, ExecutedKept, LimitReleaseKept, ReleasedKept
<1>7. ASSUME NEW c \in LimitCalls, NEW t \in LimitTimes, Acquire(c, t) \/ RenewStored(c, t) \/ ReleaseStored(c, t)
      PROVE  LeaseInv'
  BY <1>7, AcquireKept, RenewStoredKept, ReleaseStoredKept
<1>. QED BY <1>1, <1>2, <1>3, <1>4, <1>5, <1>6, <1>7 DEF LimitNext

LEMMA ClosedThen == LeaseInv => ClosedHoldsNothing
<1>1. ASSUME LeaseInv PROVE ClosedHoldsNothing
  <2>. SUFFICES ASSUME closing = "closed"
                PROVE  /\ \A l \in bucket.leases : calls[l.token].lost
                       /\ \A c \in LimitCalls : ~Running(c)
    BY DEF ClosedHoldsNothing
  <2>1. \A c \in LimitCalls : ~Running(c) /\ ~Pending(c) BY <1>1 DEF LeaseInv, Drains
  <2>2. ASSUME NEW l \in bucket.leases PROVE calls[l.token].lost
    <3>1. l.token \in LimitCalls /\ KnownLease(l) /\ owned = {} BY <1>1 DEF LeaseInv
    <3>. QED BY <2>1, <3>1 DEF KnownLease, Pending
  <2>. QED BY <2>1, <2>2
<1>. QED BY <1>1

(* No window admits more than its capacity, for every capacity, period and *)
(* course of the clock, and once close() has resolved the store holds no   *)
(* lease of the service but those whose grant was lost, and nothing runs,  *)
(* whatever was under way (consumeState, clockTime, close, releaseOwned).  *)
THEOREM LimitsAlwaysHold == LimitsSpec => []LimitsHold
<1>1. CounterInv /\ LeaseInv => LimitsHold
  BY ClosedThen, LimitAssumption DEF CounterInv, WindowWithinCapacity, LimitsHold
<1>2. ASSUME CounterInv, LeaseInv, [LimitsNext]_<<counterVars, leaseVars>> PROVE CounterInv' /\ LeaseInv'
  <2>1. [CounterNext]_counterVars /\ [LimitNext]_leaseVars BY <1>2 DEF LimitsNext
  <2>. QED BY <1>2, <2>1, CounterStep, LeaseStep
<1>. QED BY <1>1, <1>2, CounterStarts, LeasesStart, PTL DEF LimitsSpec

-----------------------------------------------------------------------------
(***************************************************************************)
(* The cache                                                               *)
(***************************************************************************)

Loaders == {h \in Families : FlightsOf[h] # {}}
FlightPcs == {"idle", "generation", "read", "unset", "load", "loaded", "write", "settle"}
Flight == [pc : FlightPcs, h : Loaders \cup {0}, keep : BOOLEAN, gen : Nat, val : Nat,
           writable : BOOLEAN, attached : BOOLEAN, aborted : BOOLEAN, floor : Nat \ {0}]
Mutation == [pc : {"idle", "drain", "apply"}, h : Families \cup {0}, op : {"none", "set", "delete", "invalidate"},
             gen : Nat, at : Nat, waits : SUBSET Flights]
Entry == [gen : Nat, val : Nat, by : Loaders \cup {0}, from : {"none", "load", "set"}]

CacheTypes ==
  /\ source \in Nat \ {0} /\ generation \in Nat \ {0} /\ entry \in Entry
  /\ flights \in [Flights -> Flight] /\ mutations \in [Mutations -> Mutation]
  /\ floors \in [Loaders -> Nat \ {0}] /\ invalidated \in Nat

(* Nothing is known of a version that the source has not reached.          *)
KnownVersions ==
  /\ invalidated <= source
  /\ \A h \in Loaders : floors[h] <= source
  /\ \A c \in Mutations : mutations[c].at <= source
  /\ \A f \in Flights : flights[f].floor <= source /\ flights[f].gen <= generation

(* What may still be stored, or be given to a caller that joins.           *)
HasValue(w) == w.pc \in {"loaded", "write", "settle"}
Joinable(w) == w.attached /\ HasValue(w)
InProgress(m) == m.pc # "idle"

(* A flight that can be joined has seen every mutation of its family that  *)
(* has begun; a command that is on its way has seen them too, or they wait *)
(* for it.                                                                 *)
FlightIsFresh(f) ==
  LET w == flights[f] IN
  /\ w.pc = "idle" => ~w.attached
  /\ w.pc # "idle" => w.h \in Loaders
  /\ w.writable = w.attached
  /\ HasValue(w) /\ ~w.aborted => w.val >= w.floor
  /\ w.pc \in {"write", "settle"} => w.val >= w.floor
  /\ Joinable(w) \/ w.pc = "write" => /\ w.val >= floors[w.h]
                                      /\ w.gen = generation => w.val >= invalidated
  /\ w.attached => ~w.aborted
  /\ Joinable(w) => \A c \in Mutations : InProgress(mutations[c]) /\ mutations[c].h = w.h => w.val >= mutations[c].at
  /\ w.pc = "write" => \A c \in Mutations : InProgress(mutations[c]) /\ mutations[c].h = w.h =>
                                              f \in mutations[c].waits \/ w.val >= mutations[c].at

(* An entry that a delete will find under another generation has seen the  *)
(* delete's reason already.                                                *)
OutlivesDelete(c) ==
  LET m == mutations[c] IN
  m.pc = "apply" => /\ m.waits = {}
                    /\ m.op = "delete" /\ m.gen # generation /\ entry.from = "load" /\ entry.gen = generation
                       /\ entry.by = m.h => entry.val >= m.at

CacheInv == /\ CacheTypes /\ KnownVersions
            /\ \A f \in Flights : FlightIsFresh(f)
            /\ \A c \in Mutations : OutlivesDelete(c)
            /\ entry.from = "load" => entry.by \in Loaders
            /\ EntryIsFresh

USE DEF Flights, FAt

LEMMA FlightFields ==
  ASSUME CacheInv, NEW f \in Flights
  PROVE  /\ flights[f] \in Flight /\ flights[f].pc \in FlightPcs /\ flights[f].h \in Loaders \cup {0}
         /\ flights[f].keep \in BOOLEAN /\ flights[f].gen \in Nat /\ flights[f].val \in Nat
         /\ flights[f].writable \in BOOLEAN /\ flights[f].attached \in BOOLEAN
         /\ flights[f].aborted \in BOOLEAN /\ flights[f].floor \in Nat \ {0}
  BY DEF CacheInv, CacheTypes, Flight

LEMMA MutationFields ==
  ASSUME CacheInv, NEW c \in Mutations
  PROVE  /\ mutations[c] \in Mutation /\ mutations[c].pc \in {"idle", "drain", "apply"}
         /\ mutations[c].h \in Families \cup {0} /\ mutations[c].gen \in Nat /\ mutations[c].at \in Nat
         /\ mutations[c].waits \in SUBSET Flights
  BY DEF CacheInv, CacheTypes, Mutation

LEMMA CacheStarts == CacheInit => CacheInv
<1>. SUFFICES ASSUME CacheInit PROVE CacheInv OBVIOUS
<1>1. CacheTypes
  <2>1. NoFlight \in Flight BY DEF NoFlight, Flight, FlightPcs
  <2>2. NoMutation \in Mutation BY DEF NoMutation, Mutation
  <2>3. NoEntry \in Entry BY DEF NoEntry, Entry
  <2>. QED BY <2>1, <2>2, <2>3 DEF CacheInit, CacheTypes, Loaders
<1>2. KnownVersions BY DEF CacheInit, KnownVersions, NoFlight, NoMutation, Loaders
<1>3. ASSUME NEW f \in Flights PROVE FlightIsFresh(f)
  BY DEF CacheInit, FlightIsFresh, NoFlight, Joinable, HasValue
<1>4. ASSUME NEW c \in Mutations PROVE OutlivesDelete(c)
  BY DEF CacheInit, OutlivesDelete, NoMutation
<1>. QED BY <1>1, <1>2, <1>3, <1>4 DEF CacheInv, EntryIsFresh, CacheInit, NoEntry

(* What a flight's own steps owe the invariant: that they leave a fresh    *)
(* flight, and the rest as it is but for commands that have ended.         *)
Others(f) == \A g \in Flights : g # f => flights'[g] = flights[g]
Waiting(f) == /\ mutations' \in [Mutations -> Mutation]
              /\ \A c \in Mutations : /\ mutations'[c].pc = mutations[c].pc /\ mutations'[c].h = mutations[c].h
                                      /\ mutations'[c].op = mutations[c].op /\ mutations'[c].gen = mutations[c].gen
                                      /\ mutations'[c].at = mutations[c].at
                                      /\ mutations'[c].waits \subseteq mutations[c].waits
                                      /\ mutations[c].waits \subseteq mutations'[c].waits \cup {f}

LEMMA FlightMoves ==
  ASSUME CacheInv, NEW f \in Flights, flights' \in [Flights -> Flight], Others(f), Waiting(f),
         UNCHANGED <<source, generation, floors, invalidated>>,
         flights'[f].floor <= source, flights'[f].gen <= generation,
         FlightIsFresh(f)'
  PROVE  /\ KnownVersions'
         /\ \A g \in Flights : FlightIsFresh(g)'
         /\ source' \in Nat \ {0} /\ generation' \in Nat \ {0} /\ flights' \in [Flights -> Flight]
         /\ mutations' \in [Mutations -> Mutation] /\ floors' \in [Loaders -> Nat \ {0}] /\ invalidated' \in Nat
<1>1. KnownVersions'
  BY DEF CacheInv, KnownVersions, Others, Waiting
<1>2. ASSUME NEW g \in Flights, g # f PROVE FlightIsFresh(g)'
  <2>1. FlightIsFresh(g) /\ flights'[g] = flights[g] BY <1>2 DEF CacheInv, Others
  <2>2. \A c \in Mutations : /\ mutations'[c].pc = mutations[c].pc /\ mutations'[c].h = mutations[c].h
                             /\ mutations'[c].at = mutations[c].at
                             /\ g \in mutations[c].waits => g \in mutations'[c].waits
    BY <1>2 DEF Waiting
  <2>. QED BY <2>1, <2>2 DEF FlightIsFresh, Joinable, HasValue, InProgress
<1>3. \A g \in Flights : FlightIsFresh(g)'
  <2>. SUFFICES ASSUME NEW g \in Flights PROVE FlightIsFresh(g)' OBVIOUS
  <2>1. CASE g = f BY <2>1
  <2>2. CASE g # f BY <2>2, <1>2
  <2>. QED BY <2>1, <2>2
<1>. QED BY <1>1, <1>3 DEF CacheInv, CacheTypes, Waiting

LEMMA SameWaits ==
  ASSUME CacheInv, UNCHANGED mutations, NEW f PROVE Waiting(f)
  BY DEF Waiting, CacheInv, CacheTypes

LEMMA DrainedWaits ==
  ASSUME CacheInv, NEW f, Drained(f) PROVE Waiting(f)
<1>1. ASSUME NEW c \in Mutations
      PROVE  /\ mutations'[c] \in Mutation
             /\ mutations'[c].pc = mutations[c].pc /\ mutations'[c].h = mutations[c].h
             /\ mutations'[c].op = mutations[c].op /\ mutations'[c].gen = mutations[c].gen
             /\ mutations'[c].at = mutations[c].at /\ mutations'[c].waits = mutations[c].waits \ {f}
  BY DEF CacheInv, CacheTypes, Drained, Mutation
<1>. QED BY <1>1 DEF Waiting, Drained

(* The other parts of the invariant, when the entry stays.                 *)
LEMMA EntryStays ==
  ASSUME CacheInv, NEW f, Waiting(f), UNCHANGED <<generation, entry, floors, invalidated>>
  PROVE  /\ entry' \in Entry /\ EntryIsFresh' /\ (entry.from = "load" => entry.by \in Loaders)'
         /\ \A c \in Mutations : OutlivesDelete(c)'
<1>1. ASSUME NEW c \in Mutations PROVE OutlivesDelete(c)'
  BY DEF CacheInv, OutlivesDelete, Waiting
<1>. QED BY <1>1 DEF CacheInv, CacheTypes, EntryIsFresh

LEMMA EntryGoes ==
  ASSUME CacheInv, NEW f, Waiting(f), entry' = NoEntry
  PROVE  /\ entry' \in Entry /\ EntryIsFresh' /\ (entry.from = "load" => entry.by \in Loaders)'
         /\ \A c \in Mutations : OutlivesDelete(c)'
<1>1. ASSUME NEW c \in Mutations PROVE OutlivesDelete(c)'
  BY DEF CacheInv, OutlivesDelete, Waiting, NoEntry
<1>. QED BY <1>1 DEF CacheInv, CacheTypes, EntryIsFresh, NoEntry, Entry

LEMMA LandsFresh ==
  ASSUME CacheInv, NEW f \in Flights, Lands(f), UNCHANGED <<source, generation, floors, invalidated>>, Waiting(f)
  PROVE  flights' \in [Flights -> Flight] /\ Others(f) /\ flights'[f].floor <= source /\ flights'[f].gen <= generation
         /\ FlightIsFresh(f)'
<1>1. NoFlight \in Flight /\ NoFlight.floor = 1 /\ NoFlight.gen = 0 /\ NoFlight.pc = "idle" /\ NoFlight.attached = FALSE
      /\ NoFlight.writable = FALSE
  BY DEF NoFlight, Flight, FlightPcs
<1>2. flights' \in [Flights -> Flight] /\ flights'[f] = NoFlight /\ Others(f)
  BY <1>1 DEF Lands, CacheInv, CacheTypes, Others
<1>3. source \in Nat \ {0} /\ generation \in Nat \ {0} BY DEF CacheInv, CacheTypes
<1>4. FlightIsFresh(f)' BY <1>1, <1>2 DEF FlightIsFresh, Joinable, HasValue
<1>. QED BY <1>1, <1>2, <1>3, <1>4

Puts(f, r) == flights' = [flights EXCEPT ![f] = r]
LEMMA Putting ==
  ASSUME CacheInv, NEW f \in Flights, NEW r \in Flight, Puts(f, r)
  PROVE  flights' \in [Flights -> Flight] /\ Others(f) /\ flights'[f] = r
  BY DEF CacheInv, CacheTypes, Others, Puts

LEMMA PcFields ==
  ASSUME CacheInv, NEW f \in Flights, NEW pc \in FlightPcs, Flies(f, pc)
  PROVE  /\ flights' \in [Flights -> Flight] /\ Others(f)
         /\ flights'[f].pc = pc /\ flights'[f].h = flights[f].h /\ flights'[f].val = flights[f].val
         /\ flights'[f].writable = flights[f].writable /\ flights'[f].attached = flights[f].attached
         /\ flights'[f].aborted = flights[f].aborted /\ flights'[f].floor = flights[f].floor
         /\ flights'[f].gen = flights[f].gen /\ flights'[f].floor <= source /\ flights'[f].gen <= generation
  BY FlightFields DEF CacheInv, CacheTypes, KnownVersions, Others, Flight, Flies

(* A step that only advances a flight's pc, or gives it a value.           *)
LEMMA GenerationKept ==
  ASSUME CacheInv, NEW f \in Flights, ReadGeneration(f)
  PROVE  CacheInv'
<1>0. UNCHANGED <<source, generation, entry, mutations, floors, invalidated>> /\ flights[f].pc = "generation"
  BY DEF ReadGeneration
<1>1. Waiting(f) BY <1>0, SameWaits
<1>2. CASE Lands(f)
  BY <1>0, <1>1, <1>2, LandsFresh, FlightMoves, EntryStays DEF CacheInv, CacheTypes
<1>3. CASE flights' = [flights EXCEPT ![f].gen = generation, ![f].pc = "read"]
  <2>a. PICK w \in Flight : w = flights[f] BY FlightFields
  <2>b. PICK n \in Nat : n = generation BY DEF CacheInv, CacheTypes
  <2>1. PICK r : r = [w EXCEPT !.gen = n, !.pc = "read"] OBVIOUS
  <2>2. generation \in Nat /\ "read" \in FlightPcs BY DEF CacheInv, CacheTypes, FlightPcs
  <2>c. /\ r \in Flight /\ r.pc = "read" /\ r.gen = n /\ r.h = w.h /\ r.val = w.val
        /\ r.writable = w.writable /\ r.attached = w.attached /\ r.aborted = w.aborted /\ r.floor = w.floor
    BY <2>1, <2>2 DEF Flight
  <2>3. /\ r \in Flight /\ r.pc = "read" /\ r.val = flights[f].val /\ r.h = flights[f].h /\ r.gen = generation
        /\ r.writable = flights[f].writable /\ r.attached = flights[f].attached
        /\ r.aborted = flights[f].aborted /\ r.floor = flights[f].floor
    BY <2>a, <2>b, <2>c
  <2>4. Puts(f, r) BY <1>3, <2>a, <2>b, <2>1, FlightFields DEF Puts, CacheInv, CacheTypes
  <2>5. flights' \in [Flights -> Flight] /\ Others(f) /\ flights'[f] = r BY <2>3, <2>4, Putting
  <2>6. flights'[f].floor <= source /\ flights'[f].gen <= generation
    BY <2>2, <2>3, <2>5 DEF CacheInv, KnownVersions
  <2>7. FlightIsFresh(f) BY DEF CacheInv
  <2>8. FlightIsFresh(f)' BY <1>0, <2>3, <2>5, <2>7 DEF FlightIsFresh, Joinable, HasValue
  <2>. QED BY <1>0, <1>1, <2>5, <2>6, <2>8, FlightMoves, EntryStays DEF CacheInv, CacheTypes
<1>4. CASE Flies(f, "load")
  <2>1. "load" \in FlightPcs BY DEF FlightPcs
  <2>2. FlightIsFresh(f) BY DEF CacheInv
  <2>3. FlightIsFresh(f)' BY <1>0, <1>4, <2>1, <2>2, PcFields DEF FlightIsFresh, Joinable, HasValue
  <2>. QED BY <1>0, <1>1, <1>4, <2>1, <2>3, PcFields, FlightMoves, EntryStays DEF CacheInv, CacheTypes
<1>. QED BY <1>2, <1>3, <1>4 DEF ReadGeneration

LEMMA ReadKept ==
  ASSUME CacheInv, NEW f \in Flights, Read(f)
  PROVE  CacheInv'
<1>0. UNCHANGED <<source, generation, entry, mutations, floors, invalidated>> /\ flights[f].pc = "read"
  BY DEF Read
<1>1. Waiting(f) BY <1>0, SameWaits
<1>2. CASE Lands(f)
  BY <1>0, <1>1, <1>2, LandsFresh, FlightMoves, EntryStays DEF CacheInv, CacheTypes
<1>3. CASE ~Lands(f)
  <2>1. PICK pc \in {"unset", "load"} : flights' = [flights EXCEPT ![f] = [flights[f] EXCEPT !.pc = pc]]
    BY <1>3 DEF Read, Lands
  <2>2. flights' \in [Flights -> Flight] /\ Others(f) /\ flights'[f] = [flights[f] EXCEPT !.pc = pc]
    BY <2>1, FlightFields DEF CacheInv, CacheTypes, Others, Flight, FlightPcs
  <2>3. FlightIsFresh(f)'
    BY <1>0, <2>1, <2>2, FlightFields DEF CacheInv, FlightIsFresh, Joinable, HasValue, Flight
  <2>4. flights'[f].floor <= source /\ flights'[f].gen <= generation
    BY <1>0, <2>2, FlightFields DEF CacheInv, KnownVersions, Flight
  <2>. QED BY <1>0, <1>1, <2>2, <2>3, <2>4, FlightMoves, EntryStays DEF CacheInv, CacheTypes
<1>. QED BY <1>2, <1>3

LEMMA UnsetKept ==
  ASSUME CacheInv, NEW f \in Flights, Unset(f)
  PROVE  CacheInv'
<1>0. UNCHANGED <<source, generation, floors, invalidated>> /\ flights[f].pc = "unset" /\ Drained(f)
  BY DEF Unset
<1>1. Waiting(f) BY <1>0, DrainedWaits
<1>2. /\ entry' \in Entry /\ EntryIsFresh' /\ (entry.from = "load" => entry.by \in Loaders)'
      /\ \A c \in Mutations : OutlivesDelete(c)'
  BY <1>0, <1>1, EntryStays, EntryGoes DEF Unset
<1>3. CASE Lands(f)
  BY <1>0, <1>1, <1>2, <1>3, LandsFresh, FlightMoves DEF CacheInv, CacheTypes
<1>4. CASE Flies(f, "load")
  <2>1. "load" \in FlightPcs BY DEF FlightPcs
  <2>2. FlightIsFresh(f)'
    BY <1>0, <1>4, <2>1, PcFields DEF CacheInv, FlightIsFresh, Joinable, HasValue
  <2>. QED BY <1>0, <1>1, <1>2, <1>4, <2>1, <2>2, PcFields, FlightMoves DEF CacheInv, CacheTypes
<1>. QED BY <1>3, <1>4 DEF Unset

LEMMA LoadKept ==
  ASSUME CacheInv, NEW f \in Flights, Load(f)
  PROVE  CacheInv'
<1>0. UNCHANGED <<source, generation, entry, mutations, floors, invalidated>> /\ flights[f].pc = "load"
  BY DEF Load
<1>1. Waiting(f) BY <1>0, SameWaits
<1>2. source \in Nat /\ "loaded" \in FlightPcs BY DEF CacheInv, CacheTypes, FlightPcs
<1>a. PICK w \in Flight : w = flights[f] BY FlightFields
<1>b. PICK n \in Nat : n = source BY <1>2
<1>3. PICK r : r = [w EXCEPT !.pc = "loaded", !.val = n] OBVIOUS
<1>c. /\ r \in Flight /\ r.pc = "loaded" /\ r.val = n /\ r.h = w.h /\ r.gen = w.gen
      /\ r.writable = w.writable /\ r.attached = w.attached /\ r.aborted = w.aborted /\ r.floor = w.floor
  BY <1>2, <1>3 DEF Flight
<1>4. /\ r \in Flight /\ r.pc = "loaded" /\ r.val = source /\ r.h = flights[f].h /\ r.gen = flights[f].gen
      /\ r.writable = flights[f].writable /\ r.attached = flights[f].attached
      /\ r.aborted = flights[f].aborted /\ r.floor = flights[f].floor
  BY <1>a, <1>b, <1>c
<1>5. Puts(f, r) BY <1>3, <1>a, <1>b DEF Load, Puts, CacheInv, CacheTypes
<1>6. flights' \in [Flights -> Flight] /\ Others(f) /\ flights'[f] = r
  BY <1>4, <1>5, Putting
<1>7. flights'[f].floor <= source /\ flights'[f].gen <= generation
  BY <1>4, <1>6 DEF CacheInv, KnownVersions
<1>8. FlightIsFresh(f)'
  <2>1. FlightIsFresh(f) /\ KnownVersions BY DEF CacheInv
  <2>2. r.writable = r.attached /\ r.h \in Loaders BY <1>0, <1>4, <2>1 DEF FlightIsFresh
  <2>3. r.val >= r.floor /\ r.val >= floors[r.h] /\ r.val >= invalidated
        /\ \A c \in Mutations : r.val >= mutations[c].at
    BY <1>2, <1>4, <2>1, <2>2 DEF KnownVersions
  <2>4. Joinable(r) => ~r.aborted
    <3>1. flights[f].attached => ~flights[f].aborted
      BY <2>1 DEF FlightIsFresh
    <3>. QED BY <1>4, <3>1 DEF Joinable
  <2>. QED BY <1>0, <1>4, <1>6, <2>2, <2>3, <2>4 DEF FlightIsFresh, HasValue, Joinable, InProgress
<1>. QED BY <1>0, <1>1, <1>6, <1>7, <1>8, FlightMoves, EntryStays DEF CacheInv, CacheTypes

LEMMA LoadedKept ==
  ASSUME CacheInv, NEW f \in Flights, Loaded(f)
  PROVE  CacheInv'
<1>0. UNCHANGED <<source, generation, entry, mutations, floors, invalidated>> /\ flights[f].pc = "loaded"
  BY DEF Loaded
<1>1. Waiting(f) BY <1>0, SameWaits
<1>2. CASE Lands(f)
  BY <1>0, <1>1, <1>2, LandsFresh, FlightMoves, EntryStays DEF CacheInv, CacheTypes
<1>3. CASE ~Lands(f)
  <2>1. PICK pc \in {"write", "settle"} : Flies(f, pc) /\ ~flights[f].aborted /\ (pc = "write" => flights[f].writable)
    BY <1>3 DEF Loaded
  <2>2. pc \in FlightPcs BY DEF FlightPcs
  <2>3. FlightIsFresh(f)'
    <3>1. FlightIsFresh(f) BY DEF CacheInv
    <3>. QED BY <1>0, <2>1, <2>2, <3>1, PcFields, ZenonT(60) DEF FlightIsFresh, Joinable, HasValue, InProgress
  <2>. QED BY <1>0, <1>1, <2>1, <2>2, <2>3, PcFields, FlightMoves, EntryStays DEF CacheInv, CacheTypes
<1>. QED BY <1>2, <1>3

LEMMA SettleKept ==
  ASSUME CacheInv, NEW f \in Flights, Settle(f)
  PROVE  CacheInv'
<1>0. UNCHANGED <<source, generation, entry, mutations, floors, invalidated>> /\ Lands(f)
  BY DEF Settle
<1>1. Waiting(f) BY <1>0, SameWaits
<1>. QED BY <1>0, <1>1, LandsFresh, FlightMoves, EntryStays DEF CacheInv, CacheTypes

(* The entry a write leaves has seen what the flight has.                  *)
LEMMA WriteKept ==
  ASSUME CacheInv, NEW f \in Flights, Write(f)
  PROVE  CacheInv'
<1>0. UNCHANGED <<source, generation, floors, invalidated>> /\ flights[f].pc = "write" /\ Drained(f)
  BY DEF Write
<1>1. Waiting(f) BY <1>0, DrainedWaits
<1>2. FlightIsFresh(f) BY DEF CacheInv
<1>3. /\ entry' \in Entry /\ EntryIsFresh' /\ (entry.from = "load" => entry.by \in Loaders)'
      /\ \A c \in Mutations : OutlivesDelete(c)'
  <2>1. CASE entry' = entry BY <1>0, <1>1, <2>1, EntryStays
  <2>2. CASE entry' # entry
    <3>1. /\ flights[f].gen = generation
          /\ entry' = [gen |-> generation, val |-> flights[f].val, by |-> flights[f].h, from |-> "load"]
      BY <2>2 DEF Write
    <3>2. entry' \in Entry BY <3>1, FlightFields DEF Entry, CacheInv, CacheTypes
    <3>3. flights[f].h \in Loaders BY <1>0, <1>2 DEF FlightIsFresh
    <3>4. flights[f].val >= floors[flights[f].h] /\ flights[f].val >= invalidated
      BY <1>0, <1>2, <3>1 DEF FlightIsFresh
    <3>5. EntryIsFresh' BY <1>0, <3>1, <3>4 DEF EntryIsFresh
    <3>6. ASSUME NEW c \in Mutations PROVE OutlivesDelete(c)'
      <4>1. OutlivesDelete(c) BY DEF CacheInv
      <4>2. mutations[c].pc = "apply" /\ mutations[c].h = flights[f].h => flights[f].val >= mutations[c].at
        BY <1>0, <1>2, <4>1 DEF FlightIsFresh, OutlivesDelete, InProgress
      <4>. QED BY <1>1, <3>1, <4>1, <4>2 DEF OutlivesDelete, Waiting
    <3>. QED BY <3>1, <3>2, <3>3, <3>5, <3>6
  <2>. QED BY <2>1, <2>2
<1>4. CASE Lands(f)
  BY <1>0, <1>1, <1>3, <1>4, LandsFresh, FlightMoves DEF CacheInv, CacheTypes
<1>5. CASE Flies(f, "settle")
  <2>1. "settle" \in FlightPcs BY DEF FlightPcs
  <2>2. FlightIsFresh(f)'
    <3>1. \A c \in Mutations : /\ mutations'[c].pc = mutations[c].pc /\ mutations'[c].h = mutations[c].h
                               /\ mutations'[c].at = mutations[c].at
      BY <1>1 DEF Waiting
    <3>2. Joinable(flights[f]) = flights[f].attached /\ Joinable(flights'[f]) = flights[f].attached
      BY <1>0, <1>5, <2>1, PcFields, FlightFields DEF Joinable, HasValue
    <3>. QED BY <1>0, <1>2, <1>5, <2>1, <3>1, <3>2, PcFields DEF FlightIsFresh, HasValue, InProgress
  <2>. QED BY <1>0, <1>1, <1>3, <1>5, <2>1, <2>2, PcFields, FlightMoves DEF CacheInv, CacheTypes
<1>. QED BY <1>4, <1>5 DEF Write

LEMMA UpdateKept == ASSUME CacheInv, Update PROVE CacheInv'
<1>0. /\ source' = source + 1 /\ source \in Nat \ {0}
      /\ UNCHANGED <<generation, entry, flights, mutations, floors, invalidated>>
  BY DEF Update, CacheInv, CacheTypes
<1>1. CacheTypes' BY <1>0 DEF CacheInv, CacheTypes
<1>2. KnownVersions'
  <2>1. KnownVersions /\ invalidated \in Nat /\ \A h \in Loaders : floors[h] \in Nat BY DEF CacheInv, CacheTypes
  <2>2. ASSUME NEW f \in Flights PROVE flights'[f].floor <= source' /\ flights'[f].gen <= generation'
    BY <1>0, <2>1, FlightFields DEF KnownVersions
  <2>3. ASSUME NEW c \in Mutations PROVE mutations'[c].at <= source'
    BY <1>0, <2>1, MutationFields DEF KnownVersions
  <2>. QED BY <1>0, <2>1, <2>2, <2>3 DEF KnownVersions
<1>3. ASSUME NEW f \in Flights PROVE FlightIsFresh(f)'
  BY <1>0 DEF CacheInv, FlightIsFresh
<1>4. ASSUME NEW c \in Mutations PROVE OutlivesDelete(c)'
  BY <1>0 DEF CacheInv, OutlivesDelete
<1>. QED BY <1>0, <1>1, <1>2, <1>3, <1>4 DEF CacheInv, EntryIsFresh

LEMMA EvictKept == ASSUME CacheInv, Evict PROVE CacheInv'
<1>0. /\ entry' = NoEntry /\ generation' \in {generation, generation + 1} /\ generation \in Nat \ {0}
      /\ UNCHANGED <<source, flights, mutations, floors, invalidated>>
  BY DEF Evict, CacheInv, CacheTypes
<1>1. CacheTypes'
  <2>1. NoEntry \in Entry BY DEF NoEntry, Entry
  <2>. QED BY <1>0, <2>1 DEF CacheInv, CacheTypes
<1>2. KnownVersions'
  <2>1. ASSUME NEW f \in Flights PROVE flights'[f].floor <= source' /\ flights'[f].gen <= generation'
    BY <1>0, FlightFields DEF CacheInv, KnownVersions
  <2>. QED BY <1>0, <2>1 DEF CacheInv, KnownVersions
<1>3. ASSUME NEW f \in Flights PROVE FlightIsFresh(f)'
  <2>1. FlightIsFresh(f) /\ flights[f].gen <= generation BY DEF CacheInv, KnownVersions
  <2>2. flights[f].gen = generation' => flights[f].gen = generation BY <1>0, <2>1, FlightFields
  <2>. QED BY <1>0, <2>1, <2>2 DEF FlightIsFresh
<1>4. ASSUME NEW c \in Mutations PROVE OutlivesDelete(c)'
  BY <1>0 DEF CacheInv, OutlivesDelete, NoEntry
<1>. QED BY <1>0, <1>1, <1>2, <1>3, <1>4 DEF CacheInv, EntryIsFresh, NoEntry

LEMMA GetOrSetKept ==
  ASSUME CacheInv, NEW h \in Families, NEW f \in FlightsOf[h], GetOrSet(h, f) PROVE CacheInv'
<1>0. /\ UNCHANGED <<source, generation, entry, mutations, floors, invalidated>>
      /\ f \in Flights /\ h \in Loaders
  BY DEF GetOrSet, Loaders
<1>1. Waiting(f) BY <1>0, SameWaits
<1>2. PICK n \in Nat \ {0} : n = floors[h] BY <1>0 DEF CacheInv, CacheTypes
<1>3. n <= source BY <1>0, <1>2 DEF CacheInv, KnownVersions
<1>4. PICK w \in Flight : w = flights[f] BY <1>0, FlightFields
<1>5. FlightIsFresh(f) BY <1>0 DEF CacheInv
<1>6. CASE f \in Attached(h) /\ flights' = [flights EXCEPT ![f].floor = Larger(flights[f].floor, floors[h])]
  <2>1. PICK m : m = Larger(w.floor, n) OBVIOUS
  <2>2. m \in Nat \ {0} /\ m \in {w.floor, n} BY <2>1 DEF Larger, Flight
  <2>3. PICK r : r = [w EXCEPT !.floor = m] OBVIOUS
  <2>4. /\ r \in Flight /\ r.pc = w.pc /\ r.gen = w.gen /\ r.h = w.h /\ r.val = w.val
        /\ r.writable = w.writable /\ r.attached = w.attached /\ r.aborted = w.aborted /\ r.floor = m
    BY <2>2, <2>3 DEF Flight
  <2>5. Puts(f, r) BY <1>6, <1>2, <1>4, <2>1, <2>3 DEF Puts
  <2>6. flights' \in [Flights -> Flight] /\ Others(f) /\ flights'[f] = r BY <1>0, <2>4, <2>5, Putting
  <2>7. w.attached /\ w.h = h BY <1>4, <1>6 DEF Attached
  <2>8. HasValue(w) => w.val >= n BY <1>2, <1>4, <1>5, <2>7 DEF FlightIsFresh, Joinable
  <2>9. HasValue(w) => w.val >= m
    BY <1>4, <1>5, <2>2, <2>7, <2>8 DEF FlightIsFresh
  <2>10. FlightIsFresh(f)'
    BY <1>0, <1>4, <1>5, <2>4, <2>6, <2>9 DEF FlightIsFresh, Joinable, HasValue
  <2>11. flights'[f].floor <= source /\ flights'[f].gen <= generation
    BY <1>0, <1>3, <1>4, <2>2, <2>4, <2>6 DEF CacheInv, KnownVersions
  <2>. QED BY <1>0, <1>1, <2>6, <2>10, <2>11, FlightMoves, EntryStays DEF CacheInv, CacheTypes
<1>7. CASE \E keep \in BOOLEAN :
             flights' = [flights EXCEPT ![f] = [NoFlight EXCEPT !.pc = "generation", !.h = h, !.keep = keep,
                           !.writable = TRUE, !.attached = TRUE, !.floor = floors[h]]]
  <2>1. PICK keep \in BOOLEAN :
             flights' = [flights EXCEPT ![f] = [NoFlight EXCEPT !.pc = "generation", !.h = h, !.keep = keep,
                           !.writable = TRUE, !.attached = TRUE, !.floor = floors[h]]]
    BY <1>7
  <2>3. PICK r : r = [NoFlight EXCEPT !.pc = "generation", !.h = h, !.keep = keep,
                           !.writable = TRUE, !.attached = TRUE, !.floor = n] OBVIOUS
  <2>a. "generation" \in FlightPcs BY DEF FlightPcs
  <2>4. /\ r \in Flight /\ r.pc = "generation" /\ r.gen = 0 /\ r.h = h
        /\ r.writable = TRUE /\ r.attached = TRUE /\ r.aborted = FALSE /\ r.floor = n
    BY <1>0, <2>3, <2>a DEF Flight, NoFlight
  <2>5. Puts(f, r) BY <2>1, <1>2, <2>3 DEF Puts
  <2>6. flights' \in [Flights -> Flight] /\ Others(f) /\ flights'[f] = r BY <1>0, <2>4, <2>5, Putting
  <2>10. FlightIsFresh(f)'
    BY <1>0, <2>4, <2>6 DEF FlightIsFresh, Joinable, HasValue
  <2>11. flights'[f].floor <= source /\ flights'[f].gen <= generation
    BY <1>3, <2>4, <2>6 DEF CacheInv, CacheTypes
  <2>. QED BY <1>0, <1>1, <2>6, <2>10, <2>11, FlightMoves, EntryStays DEF CacheInv, CacheTypes
<1>. QED BY <1>6, <1>7 DEF GetOrSet

(* Abort leaves nothing that can be joined, nor a new command.             *)
LEMMA AbortFields ==
  ASSUME NEW w \in Flight
  PROVE  /\ Abort(w) \in Flight /\ Abort(w).h \in {w.h, 0} /\ Abort(w).gen \in {w.gen, 0}
         /\ Abort(w).floor \in {w.floor, 1}
         /\ w.pc = "idle" => Abort(w) = w
         /\ w.pc # "idle" => ~Abort(w).attached /\ ~Abort(w).writable /\ Abort(w).aborted /\ Abort(w).floor = 1 /\ Abort(w).h = w.h
         /\ w.pc # "idle" => Abort(w).pc # "idle" /\ Abort(w).pc # "settle"
         /\ Abort(w).pc = "write" => w.pc = "write" /\ Abort(w).val = w.val /\ Abort(w).gen = w.gen
<1>1. CASE w.pc = "idle" BY <1>1 DEF Abort
<1>2. CASE w.pc \in {"write", "unset"}
  <2>1. PICK r : r = [w EXCEPT !.writable = FALSE, !.attached = FALSE, !.aborted = TRUE, !.floor = 1] OBVIOUS
  <2>a. 1 \in Nat \ {0} OBVIOUS
  <2>b. /\ r.pc = w.pc /\ r.gen = w.gen /\ r.h = w.h /\ r.val = w.val /\ r.floor = 1
        /\ ~r.writable /\ ~r.attached /\ r.aborted
    BY <2>1 DEF Flight
  <2>c. r \in Flight BY <2>a, <2>1 DEF Flight
  <2>2. /\ r \in Flight /\ r.pc = w.pc /\ r.gen = w.gen /\ r.h = w.h /\ r.val = w.val
        /\ ~r.writable /\ ~r.attached /\ r.aborted /\ r.floor = 1
    BY <2>b, <2>c
  <2>3. Abort(w) = r BY <1>2, <2>1 DEF Abort
  <2>. QED BY <1>2, <2>2, <2>3
<1>3. CASE w.pc \notin {"idle", "write", "unset"}
  <2>1. PICK r : r = [NoFlight EXCEPT !.pc = "loaded", !.h = w.h, !.aborted = TRUE] OBVIOUS
  <2>a. 1 \in Nat \ {0} /\ "loaded" \in FlightPcs BY DEF FlightPcs
  <2>b. /\ r.pc = "loaded" /\ r.gen = 0 /\ r.h = w.h /\ r.floor = 1
        /\ ~r.writable /\ ~r.attached /\ r.aborted
    BY <2>1 DEF NoFlight
  <2>c. w.h \in Loaders \cup {0} BY DEF Flight
  <2>d. r \in Flight BY <2>a, <2>c, <2>1 DEF Flight, NoFlight
  <2>2. /\ r \in Flight /\ r.pc = "loaded" /\ r.gen = 0 /\ r.h = w.h
        /\ ~r.writable /\ ~r.attached /\ r.aborted /\ r.floor = 1
    BY <2>b, <2>d
  <2>3. Abort(w) = r BY <1>3, <2>1 DEF Abort
  <2>. QED BY <1>3, <2>2, <2>3
<1>. QED BY <1>1, <1>2, <1>3

LEMMA AbortIsFresh ==
  ASSUME CacheInv, NEW f \in Flights, flights'[f] = Abort(flights[f]),
         UNCHANGED <<generation, mutations, floors, invalidated>>
  PROVE  FlightIsFresh(f)' /\ flights'[f].floor <= source /\ flights'[f].gen <= generation
<1>1. FlightIsFresh(f) BY DEF CacheInv
<1>2. PICK w \in Flight : w = flights[f] BY FlightFields
<1>3. PICK r : r = Abort(w) OBVIOUS
<1>4. flights'[f] = r BY <1>2, <1>3
<1>5. flights[f].floor <= source /\ flights[f].gen <= generation /\ source \in Nat \ {0} /\ generation \in Nat
  BY DEF CacheInv, KnownVersions, CacheTypes
<1>6. r.floor <= source /\ r.gen <= generation
  BY <1>2, <1>3, <1>5, AbortFields
<1>7. w.floor \in Nat \ {0} /\ w.val \in Nat BY DEF Flight
<1>8. CASE w.pc = "idle"
  BY <1>1, <1>2, <1>3, <1>4, <1>6, <1>8, AbortFields DEF FlightIsFresh, Joinable, HasValue
<1>9. CASE w.pc # "idle"
  <2>1. /\ ~r.attached /\ ~r.writable /\ r.aborted /\ r.floor = 1 /\ r.h = w.h /\ r.pc # "idle" /\ r.pc # "settle"
        /\ r.pc = "write" => w.pc = "write" /\ r.val = w.val /\ r.gen = w.gen
        /\ r \in Flight
    BY <1>3, <1>9, AbortFields
  <2>2. r.writable = r.attached BY <2>1 DEF Flight
  <2>3. r.pc = "write" => r.val >= r.floor BY <1>1, <1>2, <1>7, <2>1 DEF FlightIsFresh
  <2>4. FlightIsFresh(f)'
    BY <1>1, <1>2, <1>4, <1>9, <2>1, <2>2, <2>3 DEF FlightIsFresh, Joinable, HasValue
  <2>. QED BY <1>4, <1>6, <2>4
<1>. QED BY <1>8, <1>9

LEMMA LeaveKept ==
  ASSUME CacheInv, NEW f \in Flights, Leave(f) PROVE CacheInv'
<1>0. UNCHANGED <<source, generation, entry, mutations, floors, invalidated>>
  BY DEF Leave
<1>1. Waiting(f) BY <1>0, SameWaits
<1>2. PICK r : r = Abort(flights[f]) OBVIOUS
<1>3. r \in Flight BY <1>2, FlightFields, AbortFields
<1>4. Puts(f, r) BY <1>2 DEF Leave, Puts
<1>5. flights' \in [Flights -> Flight] /\ Others(f) /\ flights'[f] = r BY <1>3, <1>4, Putting
<1>6. FlightIsFresh(f)' /\ flights'[f].floor <= source /\ flights'[f].gen <= generation
  BY <1>0, <1>2, <1>5, AbortIsFresh
<1>. QED BY <1>0, <1>1, <1>5, <1>6, FlightMoves, EntryStays DEF CacheInv, CacheTypes

LEMMA CloseKept ==
  ASSUME CacheInv, NEW h, Close(h) PROVE CacheInv'
<1>0. UNCHANGED <<source, generation, entry, mutations, floors, invalidated>>
  BY DEF Close
<1>1. ASSUME NEW f \in Flights
      PROVE  /\ flights'[f] \in Flight /\ FlightIsFresh(f)'
             /\ flights'[f].floor <= source /\ flights'[f].gen <= generation
  <2>1. CASE flights[f].h = h
    <3>1. flights'[f] = Abort(flights[f]) BY <2>1 DEF Close
    <3>. QED BY <1>0, <3>1, AbortIsFresh, AbortFields, FlightFields
  <2>2. CASE flights[f].h # h
    <3>1. flights'[f] = flights[f] BY <2>2 DEF Close
    <3>. QED BY <1>0, <3>1 DEF CacheInv, CacheTypes, KnownVersions, FlightIsFresh
  <2>. QED BY <2>1, <2>2
<1>2. flights' \in [Flights -> Flight] BY <1>1 DEF Close
<1>3. KnownVersions' BY <1>0, <1>1 DEF CacheInv, KnownVersions
<1>4. ASSUME NEW c \in Mutations PROVE OutlivesDelete(c)'
  BY <1>0 DEF CacheInv, OutlivesDelete
<1>. QED BY <1>0, <1>1, <1>2, <1>3, <1>4 DEF CacheInv, CacheTypes, EntryIsFresh

(* A mutation that begins detaches its family's flights, and waits for the *)
(* commands of those that have dispatched one.                             *)
LEMMA MutateKept ==
  ASSUME CacheInv, NEW c \in Mutations, NEW h \in Families, NEW op \in {"set", "delete", "invalidate"}, Mutate(c, h, op)
  PROVE  CacheInv'
<1>0. /\ UNCHANGED <<source, generation, entry, floors, invalidated>> /\ flights' = Fence(h)
      /\ source \in Nat \ {0}
  BY DEF Mutate, CacheInv, CacheTypes
<1>1. PICK m : m = [NoMutation EXCEPT !.pc = "drain", !.h = h, !.op = op, !.at = source, !.waits = Dispatched(h)] OBVIOUS
<1>2. /\ m \in Mutation /\ m.pc = "drain" /\ m.h = h /\ m.at = source /\ m.waits = Dispatched(h)
  <2>1. Dispatched(h) \in SUBSET Flights BY DEF Dispatched
  <2>. QED BY <1>0, <1>1, <2>1 DEF Mutation, NoMutation
<1>3. mutations' = [mutations EXCEPT ![c] = m] BY <1>1 DEF Mutate
<1>4. /\ mutations' \in [Mutations -> Mutation] /\ mutations'[c] = m
      /\ \A d \in Mutations : d # c => mutations'[d] = mutations[d]
  BY <1>2, <1>3 DEF CacheInv, CacheTypes
<1>5. ASSUME NEW f \in Flights
      PROVE  /\ flights'[f] \in Flight /\ FlightIsFresh(f)'
             /\ flights'[f].floor <= source /\ flights'[f].gen <= generation
  <2>0. FlightIsFresh(f) /\ flights[f].floor <= source /\ flights[f].gen <= generation
    BY DEF CacheInv, KnownVersions
  <2>1. CASE flights[f].h # h
    <3>1. flights'[f] = flights[f] BY <1>0, <2>1 DEF Fence
    <3>2. FlightIsFresh(f)'
      <4>1. \A d \in Mutations : InProgress(mutations'[d]) /\ mutations'[d].h = flights[f].h => mutations'[d] = mutations[d]
        BY <1>2, <1>4, <2>1
      <4>. QED BY <1>0, <2>0, <3>1, <4>1 DEF FlightIsFresh
    <3>. QED BY <1>0, <2>0, <3>1, <3>2, FlightFields
  <2>2. CASE flights[f].h = h
    <3>1. PICK w \in Flight : w = flights[f] BY FlightFields
    <3>2. PICK r : r = [w EXCEPT !.writable = FALSE, !.attached = FALSE] OBVIOUS
    <3>3. flights'[f] = r BY <1>0, <2>2, <3>1, <3>2 DEF Fence
    <3>4. /\ r.pc = w.pc /\ r.gen = w.gen /\ r.h = w.h /\ r.val = w.val /\ r.floor = w.floor /\ r.aborted = w.aborted
          /\ ~r.writable /\ ~r.attached
      BY <3>2 DEF Flight
    <3>5. r \in Flight BY <3>2 DEF Flight
    <3>6. r.writable = r.attached BY <3>4, <3>5 DEF Flight
    <3>7. r.pc = "write" => f \in m.waits BY <1>2, <2>2, <3>1, <3>4 DEF Dispatched
    <3>8. ~Joinable(r) BY <3>4 DEF Joinable
    <3>9. r.pc = "write" => \A d \in Mutations : InProgress(mutations'[d]) /\ mutations'[d].h = r.h =>
                                                   f \in mutations'[d].waits \/ r.val >= mutations'[d].at
      BY <1>4, <2>0, <3>1, <3>4, <3>7 DEF FlightIsFresh
    <3>10. FlightIsFresh(f)'
      BY <1>0, <2>0, <3>1, <3>3, <3>4, <3>6, <3>8, <3>9 DEF FlightIsFresh, HasValue
    <3>. QED BY <2>0, <3>1, <3>3, <3>4, <3>5, <3>10
  <2>. QED BY <2>1, <2>2
<1>6. flights' \in [Flights -> Flight] BY <1>0, <1>5 DEF Fence
<1>7. KnownVersions' BY <1>0, <1>2, <1>4, <1>5 DEF CacheInv, KnownVersions
<1>8. ASSUME NEW d \in Mutations PROVE OutlivesDelete(d)'
  BY <1>0, <1>2, <1>4 DEF CacheInv, OutlivesDelete
<1>. QED BY <1>0, <1>4, <1>5, <1>6, <1>7, <1>8 DEF CacheInv, CacheTypes, EntryIsFresh

LEMMA DrainKept == ASSUME CacheInv, NEW c \in Mutations, Drain(c) PROVE CacheInv'
<1>0. /\ UNCHANGED <<source, generation, entry, flights, floors, invalidated>>
      /\ mutations[c].pc = "drain" /\ mutations[c].waits = {}
  BY DEF Drain
<1>1. PICK n \in Nat : n = IF mutations[c].op = "invalidate" THEN 0 ELSE generation BY DEF CacheInv, CacheTypes
<1>2. PICK m \in Mutation : m = mutations[c] BY MutationFields
<1>3. PICK r : r = [m EXCEPT !.pc = "apply", !.gen = n] OBVIOUS
<1>4. /\ r \in Mutation /\ r.pc = "apply" /\ r.gen = n /\ r.h = m.h /\ r.op = m.op /\ r.at = m.at /\ r.waits = m.waits
  BY <1>3 DEF Mutation
<1>5. mutations' = [mutations EXCEPT ![c] = r] BY <1>1, <1>2, <1>3 DEF Drain, CacheInv, CacheTypes
<1>6. /\ mutations' \in [Mutations -> Mutation] /\ mutations'[c] = r
      /\ \A d \in Mutations : d # c => mutations'[d] = mutations[d]
  BY <1>4, <1>5 DEF CacheInv, CacheTypes
<1>7. \A d \in Mutations : /\ InProgress(mutations'[d]) = InProgress(mutations[d]) /\ mutations'[d].h = mutations[d].h
                           /\ mutations'[d].at = mutations[d].at /\ mutations'[d].waits = mutations[d].waits
  BY <1>0, <1>2, <1>4, <1>6 DEF InProgress
<1>8. ASSUME NEW f \in Flights PROVE FlightIsFresh(f)'
  <2>1. FlightIsFresh(f) BY DEF CacheInv
  <2>. QED BY <1>0, <1>7, <2>1 DEF FlightIsFresh
<1>9. ASSUME NEW d \in Mutations PROVE OutlivesDelete(d)'
  <2>1. CASE d = c
    <3>1. r.op = "delete" => r.gen = generation BY <1>1, <1>2, <1>4
    <3>. QED BY <1>0, <1>2, <1>4, <1>6, <2>1, <3>1 DEF OutlivesDelete
  <2>2. CASE d # c BY <1>0, <1>6, <2>2 DEF CacheInv, OutlivesDelete
  <2>. QED BY <2>1, <2>2
<1>10. KnownVersions' BY <1>0, <1>7 DEF CacheInv, KnownVersions
<1>. QED BY <1>0, <1>6, <1>8, <1>9, <1>10 DEF CacheInv, CacheTypes, EntryIsFresh

(* What Apply does to the entry and the token, and what it has seen after. *)
Effects(m) ==
  \/ /\ m.op = "set" /\ m.gen = generation
     /\ entry' = [NoEntry EXCEPT !.gen = generation, !.from = "set"] /\ generation' = generation
  \/ m.op = "set" /\ m.gen # generation /\ entry' = entry /\ generation' = generation
  \/ m.op = "delete" /\ m.gen = generation /\ entry' = NoEntry /\ generation' = generation
  \/ m.op = "delete" /\ m.gen # generation /\ entry' = entry /\ generation' = generation
  \/ m.op \notin {"set", "delete"} /\ entry' = NoEntry /\ generation' \in {generation, generation + 1}
Completes(m) ==
  /\ floors' = [h \in DOMAIN floors |-> IF h # m.h \/ (m.op = "set" /\ m.gen # generation) THEN floors[h]
                                         ELSE Larger(floors[h], m.at)]
  /\ invalidated' = IF m.op = "invalidate" THEN Larger(invalidated, m.at) ELSE invalidated
  /\ m.op = "invalidate" => generation' = generation + 1

LEMMA ApplyCases ==
  ASSUME NEW c \in Mutations, Apply(c)
  PROVE  \/ (Effects(mutations[c]) /\ Completes(mutations[c]))
         \/ (Effects(mutations[c]) /\ UNCHANGED <<floors, invalidated>>)
         \/ UNCHANGED <<entry, generation, floors, invalidated>>
BY DEF Apply, Effects, Completes

LEMMA ApplyKept == ASSUME CacheInv, NEW c \in Mutations, Apply(c) PROVE CacheInv'
<1>0. /\ UNCHANGED <<source, flights>> /\ mutations[c].pc = "apply" /\ mutations' = [mutations EXCEPT ![c] = NoMutation]
  BY DEF Apply
<1>1. PICK m \in Mutation : m = mutations[c] BY MutationFields
<1>2. OutlivesDelete(c) /\ KnownVersions /\ CacheTypes BY DEF CacheInv
<1>3. /\ mutations' \in [Mutations -> Mutation] /\ mutations'[c] = NoMutation
      /\ \A d \in Mutations : d # c => mutations'[d] = mutations[d]
  <2>1. NoMutation \in Mutation BY DEF NoMutation, Mutation
  <2>. QED BY <1>0, <1>2, <2>1 DEF CacheTypes
<1>4. Effects(m) \/ UNCHANGED <<entry, generation>> BY <1>1, ApplyCases
<1>5. (Effects(m) /\ Completes(m)) \/ UNCHANGED <<floors, invalidated>> BY <1>1, ApplyCases
<1>6. /\ entry' \in Entry /\ generation' \in {generation, generation + 1} /\ generation' \in Nat \ {0}
      /\ entry' = entry \/ entry'.from # "load"
      /\ generation' # generation => entry'.from # "load"
  <2>1. NoEntry \in Entry /\ NoEntry.from = "none" BY DEF NoEntry, Entry
  <2>2. PICK s : s = [NoEntry EXCEPT !.gen = generation, !.from = "set"] OBVIOUS
  <2>3. s \in Entry /\ s.from = "set" BY <1>2, <2>2 DEF NoEntry, Entry, CacheTypes
  <2>4. generation \in Nat \ {0} /\ entry \in Entry BY <1>2 DEF CacheTypes
  <2>5. CASE UNCHANGED <<entry, generation>> BY <2>4, <2>5
  <2>6. CASE Effects(m)
    <3>1. /\ generation' \in {generation, generation + 1} /\ entry' \in {s, NoEntry, entry}
          /\ generation' # generation => entry' = NoEntry
      BY <2>2, <2>6 DEF Effects
    <3>. QED BY <2>1, <2>3, <2>4, <3>1
  <2>. QED BY <1>4, <2>5, <2>6
<1>7. /\ floors' \in [Loaders -> Nat \ {0}] /\ invalidated' \in Nat
      /\ invalidated' \in {invalidated, m.at}
      /\ \A h \in Loaders : floors'[h] = floors[h] \/ (h = m.h /\ floors'[h] = m.at)
  <2>0. m.at \in Nat BY DEF Mutation
  <2>1. CASE UNCHANGED <<floors, invalidated>>
    <3>1. floors' = floors /\ invalidated' = invalidated BY <2>1
    <3>2. floors \in [Loaders -> Nat \ {0}] /\ invalidated \in Nat BY <1>2 DEF CacheTypes
    <3>. QED BY <3>1, <3>2
  <2>2. CASE Completes(m)
    <3>1. ASSUME NEW h \in Loaders
          PROVE  floors'[h] \in Nat \ {0} /\ (floors'[h] = floors[h] \/ (h = m.h /\ floors'[h] = m.at))
      <4>1. floors[h] \in Nat \ {0} /\ h \in DOMAIN floors BY <1>2 DEF CacheTypes
      <4>2. floors'[h] = floors[h] \/ (h = m.h /\ floors'[h] = Larger(floors[h], m.at))
        BY <2>2, <4>1 DEF Completes
      <4>. QED BY <2>0, <4>1, <4>2 DEF Larger
    <3>2. DOMAIN floors = Loaders BY <1>2 DEF CacheTypes
    <3>3. floors' \in [Loaders -> Nat \ {0}] BY <2>2, <3>1, <3>2 DEF Completes
    <3>4. invalidated' \in {invalidated, m.at} BY <2>2 DEF Completes, Larger
    <3>. QED BY <1>2, <2>0, <3>1, <3>3, <3>4 DEF CacheTypes
  <2>. QED BY <1>5, <2>1, <2>2
<1>8. invalidated' # invalidated => generation' = generation + 1 /\ entry'.from # "load"
  BY <1>2, <1>5, <1>6 DEF Completes, CacheTypes
<1>9. KnownVersions'
  <2>1. m.at <= source BY <1>1, <1>2 DEF KnownVersions
  <2>2. \A f \in Flights : flights[f].gen <= generation' BY <1>2, <1>6, FlightFields DEF KnownVersions, CacheTypes
  <2>3. \A d \in Mutations : mutations'[d].at <= source BY <1>2, <1>3 DEF KnownVersions, NoMutation, CacheTypes
  <2>. QED BY <1>0, <1>2, <1>7, <2>1, <2>2, <2>3 DEF KnownVersions
<1>10. ASSUME NEW f \in Flights PROVE FlightIsFresh(f)'
  <2>1. FlightIsFresh(f) /\ flights[f].gen <= generation BY <1>2 DEF CacheInv, KnownVersions
  <2>2. PICK w \in Flight : w = flights[f] BY FlightFields
  <2>3. \A d \in Mutations : InProgress(mutations'[d]) => mutations'[d] = mutations[d] /\ InProgress(mutations[d])
    BY <1>3 DEF NoMutation, InProgress
  <2>4. Joinable(w) \/ w.pc = "write" => (w.h = m.h => w.val >= m.at)
    BY <1>0, <1>1, <1>2, <2>1, <2>2 DEF FlightIsFresh, InProgress, OutlivesDelete
  <2>5. w.pc # "idle" => w.h \in Loaders BY <2>1, <2>2 DEF FlightIsFresh
  <2>6. Joinable(w) \/ w.pc = "write" => w.val >= floors'[w.h]
    <3>1. Joinable(w) => w.pc # "idle" BY DEF Joinable, HasValue
    <3>. QED BY <1>7, <2>1, <2>2, <2>4, <2>5, <3>1 DEF FlightIsFresh
  <2>7. w.gen = generation' => invalidated' = invalidated /\ generation' = generation
    BY <1>2, <1>6, <1>8, <2>1, <2>2 DEF Flight, CacheTypes
  <2>. QED BY <1>0, <2>1, <2>2, <2>3, <2>6, <2>7 DEF FlightIsFresh
<1>11. ASSUME NEW d \in Mutations PROVE OutlivesDelete(d)'
  <2>1. CASE d = c BY <1>3, <2>1 DEF OutlivesDelete, NoMutation
  <2>2. CASE d # c
    <3>1. OutlivesDelete(d) /\ mutations'[d] = mutations[d] BY <1>3, <2>2 DEF CacheInv
    <3>. QED BY <1>6, <3>1 DEF OutlivesDelete
  <2>. QED BY <2>1, <2>2
<1>12. EntryIsFresh'
  <2>. SUFFICES ASSUME entry'.from = "load", entry'.gen = generation'
                PROVE  entry'.val >= floors'[entry'.by] /\ entry'.val >= invalidated'
    BY DEF EntryIsFresh
  <2>1. entry' = entry /\ generation' = generation /\ invalidated' = invalidated BY <1>6, <1>8
  <2>2. entry.by \in Loaders /\ entry.val >= floors[entry.by] /\ entry.val >= invalidated
    BY <2>1 DEF CacheInv, EntryIsFresh
  <2>3. CASE UNCHANGED <<floors, invalidated>> BY <2>1, <2>2, <2>3
  <2>4. CASE Effects(m) /\ Completes(m)
    <3>1. CASE floors'[entry.by] = floors[entry.by] BY <2>1, <2>2, <3>1
    <3>2. CASE floors'[entry.by] # floors[entry.by]
      <4>1. entry.by = m.h /\ floors'[entry.by] = m.at BY <1>7, <2>2, <3>2
      <4>2. ~(m.op = "set" /\ m.gen # generation)
        <5>1. entry.by \in DOMAIN floors BY <1>2, <2>2 DEF CacheTypes
        <5>. QED BY <2>4, <3>2, <5>1 DEF Completes
      <4>3. m.op = "delete" /\ m.gen # generation
        <5>1. NoEntry.from = "none" /\ [NoEntry EXCEPT !.gen = generation, !.from = "set"].from = "set"
          BY DEF NoEntry
        <5>2. entry'.from = "load" OBVIOUS
        <5>. QED BY <2>4, <4>2, <5>1, <5>2 DEF Effects
      <4>4. entry.val >= m.at BY <1>0, <1>1, <1>2, <2>1, <4>1, <4>3 DEF OutlivesDelete
      <4>. QED BY <2>1, <2>2, <4>1, <4>4
    <3>. QED BY <3>1, <3>2
  <2>. QED BY <1>5, <2>3, <2>4
<1>13. (entry.from = "load" => entry.by \in Loaders)' BY <1>6 DEF CacheInv
<1>. QED BY <1>0, <1>2, <1>3, <1>6, <1>7, <1>9, <1>10, <1>11, <1>12, <1>13 DEF CacheInv, CacheTypes

LEMMA CacheStep == CacheInv /\ [CacheNext]_cacheVars => CacheInv'
<1>. SUFFICES ASSUME CacheInv, [CacheNext]_cacheVars PROVE CacheInv' OBVIOUS
<1>1. CASE UNCHANGED cacheVars
  BY <1>1 DEF cacheVars, CacheInv, CacheTypes, KnownVersions, FlightIsFresh, OutlivesDelete, EntryIsFresh
<1>2. CASE Update \/ Evict BY <1>2, UpdateKept, EvictKept
<1>3. ASSUME NEW h \in Families, NEW f \in FlightsOf[h], GetOrSet(h, f) PROVE CacheInv'
  BY <1>3, GetOrSetKept
<1>4. ASSUME NEW h \in Families, Close(h) PROVE CacheInv' BY <1>4, CloseKept
<1>5. ASSUME NEW f \in Flights, FlightStep(f) PROVE CacheInv'
  BY <1>5, GenerationKept, ReadKept, UnsetKept, LoadKept, LoadedKept, WriteKept, SettleKept DEF FlightStep
<1>6. ASSUME NEW f \in Flights, Leave(f) PROVE CacheInv' BY <1>6, LeaveKept
<1>7. ASSUME NEW c \in Mutations, Drain(c) \/ Apply(c) PROVE CacheInv' BY <1>7, DrainKept, ApplyKept
<1>8. ASSUME NEW c \in Mutations, NEW h \in Families, NEW op \in {"set", "delete", "invalidate"}, Mutate(c, h, op)
      PROVE  CacheInv'
  BY <1>8, MutateKept
<1>. QED BY <1>1, <1>2, <1>3, <1>4, <1>5, <1>6, <1>7, <1>8 DEF CacheNext

(* Whatever the loads, commands and mutations of the families that share a *)
(* cache, neither an entry nor an answer is older than the mutations that  *)
(* were over (CacheService.getOrSet, fence and the adapter's generations). *)
THEOREM CacheStaysFresh == CacheSpec => []CacheIsFresh
<1>1. CacheInv => CacheIsFresh
  <2>1. ASSUME CacheInv PROVE AnswerIsFresh BY <2>1 DEF CacheInv, FlightIsFresh, AnswerIsFresh
  <2>. QED BY <2>1 DEF CacheInv, CacheIsFresh
<1>. QED BY <1>1, CacheStarts, CacheStep, PTL DEF CacheSpec

-----------------------------------------------------------------------------
(***************************************************************************)
(* Organizations                                                           *)
(***************************************************************************)

Roles == {"none", "member", "admin", "owner"}
Statuses == {"none", "pending", "accepted", "revoked", "pruned"}
Operations == {"none", "leave", "prune", "update", "add", "remove", "grant", "transfer", "role", "invite", "accept", "revoke"}
Invitation == [target : People \cup {0}, status : Statuses, expiresAt : Nat, resolvedAt : Nat]
OrgState == [version : Nat, members : [People -> Roles], invites : [Invitations -> Invitation]]
OrgCall == [pc : {"idle", "swap"}, op : Operations, who : People \cup {0}, target : People \cup {0},
            invite : Invitations \cup {0}, role : Roles, state : OrgState, at : Nat]

(* A call holds what it read: the row as it is, or an older version.       *)
ReadSome(call) == call.pc = "swap" => /\ call.state.version <= org.version
                                      /\ call.state.version = org.version => call.state = org

OrgInv == /\ org \in OrgState /\ orgClock \in Nat
          /\ orgCalls \in [OrgCalls -> OrgCall] /\ \A c \in OrgCalls : ReadSome(orgCalls[c])
          /\ Owners(org) # {}
          /\ \A i \in Invitations : i \in barred => org.invites[i].status \notin {"none", "pending"}

(* What a change may do to an invitation.                                  *)
InviteMoves(call, i, v, w) ==
  /\ w.status = "accepted" /\ v.status # "accepted" =>
       call.op = "accept" /\ call.invite = i /\ v.status = "pending" /\ w.expiresAt = v.expiresAt
  /\ v.status \notin {"none", "pending"} => w.status \notin {"none", "pending"}
  /\ v.status = "pending" /\ ((call.op = "leave" /\ v.target = call.who) \/ (call.op = "remove" /\ v.target = call.target))
       => w.status = "revoked"

(* A member goes, and so does what it was invited to.                      *)
LEMMA WithoutMemberMoves ==
  ASSUME NEW call \in OrgCall, NEW s \in OrgState, NEW m, NEW now \in Nat,
         (call.op = "leave" /\ m = call.who) \/ (call.op = "remove" /\ m = call.target)
  PROVE  /\ WithoutMember(s, m, now) \in OrgState
         /\ \A i \in Invitations : InviteMoves(call, i, s.invites[i], WithoutMember(s, m, now).invites[i])
  <1>1. \A i \in Invitations : s.invites[i] \in Invitation
    BY DEF OrgState
  <1>2. \A v \in Invitation : /\ [v EXCEPT !.status = "revoked", !.resolvedAt = now] \in Invitation
                              /\ [v EXCEPT !.status = "revoked", !.resolvedAt = now].status = "revoked"
    BY DEF Invitation, Statuses
  <1>3. PICK invites : invites = RevokePendingFor(s, m, now)
    OBVIOUS
  <1>4. invites \in [Invitations -> Invitation]
    BY <1>1, <1>2, <1>3 DEF RevokePendingFor
  <1>5. PICK members : members = [s.members EXCEPT ![m] = "none"]
    OBVIOUS
  <1>6. members \in [People -> Roles]
    BY <1>5 DEF OrgState, Roles
  <1>7. WithoutMember(s, m, now) = [s EXCEPT !.members = members, !.invites = invites]
    BY <1>3, <1>5 DEF WithoutMember, OrgState
  <1>8. WithoutMember(s, m, now) \in OrgState /\ WithoutMember(s, m, now).invites = invites
    BY <1>4, <1>6, <1>7 DEF OrgState
  <1>9. ASSUME NEW i \in Invitations PROVE InviteMoves(call, i, s.invites[i], invites[i])
    <2>1. invites[i] = IF s.invites[i].target = m /\ s.invites[i].status = "pending"
                       THEN [s.invites[i] EXCEPT !.status = "revoked", !.resolvedAt = now] ELSE s.invites[i]
      BY <1>3 DEF RevokePendingFor
    <2>2. CASE s.invites[i].target = m /\ s.invites[i].status = "pending"
      <3>1. invites[i].status = "revoked"
        BY <1>1, <1>2, <2>1, <2>2
      <3>. QED BY <2>2, <3>1 DEF InviteMoves
    <2>3. CASE ~(s.invites[i].target = m /\ s.invites[i].status = "pending")
      <3>1. invites[i] = s.invites[i]
        BY <2>1, <2>3
      <3>. QED BY <2>3, <3>1 DEF InviteMoves
    <2>. QED BY <2>2, <2>3
  <1>. QED BY <1>8, <1>9

LEMMA PrunedMoves ==
  ASSUME NEW call \in OrgCall, call.op = "prune", NEW v \in Invitation, NEW before \in Nat, NEW i
  PROVE  Pruned(v, before) \in Invitation /\ InviteMoves(call, i, v, Pruned(v, before))
  <1>1. CASE Pruned(v, before) = v
    BY <1>1 DEF InviteMoves
  <1>2. CASE v.status # "none" /\ Pruned(v, before) = [NoInvitation EXCEPT !.status = "pruned"]
    <2>1. PICK w : w = [NoInvitation EXCEPT !.status = "pruned"]
      OBVIOUS
    <2>2. w \in Invitation /\ w.status = "pruned"
      BY <2>1 DEF NoInvitation, Invitation, Statuses
    <2>. QED BY <1>2, <2>1, <2>2 DEF InviteMoves
  <1>. QED BY <1>1, <1>2 DEF Pruned

(* One member's role and one invitation are written.                       *)
LEMMA WriteMember ==
  ASSUME NEW s \in OrgState, NEW m, NEW role \in Roles
  PROVE  [s EXCEPT !.members[m] = role] \in OrgState /\ [s EXCEPT !.members[m] = role].invites = s.invites
  <1>1. PICK members : members = [s.members EXCEPT ![m] = role]
    OBVIOUS
  <1>2. members \in [People -> Roles]
    BY <1>1 DEF OrgState
  <1>. QED BY <1>1, <1>2 DEF OrgState

WithInvitation(s, i, v) == [s EXCEPT !.invites[i] = v]

LEMMA WriteInvitation ==
  ASSUME NEW s \in OrgState, NEW i, NEW v \in Invitation, NEW next, next = WithInvitation(s, i, v)
  PROVE  next \in OrgState /\ \A k \in Invitations : next.invites[k] = IF k = i THEN v ELSE s.invites[k]
  <1>1. PICK invites : invites = [s.invites EXCEPT ![i] = v]
    OBVIOUS
  <1>2. invites \in [Invitations -> Invitation] /\ \A k \in Invitations : invites[k] = IF k = i THEN v ELSE s.invites[k]
    BY <1>1 DEF OrgState
  <1>. QED BY <1>1, <1>2 DEF OrgState, WithInvitation

LEMMA SameInvitations ==
  ASSUME NEW call \in OrgCall, call.op \notin {"leave", "remove"}, NEW s, NEW next, next.invites = s.invites
  PROVE  \A i \in Invitations : InviteMoves(call, i, s.invites[i], next.invites[i])
  BY DEF InviteMoves

(* Every change yields a state, and moves invitations as it should.        *)
LEMMA ChangesMove ==
  ASSUME NEW call \in OrgCall, NEW s \in OrgState, NEW now \in Nat, NEW next \in Changes(call, s, now)
  PROVE  next \in OrgState /\ \A i \in Invitations : InviteMoves(call, i, s.invites[i], next.invites[i])
  <1>0. call.op \in Operations /\ call.who \in People \cup {0} /\ call.target \in People \cup {0} /\ call.role \in Roles
        /\ \A i \in Invitations : s.invites[i] \in Invitation
    BY DEF OrgCall, OrgState
  <1>r. "member" \in Roles /\ "owner" \in Roles
    BY DEF Roles
  <1>1. CASE call.op = "add"
    <2>1. next = [s EXCEPT !.members[call.target] = "member"]
      BY <1>1 DEF Changes
    <2>2. next \in OrgState /\ next.invites = s.invites
      BY <1>0, <1>r, <2>1, WriteMember
    <2>3. call.op \notin {"leave", "remove"}
      BY <1>1
    <2>. QED BY <2>2, <2>3, SameInvitations
  <1>2. CASE call.op \in {"leave", "remove"}
    <2>1. ASSUME call.op = "leave"
          PROVE  next \in OrgState /\ \A i \in Invitations : InviteMoves(call, i, s.invites[i], next.invites[i])
      <3>1. PICK m : m = call.who
        OBVIOUS
      <3>2. next = WithoutMember(s, m, now)
        BY <2>1, <3>1 DEF Changes
      <3>. QED BY <2>1, <3>1, <3>2, WithoutMemberMoves
    <2>2. ASSUME call.op = "remove"
          PROVE  next \in OrgState /\ \A i \in Invitations : InviteMoves(call, i, s.invites[i], next.invites[i])
      <3>1. PICK m : m = call.target
        OBVIOUS
      <3>2. next = WithoutMember(s, m, now)
        BY <2>2, <3>1 DEF Changes
      <3>. QED BY <2>2, <3>1, <3>2, WithoutMemberMoves
    <2>. QED BY <1>2, <2>1, <2>2
  <1>3. CASE call.op = "role"
    <2>1. next = [s EXCEPT !.members[call.target] = call.role]
      BY <1>3 DEF Changes
    <2>2. next \in OrgState /\ next.invites = s.invites
      BY <1>0, <1>r, <2>1, WriteMember
    <2>3. call.op \notin {"leave", "remove"}
      BY <1>3
    <2>. QED BY <2>2, <2>3, SameInvitations
  <1>4. CASE call.op = "grant"
    <2>1. next = [s EXCEPT !.members[call.target] = "owner"]
      BY <1>4 DEF Changes
    <2>2. next \in OrgState /\ next.invites = s.invites
      BY <1>0, <1>r, <2>1, WriteMember
    <2>3. call.op \notin {"leave", "remove"}
      BY <1>4
    <2>. QED BY <2>2, <2>3, SameInvitations
  <1>5. CASE call.op = "transfer"
    <2>1. next = [s EXCEPT !.members[call.who] = "member", !.members[call.target] = "owner"]
      BY <1>5 DEF Changes
    <2>2. PICK members : members = [[s.members EXCEPT ![call.who] = "member"] EXCEPT ![call.target] = "owner"]
      OBVIOUS
    <2>3. members \in [People -> Roles]
      BY <1>r, <2>2 DEF OrgState
    <2>4. next = [s EXCEPT !.members = members]
      BY <2>1, <2>2 DEF OrgState
    <2>5. next \in OrgState /\ next.invites = s.invites
      BY <2>3, <2>4 DEF OrgState
    <2>6. call.op \notin {"leave", "remove"}
      BY <1>5
    <2>. QED BY <2>5, <2>6, SameInvitations
  <1>6. CASE call.op = "invite"
    <2>1. PICK expires \in Nat : expires = now + InvitationLifetime
      BY OrgAssumption
    <2>2. PICK v : v = [target |-> call.target, status |-> "pending", resolvedAt |-> 0, expiresAt |-> expires]
      OBVIOUS
    <2>3. s.invites[call.invite] = NoInvitation /\ next = WithInvitation(s, call.invite, v)
      BY <1>6, <2>1, <2>2 DEF Changes, WithInvitation
    <2>4. v \in Invitation /\ v.status = "pending"
      BY <1>0, <2>2 DEF Invitation, Statuses
    <2>5. next \in OrgState /\ \A k \in Invitations : next.invites[k] = IF k = call.invite THEN v ELSE s.invites[k]
      BY <2>3, <2>4, WriteInvitation
    <2>. QED BY <1>6, <2>3, <2>4, <2>5 DEF InviteMoves, NoInvitation
  <1>7. CASE call.op = "accept"
    <2>. DEFINE i == call.invite
    <2>0. call.op \notin {"leave", "remove"}
      BY <1>7
    <2>1. /\ InvitationPending(s, i, now)
          /\ next = [s EXCEPT !.members[call.who] = "member", !.invites[i].status = "accepted", !.invites[i].resolvedAt = now]
      BY <1>7 DEF Changes
    <2>2. PICK v : v = [s.invites[i] EXCEPT !.status = "accepted", !.resolvedAt = now]
      OBVIOUS
    <2>3. PICK t : t = [s EXCEPT !.members[call.who] = "member"]
      OBVIOUS
    <2>4. t \in OrgState /\ t.invites = s.invites
      BY <1>r, <2>3, WriteMember
    <2>5. CASE i \in Invitations
      <3>0. PICK old \in Invitation : old = s.invites[i]
        BY <1>0, <2>5
      <3>1. v \in Invitation /\ v.status = "accepted" /\ v.expiresAt = s.invites[i].expiresAt
        BY <2>2, <3>0 DEF Invitation, Statuses
      <3>2. next = WithInvitation(t, i, v)
        BY <2>1, <2>2, <2>3, <2>4, <2>5 DEF OrgState, WithInvitation
      <3>3. next \in OrgState /\ \A k \in Invitations : next.invites[k] = IF k = i THEN v ELSE s.invites[k]
        BY <2>4, <3>1, <3>2, WriteInvitation
      <3>. QED BY <1>7, <2>1, <3>1, <3>3 DEF InviteMoves, InvitationPending
    <2>6. CASE i \notin Invitations
      <3>1. [[s.invites EXCEPT ![i].status = "accepted"] EXCEPT ![i].resolvedAt = now] = s.invites
        BY <2>6 DEF OrgState
      <3>2. next = t
        BY <2>1, <2>3, <2>4, <3>1 DEF OrgState
      <3>. QED BY <2>0, <2>4, <3>2, SameInvitations
    <2>. QED BY <2>5, <2>6
  <1>8. CASE call.op = "revoke"
    <2>. DEFINE i == call.invite
    <2>0. call.op \notin {"leave", "remove"}
      BY <1>8
    <2>1. /\ InvitationPending(s, i, now)
          /\ next = [s EXCEPT !.invites[i].status = "revoked", !.invites[i].resolvedAt = now]
      BY <1>8 DEF Changes
    <2>2. PICK v : v = [s.invites[i] EXCEPT !.status = "revoked", !.resolvedAt = now]
      OBVIOUS
    <2>5. CASE i \in Invitations
      <3>0. PICK old \in Invitation : old = s.invites[i]
        BY <1>0, <2>5
      <3>1. v \in Invitation /\ v.status = "revoked"
        BY <2>2, <3>0 DEF Invitation, Statuses
      <3>2. next = WithInvitation(s, i, v)
        BY <2>1, <2>2, <2>5 DEF OrgState, WithInvitation
      <3>3. next \in OrgState /\ \A k \in Invitations : next.invites[k] = IF k = i THEN v ELSE s.invites[k]
        BY <3>1, <3>2, WriteInvitation
      <3>. QED BY <1>8, <2>1, <3>1, <3>3 DEF InviteMoves, InvitationPending
    <2>6. CASE i \notin Invitations
      <3>1. [[s.invites EXCEPT ![i].status = "revoked"] EXCEPT ![i].resolvedAt = now] = s.invites
        BY <2>6 DEF OrgState
      <3>2. next = s
        BY <2>1, <3>1 DEF OrgState
      <3>. QED BY <2>0, <3>2, SameInvitations
    <2>. QED BY <2>5, <2>6
  <1>9. CASE call.op = "prune"
    <2>1. PICK before \in 0..now : next = [s EXCEPT !.invites = [j \in Invitations |-> Pruned(s.invites[j], before)]]
      BY <1>9 DEF Changes
    <2>2. PICK invites : invites = [j \in Invitations |-> Pruned(s.invites[j], before)]
      OBVIOUS
    <2>3. \A j \in Invitations : Pruned(s.invites[j], before) \in Invitation /\ InviteMoves(call, j, s.invites[j], Pruned(s.invites[j], before))
      BY <1>0, <1>9, PrunedMoves
    <2>4. next \in OrgState /\ next.invites = invites
      BY <2>1, <2>2, <2>3 DEF OrgState
    <2>. QED BY <2>2, <2>3, <2>4
  <1>10. CASE call.op \in {"none", "update"}
    <2>1. next = s
      BY <1>10 DEF Changes
    <2>. QED BY <1>10, <2>1, SameInvitations
  <1>. QED BY <1>0, <1>1, <1>2, <1>3, <1>4, <1>5, <1>6, <1>7, <1>8, <1>9, <1>10 DEF Operations

LEMMA OrgInitInv == OrgInit => OrgInv
  <1>. SUFFICES ASSUME OrgInit PROVE OrgInv
    OBVIOUS
  <1>1. NoInvitation \in Invitation
    BY DEF NoInvitation, Invitation, Statuses
  <1>2. Created \in OrgState /\ Created.members[Founder] = "owner"
    BY <1>1, OrgAssumption DEF Created, OrgState, Roles
  <1>3. NoOrgCall \in OrgCall /\ NoOrgCall.state = Created
    BY <1>2 DEF NoOrgCall, OrgCall, Operations, Roles
  <1>4. Owners(org) # {}
    BY <1>2, OrgAssumption DEF Owners, OrgInit
  <1>5. \A c \in OrgCalls : ReadSome(orgCalls[c])
    BY <1>2, <1>3 DEF OrgInit, ReadSome, OrgState
  <1>. QED BY <1>2, <1>3, <1>4, <1>5 DEF OrgInit, OrgInv

(* What a step of the organization never does.                             *)
OrgStepIsSound ==
  /\ Owners(org') # {}
  /\ \A i \in Invitations :
       BecomesAccepted(i) => /\ orgClock < org'.invites[i].expiresAt
                             /\ org.invites[i].status = "pending"
                             /\ i \notin barred

(* Steps that leave the row alone promise nothing new.                     *)
LEMMA OrgRowKept ==
  ASSUME OrgInv, UNCHANGED org
  PROVE  OrgStepIsSound
  BY DEF OrgInv, OrgStepIsSound, BecomesAccepted

(* A call has read the row, or is over.                                    *)
LEMMA OrgCallStep ==
  ASSUME OrgInv, NEW c \in OrgCalls, NEW call \in OrgCall, orgCalls' = [orgCalls EXCEPT ![c] = call],
         call.pc = "swap" => call.state = org, UNCHANGED <<org, orgClock, barred>>
  PROVE  OrgInv'
  <1>1. \A d \in OrgCalls : orgCalls'[d] = IF d = c THEN call ELSE orgCalls[d]
    BY DEF OrgInv
  <1>2. org.version \in Nat
    BY DEF OrgInv, OrgState
  <1>3. \A d \in OrgCalls : ReadSome(orgCalls[d])'
    BY <1>1, <1>2 DEF OrgInv, ReadSome
  <1>4. orgCalls' \in [OrgCalls -> OrgCall]
    BY DEF OrgInv
  <1>. QED BY <1>3, <1>4 DEF OrgInv, Owners

LEMMA NoOrgCallTyped == NoOrgCall \in OrgCall /\ NoOrgCall.pc = "idle"
  <1>1. NoInvitation \in Invitation
    BY DEF NoInvitation, Invitation, Statuses
  <1>2. Created \in OrgState
    BY <1>1 DEF Created, OrgState, Roles
  <1>. QED BY <1>2 DEF NoOrgCall, OrgCall, Operations, Roles

(* load() reads the row as it is.                                          *)
LEMMA LoadsRow ==
  ASSUME OrgInv, NEW c \in OrgCalls, NEW call \in OrgCall, Loads(c, call), UNCHANGED <<org, orgClock, barred>>
  PROVE  OrgInv'
  <1>1. PICK read : read = [call EXCEPT !.pc = "swap", !.state = org, !.at = orgClock]
    OBVIOUS
  <1>2. org \in OrgState /\ orgClock \in Nat
    BY DEF OrgInv
  <1>3. read \in OrgCall /\ read.state = org
    BY <1>1, <1>2 DEF OrgCall
  <1>4. orgCalls' = [orgCalls EXCEPT ![c] = read]
    BY <1>1 DEF Loads
  <1>. QED BY <1>3, <1>4, OrgCallStep

(* A change that is swapped in was computed from the row it replaces.      *)
LEMMA SwapSound ==
  ASSUME OrgInv, NEW c \in OrgCalls, orgCalls[c].pc = "swap", Swaps(orgCalls[c]),
         NEW next \in Changes(orgCalls[c], orgCalls[c].state, orgCalls[c].at), Fits(next, orgCalls[c].state),
         org' = [next EXCEPT !.version = orgCalls[c].state.version + 1],
         NEW gone, gone = {i \in Invitations : /\ orgCalls[c].state.invites[i].status = "pending"
                              /\ \/ orgCalls[c].op = "leave" /\ orgCalls[c].state.invites[i].target = orgCalls[c].who
                                 \/ orgCalls[c].op = "remove" /\ orgCalls[c].state.invites[i].target = orgCalls[c].target},
         barred' = barred \cup gone,
         orgCalls' = [orgCalls EXCEPT ![c] = NoOrgCall], UNCHANGED orgClock
  PROVE  OrgInv' /\ OrgStepIsSound
  <1>1. PICK call \in OrgCall : call = orgCalls[c]
    BY DEF OrgInv
  <1>2. call.state = org /\ org \in OrgState /\ org.version \in Nat /\ call.at \in Nat
    BY <1>1 DEF OrgInv, ReadSome, Swaps, OrgState, OrgCall
  <1>3. next \in OrgState /\ \A i \in Invitations : InviteMoves(call, i, org.invites[i], next.invites[i])
    BY <1>1, <1>2, ChangesMove
  <1>4. PICK version \in Nat : version = org.version + 1
    BY <1>2
  <1>5. org' = [next EXCEPT !.version = version]
    BY <1>1, <1>2, <1>4
  <1>6. org' \in OrgState /\ org'.version = version /\ org'.invites = next.invites /\ org'.members = next.members
    BY <1>3, <1>5 DEF OrgState
  <1>7. Owners(org') # {}
    BY <1>6 DEF Fits, Owners
  <1>8. \A i \in Invitations : i \in barred' => org'.invites[i].status \notin {"none", "pending"}
    <2>. SUFFICES ASSUME NEW i \in Invitations, i \in barred' PROVE next.invites[i].status \notin {"none", "pending"}
      BY <1>6
    <2>1. InviteMoves(call, i, org.invites[i], next.invites[i])
      BY <1>3
    <2>2. CASE i \in barred
      BY <2>1, <2>2 DEF OrgInv, InviteMoves
    <2>3. CASE i \in gone
      <3>0. gone = {k \in Invitations : /\ call.state.invites[k].status = "pending"
                                        /\ \/ call.op = "leave" /\ call.state.invites[k].target = call.who
                                           \/ call.op = "remove" /\ call.state.invites[k].target = call.target}
        BY <1>1
      <3>1. org.invites[i].status = "pending"
            /\ ((call.op = "leave" /\ org.invites[i].target = call.who) \/ (call.op = "remove" /\ org.invites[i].target = call.target))
        <4>1. PICK v : v = org.invites[i]
          OBVIOUS
        <4>2. v.status = "pending" /\ ((call.op = "leave" /\ v.target = call.who) \/ (call.op = "remove" /\ v.target = call.target))
          BY <1>2, <2>3, <3>0, <4>1
        <4>. QED BY <4>1, <4>2
      <3>. QED BY <2>1, <3>1 DEF InviteMoves
    <2>. QED BY <2>2, <2>3
  <1>9. \A d \in OrgCalls : orgCalls'[d] = IF d = c THEN NoOrgCall ELSE orgCalls[d]
    BY DEF OrgInv
  <1>10. \A d \in OrgCalls : ReadSome(orgCalls[d])'
    <2>. SUFFICES ASSUME NEW d \in OrgCalls PROVE ReadSome(orgCalls[d])'
      OBVIOUS
    <2>2. CASE d = c
      BY <1>9, <2>2, NoOrgCallTyped DEF ReadSome
    <2>3. CASE d # c /\ orgCalls[d].pc # "swap"
      BY <1>9, <2>3 DEF ReadSome
    <2>. SUFFICES ASSUME d # c, orgCalls[d].pc = "swap" PROVE ReadSome(orgCalls[d])'
      BY <2>2, <2>3
    <2>1. orgCalls[d].state.version \in Nat /\ orgCalls[d].state.version <= org.version
      BY DEF OrgInv, ReadSome, OrgCall, OrgState
    <2>4. orgCalls[d].state.version < org'.version
      BY <1>2, <1>4, <1>6, <2>1
    <2>. QED BY <1>9, <2>1, <2>4, <1>6, <1>4 DEF ReadSome
  <1>11. orgCalls' \in [OrgCalls -> OrgCall]
    BY NoOrgCallTyped DEF OrgInv
  <1>12. OrgInv'
    BY <1>6, <1>7, <1>8, <1>10, <1>11 DEF OrgInv
  <1>13. ASSUME NEW i \in Invitations, BecomesAccepted(i)
         PROVE  /\ orgClock < org'.invites[i].expiresAt
                /\ org.invites[i].status = "pending" /\ i \notin barred
    <2>1. InviteMoves(call, i, org.invites[i], next.invites[i])
      BY <1>3
    <2>2. /\ call.op = "accept" /\ call.invite = i /\ org.invites[i].status = "pending"
          /\ next.invites[i].expiresAt = org.invites[i].expiresAt
      BY <1>6, <1>13, <2>1 DEF BecomesAccepted, InviteMoves
    <2>3. orgClock < org.invites[i].expiresAt
      BY <1>1, <1>2, <2>2 DEF Swaps
    <2>. QED BY <1>6, <2>2, <2>3 DEF OrgInv
  <1>. QED BY <1>7, <1>12, <1>13 DEF OrgStepIsSound

LEMMA OrgStepInv == OrgInv /\ [OrgNext]_orgVars => OrgInv' /\ OrgStepIsSound
  <1>. SUFFICES ASSUME OrgInv, [OrgNext]_orgVars PROVE OrgInv' /\ OrgStepIsSound
    OBVIOUS
  <1>1. CASE OrgTick
    BY <1>1, OrgRowKept DEF OrgTick, OrgInv, Owners, ReadSome
  <1>2. CASE UNCHANGED orgVars
    BY <1>2, OrgRowKept DEF orgVars, OrgInv, Owners, ReadSome
  <1>3. ASSUME NEW c \in OrgCalls, NEW call \in OrgCall, BeginCall(c, call) PROVE OrgInv' /\ OrgStepIsSound
    BY <1>3, LoadsRow, OrgRowKept DEF BeginCall
  <1>4. ASSUME NEW c \in OrgCalls, MutateOrganization(c) PROVE OrgInv' /\ OrgStepIsSound
    <2>. DEFINE call == orgCalls[c]
                nexts == {n \in Changes(call, call.state, call.at) : Fits(n, call.state)}
    <2>1. call \in OrgCall /\ call.pc = "swap" /\ UNCHANGED orgClock
      BY <1>4 DEF MutateOrganization, OrgInv
    <2>2. PICK gone : gone = {i \in Invitations : /\ call.state.invites[i].status = "pending"
                                   /\ \/ call.op = "leave" /\ call.state.invites[i].target = call.who
                                      \/ call.op = "remove" /\ call.state.invites[i].target = call.target}
      OBVIOUS
    <2>3. CASE /\ nexts # {} /\ Swaps(call)
               /\ \E next \in nexts : org' = [next EXCEPT !.version = call.state.version + 1]
               /\ barred' = barred \cup gone
               /\ orgCalls' = [orgCalls EXCEPT ![c] = NoOrgCall]
      BY <2>1, <2>2, <2>3, SwapSound
    <2>4. CASE Loads(c, call) /\ UNCHANGED <<org, barred>>
      BY <2>1, <2>4, LoadsRow, OrgRowKept
    <2>5. CASE orgCalls' = [orgCalls EXCEPT ![c] = NoOrgCall] /\ UNCHANGED <<org, barred>>
      BY <2>1, <2>5, NoOrgCallTyped, OrgCallStep, OrgRowKept
    <2>. QED BY <1>4, <2>2, <2>3, <2>4, <2>5 DEF MutateOrganization
  <1>5. \A me \in People, op \in Operations : CallOf(op, me) \in OrgCall
    BY NoOrgCallTyped DEF CallOf, OrgCall
  <1>7. ASSUME NEW c \in OrgCalls, NEW me \in People,
               \/ \E op \in {"leave", "prune", "update"} : BeginCall(c, CallOf(op, me))
               \/ \E t \in People :
                    \/ \E op \in {"add", "remove", "grant", "transfer"} : BeginCall(c, [CallOf(op, me) EXCEPT !.target = t])
                    \/ \E r \in {"member", "admin"} : BeginCall(c, [CallOf("role", me) EXCEPT !.target = t, !.role = r])
                    \/ \E i \in Invitations \ {orgCalls[d].invite : d \in OrgCalls} :
                         BeginCall(c, [CallOf("invite", me) EXCEPT !.target = t, !.invite = i])
               \/ \E i \in Invitations, op \in {"accept", "revoke"} : BeginCall(c, [CallOf(op, me) EXCEPT !.invite = i])
        PROVE  \E call \in OrgCall : BeginCall(c, call)
    <2>1. CASE \E op \in {"leave", "prune", "update"} : BeginCall(c, CallOf(op, me))
      BY <1>5, <2>1 DEF Operations
    <2>2. ASSUME NEW t \in People, NEW op \in {"add", "remove", "grant", "transfer"}, BeginCall(c, [CallOf(op, me) EXCEPT !.target = t])
          PROVE  \E call \in OrgCall : BeginCall(c, call)
      <3>1. PICK base \in OrgCall : base = CallOf(op, me)
        BY <1>5 DEF Operations
      <3>2. PICK call : call = [base EXCEPT !.target = t]
        OBVIOUS
      <3>3. call \in OrgCall
        BY <3>2 DEF OrgCall
      <3>. QED BY <2>2, <3>1, <3>2, <3>3
    <2>3. ASSUME NEW t \in People, NEW r \in {"member", "admin"}, BeginCall(c, [CallOf("role", me) EXCEPT !.target = t, !.role = r])
          PROVE  \E call \in OrgCall : BeginCall(c, call)
      <3>1. PICK base \in OrgCall : base = CallOf("role", me)
        BY <1>5 DEF Operations
      <3>2. PICK call : call = [base EXCEPT !.target = t, !.role = r]
        OBVIOUS
      <3>3. call \in OrgCall
        BY <3>2 DEF OrgCall, Roles
      <3>. QED BY <2>3, <3>1, <3>2, <3>3
    <2>4. ASSUME NEW t \in People, NEW i \in Invitations, BeginCall(c, [CallOf("invite", me) EXCEPT !.target = t, !.invite = i])
          PROVE  \E call \in OrgCall : BeginCall(c, call)
      <3>1. PICK base \in OrgCall : base = CallOf("invite", me)
        BY <1>5 DEF Operations
      <3>2. PICK call : call = [base EXCEPT !.target = t, !.invite = i]
        OBVIOUS
      <3>3. call \in OrgCall
        BY <3>2 DEF OrgCall
      <3>. QED BY <2>4, <3>1, <3>2, <3>3
    <2>5. ASSUME NEW i \in Invitations, NEW op \in {"accept", "revoke"}, BeginCall(c, [CallOf(op, me) EXCEPT !.invite = i])
          PROVE  \E call \in OrgCall : BeginCall(c, call)
      <3>1. PICK base \in OrgCall : base = CallOf(op, me)
        BY <1>5 DEF Operations
      <3>2. PICK call : call = [base EXCEPT !.invite = i]
        OBVIOUS
      <3>3. call \in OrgCall
        BY <3>2 DEF OrgCall
      <3>. QED BY <2>5, <3>1, <3>2, <3>3
    <2>. QED BY <1>7, <2>1, <2>2, <2>3, <2>4, <2>5
  <1>. QED BY <1>1, <1>2, <1>3, <1>4, <1>7 DEF OrgNext

(* Nobody leaves an organization without an owner, and an invitation is    *)
(* accepted while it is pending, before it expires and not once its target *)
(* has gone, however calls race (service.ts, mutate and compareAndSwap).   *)
THEOREM OrganizationSound == OrgSpec => OrganizationIsSound
  <1>1. OrgSpec => []OrgInv
    BY OrgInitInv, OrgStepInv, PTL DEF OrgSpec
  <1>2. OrgInv /\ [OrgNext]_orgVars => [OrgStepIsSound]_orgVars
    BY OrgStepInv
  <1>3. OrgSpec => [][OrgStepIsSound]_orgVars
    BY <1>1, <1>2, PTL DEF OrgSpec
  <1>. QED BY <1>3 DEF OrganizationIsSound, OrgStepIsSound

-----------------------------------------------------------------------------
(***************************************************************************)
(* First initialization                                                    *)
(***************************************************************************)

SetupPcs == {"idle", "read", "before", "commit", "inspect", "activate", "complete", "report"}
SetupRecord == [request : Requests \cup {0}, activated : BOOLEAN]
SetupCall == [pc : SetupPcs, request : Requests \cup {0}, record : SetupRecord]

(* A call that goes past the commit holds a record of the request that is  *)
(* stored for good, and was itself begun for it, or by activate().         *)
HoldsStored(c) ==
  setupCalls[c].pc \in {"inspect", "activate", "complete", "report"} =>
    /\ setup # NoSetup
    /\ setupCalls[c].record.request = setup.request
    /\ setupCalls[c].request \in {0, setup.request}

(* A process asks for completion only after its activation has succeeded.  *)
ActivatesFirst(c) == setupCalls[c].pc = "complete" => hostActive

CommitsRequest(c) == setupCalls[c].pc \in {"before", "commit"} => setupCalls[c].request # 0

SetupInv ==
  /\ setup \in SetupRecord /\ hostActive \in BOOLEAN
  /\ setupCalls \in [SetupCalls -> SetupCall]
  /\ setup.request = 0 => setup = NoSetup
  /\ setup = NoSetup => confirmed = {}
  /\ OneFirstOwner
  /\ \A c \in SetupCalls : HoldsStored(c) /\ ActivatesFirst(c) /\ CommitsRequest(c)

LEMMA SetupInitInv == SetupInit => SetupInv
  <1>. SUFFICES ASSUME SetupInit PROVE SetupInv
    OBVIOUS
  <1>1. NoSetup \in SetupRecord
    BY DEF NoSetup, SetupRecord
  <1>2. NoSetupCall \in SetupCall /\ NoSetupCall.pc = "idle"
    BY <1>1 DEF NoSetupCall, SetupCall, SetupPcs
  <1>3. setupCalls \in [SetupCalls -> SetupCall] /\ \A c \in SetupCalls : setupCalls[c].pc = "idle"
    BY <1>2 DEF SetupInit
  <1>4. OneFirstOwner
    BY DEF SetupInit, OneFirstOwner, NoSetup
  <1>. QED BY <1>1, <1>3, <1>4 DEF SetupInit, SetupInv, HoldsStored, ActivatesFirst, CommitsRequest

(* A step of one call that keeps the stored request keeps the invariant if *)
(* the call itself ends up within it.                                      *)
LEMMA SetupOneCall ==
  ASSUME SetupInv, NEW c \in SetupCalls, NEW call \in SetupCall,
         setupCalls' = [setupCalls EXCEPT ![c] = call],
         setup' \in SetupRecord, hostActive' \in BOOLEAN, hostActive => hostActive',
         setup # NoSetup => setup' # NoSetup /\ setup'.request = setup.request,
         setup'.request = 0 => setup' = NoSetup,
         setup' = NoSetup => confirmed' = {},
         OneFirstOwner',
         HoldsStored(c)', ActivatesFirst(c)', CommitsRequest(c)'
  PROVE  SetupInv'
  <1>1. \A d \in SetupCalls : d # c => setupCalls'[d] = setupCalls[d]
    BY DEF SetupInv
  <1>2. setupCalls' \in [SetupCalls -> SetupCall]
    BY DEF SetupInv
  <1>3. \A d \in SetupCalls : HoldsStored(d)' /\ ActivatesFirst(d)' /\ CommitsRequest(d)'
    BY <1>1 DEF SetupInv, HoldsStored, ActivatesFirst, CommitsRequest
  <1>. QED BY <1>2, <1>3 DEF SetupInv

(* The end of a call, whatever else it did.                                *)
LEMMA SetupCallEnds ==
  ASSUME SetupInv, NEW c \in SetupCalls, SetupEnds(c),
         setup' \in SetupRecord, UNCHANGED hostActive,
         setup # NoSetup => setup' # NoSetup /\ setup'.request = setup.request,
         setup'.request = 0 => setup' = NoSetup,
         setup' = NoSetup => confirmed' = {},
         OneFirstOwner'
  PROVE  SetupInv'
  <1>1. NoSetupCall \in SetupCall /\ NoSetupCall.pc = "idle"
    BY DEF NoSetupCall, NoSetup, SetupCall, SetupPcs, SetupRecord
  <1>2. setupCalls'[c] = NoSetupCall
    BY DEF SetupEnds, SetupInv
  <1>3. HoldsStored(c)' /\ ActivatesFirst(c)' /\ CommitsRequest(c)'
    BY <1>1, <1>2 DEF HoldsStored, ActivatesFirst, CommitsRequest
  <1>. QED BY <1>1, <1>3, SetupOneCall DEF SetupEnds, SetupInv

(* A call goes on with a record.                                           *)
LEMMA SetupCallGoes ==
  ASSUME SetupInv, NEW c \in SetupCalls, NEW pc \in SetupPcs, NEW record \in SetupRecord,
         SetupGoes(c, pc, record),
         setup' \in SetupRecord, hostActive' \in BOOLEAN, hostActive => hostActive',
         setup # NoSetup => setup' # NoSetup /\ setup'.request = setup.request,
         setup'.request = 0 => setup' = NoSetup,
         setup' = NoSetup => confirmed' = {},
         OneFirstOwner',
         pc \in {"inspect", "activate", "complete", "report"} =>
            /\ setup' # NoSetup
            /\ record.request = setup'.request
            /\ setupCalls[c].request \in {0, setup'.request},
         pc = "complete" => hostActive',
         pc \in {"before", "commit"} => setupCalls[c].request # 0
  PROVE  SetupInv'
  <1>1. PICK call : call = [setupCalls[c] EXCEPT !.pc = pc, !.record = record]
    OBVIOUS
  <1>2. setupCalls[c] \in SetupCall
    BY DEF SetupInv
  <1>3. call \in SetupCall /\ call.pc = pc /\ call.record = record /\ call.request = setupCalls[c].request
    BY <1>1, <1>2 DEF SetupCall
  <1>4. setupCalls' = [setupCalls EXCEPT ![c] = call]
    BY <1>1, <1>2 DEF SetupGoes, SetupInv
  <1>5. setupCalls'[c] = call
    BY <1>4 DEF SetupInv
  <1>6. HoldsStored(c)' /\ ActivatesFirst(c)' /\ CommitsRequest(c)'
    BY <1>3, <1>5 DEF HoldsStored, ActivatesFirst, CommitsRequest
  <1>. QED BY <1>3, <1>4, <1>6, SetupOneCall

LEMMA SetupStepInv == SetupInv /\ [SetupNext]_setupVars => SetupInv'
  <1>. SUFFICES ASSUME SetupInv, [SetupNext]_setupVars PROVE SetupInv'
    OBVIOUS
  <1>0. /\ setup \in SetupRecord /\ hostActive \in BOOLEAN /\ OneFirstOwner
        /\ setup.request = 0 => setup = NoSetup
        /\ setup = NoSetup => confirmed = {}
        /\ \A c \in SetupCalls : setupCalls[c] \in SetupCall /\ HoldsStored(c) /\ ActivatesFirst(c) /\ CommitsRequest(c)
        /\ NoSetup \in SetupRecord /\ NoSetup.request = 0 /\ NoSetup.activated = FALSE
    BY DEF SetupInv, NoSetup, SetupRecord
  <1>1. CASE Configure
    BY <1>1 DEF Configure, SetupInv, OneFirstOwner, HoldsStored, ActivatesFirst, CommitsRequest
  <1>2. ASSUME NEW c \in SetupCalls, NEW request \in Requests \cup {0}, Begin(c, request) PROVE SetupInv'
    <2>1. PICK call : call = [NoSetupCall EXCEPT !.pc = "read", !.request = request]
      OBVIOUS
    <2>2. call \in SetupCall /\ call.pc = "read"
      BY <2>1 DEF NoSetupCall, NoSetup, SetupCall, SetupPcs, SetupRecord
    <2>3. setupCalls' = [setupCalls EXCEPT ![c] = call] /\ setupCalls'[c] = call
      BY <1>2, <2>1 DEF Begin, SetupInv
    <2>4. HoldsStored(c)' /\ ActivatesFirst(c)' /\ CommitsRequest(c)'
      BY <2>2, <2>3 DEF HoldsStored, ActivatesFirst, CommitsRequest
    <2>. QED BY <1>0, <1>2, <2>2, <2>3, <2>4, SetupOneCall DEF Begin, OneFirstOwner
  <1>3. ASSUME NEW c \in SetupCalls, GiveUp(c) PROVE SetupInv'
    BY <1>0, <1>3, SetupCallEnds DEF GiveUp, OneFirstOwner
  <1>4. ASSUME NEW c \in SetupCalls, ReadSetup(c) PROVE SetupInv'
    <2>1. CASE SetupEnds(c)
      BY <1>0, <1>4, <2>1, SetupCallEnds DEF ReadSetup, OneFirstOwner
    <2>2. CASE setupCalls[c].request = 0 /\ setup # NoSetup /\ SetupGoes(c, "inspect", setup)
      BY <1>0, <1>4, <2>2, SetupCallGoes DEF ReadSetup, OneFirstOwner, SetupPcs
    <2>3. CASE setupCalls[c].request # 0 /\ SetupGoes(c, "before", setup)
      BY <1>0, <1>4, <2>3, SetupCallGoes DEF ReadSetup, OneFirstOwner, SetupPcs
    <2>. QED BY <1>4, <2>1, <2>2, <2>3 DEF ReadSetup
  <1>5. ASSUME NEW c \in SetupCalls, BeforeCommit(c) PROVE SetupInv'
    <2>1. CASE SetupEnds(c)
      BY <1>0, <1>5, <2>1, SetupCallEnds DEF BeforeCommit, OneFirstOwner
    <2>2. CASE SetupGoes(c, "commit", NoSetup)
      BY <1>0, <1>5, <2>2, SetupCallGoes DEF BeforeCommit, OneFirstOwner, SetupPcs, CommitsRequest, SetupAt
    <2>. QED BY <1>5, <2>1, <2>2 DEF BeforeCommit
  <1>6. ASSUME NEW c \in SetupCalls, Commit(c) PROVE SetupInv'
    <2>1. setupCalls[c].request \in Requests /\ setupCalls[c].request # 0
      BY <1>0, <1>6 DEF Commit, SetupAt, CommitsRequest, SetupCall
    <2>2. /\ setup' \in SetupRecord /\ setup'.request # 0 /\ setup' # NoSetup
          /\ setup # NoSetup => setup' = setup
          /\ setup = NoSetup => setup'.activated = FALSE
      BY <1>0, <1>6, <2>1 DEF Commit, NoSetup, SetupRecord
    <2>3. OneFirstOwner'
      BY <1>0, <1>6, <2>2 DEF Commit, OneFirstOwner
    <2>4. CASE SetupEnds(c)
      BY <1>0, <1>6, <2>2, <2>3, <2>4, SetupCallEnds DEF Commit
    <2>5. CASE Accepts(c, setup') /\ SetupGoes(c, "inspect", setup')
      BY <1>0, <1>6, <2>2, <2>3, <2>5, SetupCallGoes DEF Commit, Accepts, SetupPcs
    <2>. QED BY <1>6, <2>4, <2>5 DEF Commit
  <1>7. ASSUME NEW c \in SetupCalls, Inspect(c) PROVE SetupInv'
    <2>1. CASE SetupEnds(c)
      BY <1>0, <1>7, <2>1, SetupCallEnds DEF Inspect, OneFirstOwner
    <2>2. ASSUME NEW pc \in {"report", "activate"}, SetupGoes(c, pc, setupCalls[c].record) PROVE SetupInv'
      <3>1. setupCalls[c].record \in SetupRecord
        BY <1>0 DEF SetupCall
      <3>. QED BY <1>0, <1>7, <2>2, <3>1, SetupCallGoes DEF Inspect, OneFirstOwner, SetupPcs, SetupAt, HoldsStored
    <2>. QED BY <1>7, <2>1, <2>2 DEF Inspect
  <1>8. ASSUME NEW c \in SetupCalls, Activate(c) PROVE SetupInv'
    <2>1. CASE hostActive' = hostActive /\ SetupEnds(c)
      BY <1>0, <1>8, <2>1, SetupCallEnds DEF Activate, OneFirstOwner
    <2>2. CASE hostActive' = TRUE /\ SetupGoes(c, "complete", setupCalls[c].record)
      <3>1. setupCalls[c].record \in SetupRecord
        BY <1>0 DEF SetupCall
      <3>. QED BY <1>0, <1>8, <2>2, <3>1, SetupCallGoes DEF Activate, OneFirstOwner, SetupPcs, SetupAt, HoldsStored
    <2>. QED BY <1>8, <2>1, <2>2 DEF Activate, Activation
  <1>9. ASSUME NEW c \in SetupCalls, Complete(c) PROVE SetupInv'
    <2>1. setup # NoSetup /\ setupCalls[c].record.request = setup.request /\ setupCalls[c].request \in {0, setup.request} /\ hostActive
      BY <1>0, <1>9 DEF Complete, SetupAt, HoldsStored, ActivatesFirst
    <2>2. setup' = [setup EXCEPT !.activated = TRUE]
      BY <1>9, <2>1 DEF Complete
    <2>3. setup' \in SetupRecord /\ setup'.request = setup.request /\ setup' # NoSetup /\ setup.request # 0
      BY <1>0, <2>1, <2>2 DEF SetupRecord
    <2>4. OneFirstOwner'
      BY <1>0, <1>9, <2>1, <2>3 DEF Complete, OneFirstOwner
    <2>5. CASE SetupEnds(c)
      BY <1>0, <1>9, <2>3, <2>4, <2>5, SetupCallEnds DEF Complete
    <2>6. CASE SetupGoes(c, "report", setup')
      BY <1>0, <1>9, <2>1, <2>3, <2>4, <2>6, SetupCallGoes DEF Complete, SetupPcs
    <2>. QED BY <1>9, <2>5, <2>6 DEF Complete
  <1>10. ASSUME NEW c \in SetupCalls, Report(c) PROVE SetupInv'
    <2>1. setup # NoSetup /\ setupCalls[c].request \in {0, setup.request}
      BY <1>0, <1>10 DEF Report, SetupAt, HoldsStored
    <2>2. OneFirstOwner'
      BY <1>0, <1>10, <2>1 DEF Report, OneFirstOwner
    <2>. QED BY <1>0, <1>10, <2>1, <2>2, SetupCallEnds DEF Report
  <1>11. CASE UNCHANGED setupVars
    BY <1>11 DEF setupVars, SetupInv, OneFirstOwner, HoldsStored, ActivatesFirst, CommitsRequest
  <1>. QED BY <1>1, <1>2, <1>3, <1>4, <1>5, <1>6, <1>7, <1>8, <1>9, <1>10, <1>11 DEF SetupNext

(* Of requests that race, only the one that is stored is ever confirmed,   *)
(* and it is not activated before the host's activation has succeeded      *)
(* (initialization.ts, apply and activate).                                *)
THEOREM FirstOwnerIsOne == SetupSpec => []OneFirstOwner
  <1>1. SetupInv => OneFirstOwner
    BY DEF SetupInv
  <1>. QED BY <1>1, SetupInitInv, SetupStepInv, PTL DEF SetupSpec

-----------------------------------------------------------------------------
(***************************************************************************)
(* The PostgreSQL tasks                                                    *)
(***************************************************************************)

BossStates == {"absent", "created", "retry", "active", "completed", "failed", "cancelled", "gone"}
BossRow == [state : BossStates, count : Nat, limit : Nat, started : BOOLEAN, copy : Nat]
RelationRow == [key : PgKeys \cup {"none"}, input : PgInputs \cup {"none"}, cancel : BOOLEAN]
Transaction == {NoTransaction} \cup
  [pc : {"lock", "look"}, op : {"settle", "cancel", "retry"}, job : PgJobs, attempt : Nat, ok : BOOLEAN,
   copy : Nat, tries : Nat]
Answers == {"terminal", "requested", "cancelled", "missing"}

(* The two rows of a job and its history agree on how many attempts there  *)
(* were: all but the active one have ended, and a retry has one left.      *)
RowsAgree(row, rel, hist) ==
  /\ row.state = "absent" <=> rel.input = "none"
  /\ row.state = "absent" => hist = <<>>
  /\ row.state = "created" => ~row.started
  /\ row.state \in {"active", "retry", "failed", "completed"} => row.started
  /\ ~row.started => row.count = 0
  /\ row.state = "retry" => row.count < row.limit
  /\ \A n \in 1 .. Len(hist) : hist[n] = n
  /\ row.state \notin {"absent", "gone"} =>
       /\ Len(hist) = IF row.state = "active" \/ ~row.started THEN row.count ELSE row.count + 1
       /\ row.count <= row.limit

(* An answer of cancel holds, and one that a worker has yet to honour is   *)
(* still written in the relation.                                          *)
AnswerHolds(row, rel, answer) ==
  /\ rel.input # "none"
  /\ answer = "cancelled" => row.state \in {"cancelled", "gone"}
  /\ answer = "missing" => row.state = "gone"
  /\ answer = "requested" => rel.cancel /\ row.state # "completed"

PgTypes == /\ boss \in [PgJobs -> BossRow] /\ relation \in [PgJobs -> RelationRow]
           /\ ended \in [PgJobs -> Seq(Nat)] /\ told \subseteq PgJobs \X Answers
           /\ \A r \in accepted : r[3] \in PgJobs

(* The relation remembers whatever was accepted, and gives a key once.     *)
RelationInv ==
  /\ \A r \in accepted : r = <<relation[r[3]].key, relation[r[3]].input, r[3]>> /\ relation[r[3]].input # "none"
  /\ \A i, j \in PgJobs : relation[i].input # "none" /\ relation[j].input # "none" /\ relation[i].key # "none"
                          /\ relation[i].key = relation[j].key => i = j

CallsInv == /\ pgCalls \in [PgCalls -> Transaction]
            /\ \A c \in PgCalls : pgCalls[c].pc # "idle" => relation[pgCalls[c].job].input # "none"

PgInv == /\ PgTypes /\ RelationInv /\ CallsInv
         /\ \A j \in PgJobs : RowsAgree(boss[j], relation[j], ended[j])
         /\ \A r \in told : AnswerHolds(boss[r[1]], relation[r[1]], r[2])

LEMMA PgSound == PgInv => PostgresIsSound
  <1>. SUFFICES ASSUME PgInv PROVE PostgresIsSound
    OBVIOUS
  <1>1. AnswersHold
    BY DEF PgInv, AnswersHold, AnswerHolds
  <1>2. PgAttemptsEndOnce
    <2>. SUFFICES ASSUME NEW j \in PgJobs
                  PROVE  /\ \A n \in 1 .. Len(ended[j]) : ended[j][n] = n
                         /\ Kept(j) => /\ Len(ended[j]) = IF boss[j].state = "active" THEN boss[j].count ELSE Attempt(j)
                                       /\ boss[j].count <= boss[j].limit
      BY DEF PgAttemptsEndOnce
    <2>1. RowsAgree(boss[j], relation[j], ended[j]) /\ boss[j] \in BossRow
      BY DEF PgInv, PgTypes
    <2>. QED BY <2>1 DEF RowsAgree, Kept, Attempt, BossRow
  <1>3. PgKeyIsStable
    <2>. SUFFICES ASSUME NEW r \in accepted, NEW s \in accepted, r[1] = s[1], r[1] # "none" PROVE r = s
      BY DEF PgKeyIsStable
    <2>1. r[3] \in PgJobs /\ s[3] \in PgJobs
      BY DEF PgInv, PgTypes
    <2>2. r = <<relation[r[3]].key, relation[r[3]].input, r[3]>> /\ s = <<relation[s[3]].key, relation[s[3]].input, s[3]>>
          /\ relation[r[3]].input # "none" /\ relation[s[3]].input # "none"
      BY DEF PgInv, RelationInv
    <2>3. r[1] = relation[r[3]].key /\ s[1] = relation[s[3]].key
      BY <2>2
    <2>4. r[3] = s[3]
      BY <2>1, <2>2, <2>3 DEF PgInv, RelationInv
    <2>. QED BY <2>2, <2>4
  <1>. QED BY <1>1, <1>2, <1>3 DEF PostgresIsSound

LEMMA PgInitInv == PgInit => PgInv
  <1>. SUFFICES ASSUME PgInit PROVE PgInv
    OBVIOUS
  <1>1. NoJob \in BossRow /\ NoRelation \in RelationRow /\ NoTransaction \in Transaction
    BY DEF NoJob, NoRelation, BossRow, RelationRow, BossStates, Transaction
  <1>2. <<>> \in Seq(Nat) /\ Len(<<>>) = 0
    BY EmptySeq
  <1>3. PgTypes
    BY <1>1, <1>2 DEF PgInit, PgTypes
  <1>4. RelationInv
    BY DEF PgInit, RelationInv, NoRelation
  <1>5. CallsInv
    BY <1>1 DEF PgInit, CallsInv, NoTransaction
  <1>6. RowsAgree(NoJob, NoRelation, <<>>)
    BY <1>2 DEF RowsAgree, NoJob, NoRelation
  <1>. QED BY <1>3, <1>4, <1>5, <1>6 DEF PgInit, PgInv

(* A step that changes the two rows and the history of one job, but not    *)
(* what the relation says of its key and input.                            *)
LEMMA PgJobStep ==
  ASSUME PgInv, NEW j \in PgJobs, NEW row \in BossRow, NEW rel \in RelationRow, NEW hist \in Seq(Nat),
         boss' = [boss EXCEPT ![j] = row], relation' = [relation EXCEPT ![j] = rel], ended' = [ended EXCEPT ![j] = hist],
         rel.key = relation[j].key, rel.input = relation[j].input,
         RowsAgree(row, rel, hist),
         UNCHANGED accepted, told' \subseteq PgJobs \X Answers,
         \A r \in told' : IF r[1] = j THEN AnswerHolds(row, rel, r[2]) ELSE r \in told,
         CallsInv'
  PROVE  PgInv'
  <1>1. \A i \in PgJobs : /\ boss'[i] = IF i = j THEN row ELSE boss[i]
                          /\ relation'[i] = IF i = j THEN rel ELSE relation[i]
                          /\ ended'[i] = IF i = j THEN hist ELSE ended[i]
    BY DEF PgInv, PgTypes
  <1>2. \A i \in PgJobs : relation'[i].key = relation[i].key /\ relation'[i].input = relation[i].input
    BY <1>1
  <1>3. PgTypes'
    BY DEF PgInv, PgTypes
  <1>4. RelationInv'
    BY <1>2 DEF PgInv, PgTypes, RelationInv
  <1>5. \A i \in PgJobs : RowsAgree(boss'[i], relation'[i], ended'[i])
    BY <1>1 DEF PgInv
  <1>6. \A r \in told' : AnswerHolds(boss'[r[1]], relation'[r[1]], r[2])
    <2>. SUFFICES ASSUME NEW r \in told' PROVE AnswerHolds(boss'[r[1]], relation'[r[1]], r[2])
      OBVIOUS
    <2>1. r[1] \in PgJobs
      OBVIOUS
    <2>. QED BY <1>1, <2>1 DEF PgInv
  <1>. QED BY <1>3, <1>4, <1>5, <1>6 DEF PgInv

(* What a job's answers are when its rows change and no answer is given.   *)
LEMMA PgToldKept ==
  ASSUME PgInv, NEW j \in PgJobs, NEW row, NEW rel,
         rel.input = relation[j].input,
         rel.cancel = relation[j].cancel,
         boss[j].state = "cancelled" => row.state \in {"cancelled", "gone"},
         boss[j].state = "gone" => row.state = "gone",
         row.state = "completed" => boss[j].state = "completed" \/ ~rel.cancel
  PROVE  \A r \in told : IF r[1] = j THEN AnswerHolds(row, rel, r[2]) ELSE r \in told
  BY DEF PgInv, AnswerHolds

LEMMA PgQuiet == ASSUME PgInv, UNCHANGED <<boss, relation, ended, accepted>>,
                        told' \subseteq PgJobs \X Answers,
                        \A r \in told' : r \in told \/ AnswerHolds(boss[r[1]], relation[r[1]], r[2]),
                        CallsInv'
                 PROVE  PgInv'
  BY DEF PgInv, PgTypes, RelationInv, RowsAgree, AnswerHolds

LEMMA PgCallsStep ==
  ASSUME CallsInv, NEW c \in PgCalls, NEW call \in Transaction,
         pgCalls' = [pgCalls EXCEPT ![c] = call],
         \A j \in PgJobs : relation[j].input # "none" => relation'[j].input # "none",
         call.pc # "idle" => relation[call.job].input # "none"
  PROVE  CallsInv'
  <1>1. \A d \in PgCalls : pgCalls'[d] = IF d = c THEN call ELSE pgCalls[d]
    BY DEF CallsInv
  <1>2. \A t \in Transaction : t.pc # "idle" => t.job \in PgJobs
    BY DEF Transaction, NoTransaction
  <1>. QED BY <1>1, <1>2 DEF CallsInv

(* What follows once the job's row is locked (settle, cancel, retry), with *)
(* the calls that are left.                                                *)
LEMMA SettlesRight ==
  ASSUME PgInv, NEW c \in PgCalls, NEW j \in PgJobs, SettleLocked(c, j), Kept(j),
         relation[j].input # "none", UNCHANGED accepted, CallsInv'
  PROVE  PgInv'
  <1>0. boss[j] \in BossRow /\ relation[j] \in RelationRow /\ ended[j] \in Seq(Nat)
        /\ RowsAgree(boss[j], relation[j], ended[j])
    BY DEF PgInv, PgTypes
  <1>1. CASE UNCHANGED <<boss, ended>>
    BY <1>1, PgQuiet DEF SettleLocked, PgInv, PgTypes
  <1>2. CASE boss[j].state = "active" /\ Attempt(j) = pgCalls[c].attempt
    <2>1. PICK row : row = IF relation[j].cancel THEN [boss[j] EXCEPT !.state = "cancelled"]
                           ELSE IF pgCalls[c].ok THEN [boss[j] EXCEPT !.state = "completed"]
                           ELSE Failed(boss[j])
      OBVIOUS
    <2>2. PICK hist : hist = Append(ended[j], Attempt(j))
      OBVIOUS
    <2>3. boss' = [boss EXCEPT ![j] = row] /\ ended' = [ended EXCEPT ![j] = hist]
          /\ relation' = [relation EXCEPT ![j] = relation[j]] /\ told' = told
      BY <1>2, <2>1, <2>2 DEF SettleLocked, PgInv, PgTypes
    <2>4. /\ row \in BossRow /\ row.count = boss[j].count /\ row.limit = boss[j].limit /\ row.started = boss[j].started
          /\ row.state \in {"cancelled", "completed", "retry", "failed"}
          /\ row.state = "retry" => row.count < row.limit
          /\ row.state = "completed" => ~relation[j].cancel
      <3>1. boss[j].copy \in Nat /\ boss[j].count \in Nat /\ boss[j].limit \in Nat
        BY <1>0 DEF BossRow
      <3>2. PICK copy \in Nat : copy = boss[j].copy + 1
        BY <3>1
      <3>3. Failed(boss[j]) = [boss[j] EXCEPT !.state = IF boss[j].count < boss[j].limit THEN "retry" ELSE "failed",
                                              !.copy = copy]
        BY <1>0, <3>2 DEF Failed, BossRow
      <3>. QED BY <1>0, <2>1, <3>1, <3>3 DEF BossRow, BossStates
    <2>5. Attempt(j) = boss[j].count + 1 /\ Len(ended[j]) = boss[j].count /\ boss[j].count \in Nat
      BY <1>0, <1>2 DEF RowsAgree, Attempt, BossRow
    <2>6. /\ hist \in Seq(Nat) /\ Len(hist) = boss[j].count + 1
          /\ \A n \in 1 .. Len(ended[j]) : hist[n] = ended[j][n]
          /\ hist[boss[j].count + 1] = boss[j].count + 1
      BY <1>0, <2>2, <2>5, AppendProperties
    <2>7. \A n \in 1 .. Len(hist) : hist[n] = n
      <3>1. \A n \in 1 .. Len(hist) : n \in 1 .. Len(ended[j]) \/ n = boss[j].count + 1
        BY <2>5, <2>6
      <3>2. \A n \in 1 .. Len(ended[j]) : ended[j][n] = n
        BY <1>0 DEF RowsAgree
      <3>. QED BY <2>6, <3>1, <3>2
    <2>8. RowsAgree(row, relation[j], hist)
      BY <1>0, <1>2, <2>4, <2>6, <2>7 DEF RowsAgree
    <2>9. \A r \in told' : IF r[1] = j THEN AnswerHolds(row, relation[j], r[2]) ELSE r \in told
      BY <1>2, <2>3, <2>4, PgToldKept
    <2>10. told' \subseteq PgJobs \X Answers
      BY <2>3 DEF PgInv, PgTypes
    <2>. QED BY <1>0, <2>3, <2>4, <2>6, <2>8, <2>9, <2>10, PgJobStep
  <1>. QED BY <1>1, <1>2 DEF SettleLocked

LEMMA CancelsRight ==
  ASSUME PgInv, NEW j \in PgJobs, CancelLocked(j), Kept(j),
         relation[j].input # "none", UNCHANGED accepted, CallsInv'
  PROVE  PgInv'
  <1>0. boss[j] \in BossRow /\ relation[j] \in RelationRow /\ ended[j] \in Seq(Nat)
        /\ RowsAgree(boss[j], relation[j], ended[j]) /\ told \subseteq PgJobs \X Answers
    BY DEF PgInv, PgTypes
  <1>. DEFINE over == boss[j].state \in {"completed", "failed", "cancelled"}
              answer == IF over THEN "terminal" ELSE IF boss[j].state = "active" THEN "requested" ELSE "cancelled"
  <1>1. PICK row : row = IF answer = "cancelled" THEN [boss[j] EXCEPT !.state = "cancelled"] ELSE boss[j]
    OBVIOUS
  <1>2. PICK rel : rel = IF over THEN relation[j] ELSE [relation[j] EXCEPT !.cancel = TRUE]
    OBVIOUS
  <1>3. /\ boss' = [boss EXCEPT ![j] = row] /\ relation' = [relation EXCEPT ![j] = rel]
        /\ ended' = [ended EXCEPT ![j] = ended[j]] /\ told' = told \cup {<<j, answer>>}
    BY <1>1, <1>2 DEF CancelLocked, PgInv, PgTypes
  <1>4. /\ row \in BossRow /\ row.count = boss[j].count /\ row.limit = boss[j].limit /\ row.started = boss[j].started
        /\ row.state = (IF answer = "cancelled" THEN "cancelled" ELSE boss[j].state)
    BY <1>0, <1>1 DEF BossRow, BossStates
  <1>5. /\ rel \in RelationRow /\ rel.key = relation[j].key /\ rel.input = relation[j].input
        /\ rel.cancel = (~over \/ relation[j].cancel)
    BY <1>0, <1>2 DEF RelationRow
  <1>6. answer \in Answers
    BY DEF Answers
  <1>7. RowsAgree(row, rel, ended[j])
    BY <1>0, <1>4, <1>5 DEF RowsAgree, Kept
  <1>8. ASSUME NEW r \in told' PROVE IF r[1] = j THEN AnswerHolds(row, rel, r[2]) ELSE r \in told
    <2>1. CASE r \in told
      <3>1. AnswerHolds(boss[r[1]], relation[r[1]], r[2])
        BY <2>1 DEF PgInv
      <3>. QED BY <2>1, <3>1, <1>4, <1>5 DEF AnswerHolds, Kept
    <2>2. CASE r = <<j, answer>>
      BY <1>4, <1>5, <2>2 DEF AnswerHolds
    <2>. QED BY <1>3, <2>1, <2>2
  <1>9. told' \subseteq PgJobs \X Answers
    BY <1>0, <1>3, <1>6
  <1>. HIDE DEF over, answer
  <1>. QED BY <1>0, <1>3, <1>4, <1>5, <1>7, <1>8, <1>9, PgJobStep

LEMMA RetriesRight ==
  ASSUME PgInv, NEW j \in PgJobs, RetryLocked(j), Kept(j),
         relation[j].input # "none", UNCHANGED accepted, CallsInv'
  PROVE  PgInv'
  <1>0. boss[j] \in BossRow /\ relation[j] \in RelationRow /\ ended[j] \in Seq(Nat)
        /\ RowsAgree(boss[j], relation[j], ended[j]) /\ told \subseteq PgJobs \X Answers
    BY DEF PgInv, PgTypes
  <1>1. CASE boss[j].state # "failed"
    BY <1>1, <1>0, PgQuiet DEF RetryLocked
  <1>2. CASE boss[j].state = "failed"
    <2>0. PICK limit \in Nat : limit = boss[j].limit + 1
      BY <1>0 DEF BossRow
    <2>1. PICK row : row = [boss[j] EXCEPT !.state = "retry", !.limit = limit]
      OBVIOUS
    <2>2. PICK rel : rel = [relation[j] EXCEPT !.cancel = FALSE]
      OBVIOUS
    <2>3. /\ boss' = [boss EXCEPT ![j] = row] /\ relation' = [relation EXCEPT ![j] = rel]
          /\ ended' = [ended EXCEPT ![j] = ended[j]] /\ told' = told \ {<<j, "requested">>}
      BY <1>2, <2>0, <2>1, <2>2 DEF RetryLocked, PgInv, PgTypes
    <2>4. /\ row \in BossRow /\ row.count = boss[j].count /\ row.limit = boss[j].limit + 1
          /\ row.started = boss[j].started /\ row.state = "retry" /\ row.count \in Nat /\ boss[j].limit \in Nat
      BY <1>0, <2>0, <2>1 DEF BossRow, BossStates
    <2>5. rel \in RelationRow /\ rel.key = relation[j].key /\ rel.input = relation[j].input
      BY <1>0, <2>2 DEF RelationRow
    <2>6. RowsAgree(row, rel, ended[j])
      <3>1. row.state = "retry" /\ rel.input # "none" /\ row.count < row.limit /\ row.count <= row.limit
        BY <1>0, <2>4, <2>5 DEF RowsAgree, BossRow, Kept
      <3>2. row.started /\ Len(ended[j]) = row.count + 1 /\ \A n \in 1 .. Len(ended[j]) : ended[j][n] = n
        BY <1>0, <1>2, <2>4 DEF RowsAgree
      <3>. QED BY <3>1, <3>2 DEF RowsAgree
    <2>7. ASSUME NEW r \in told' PROVE IF r[1] = j THEN AnswerHolds(row, rel, r[2]) ELSE r \in told
      <3>1. r \in told /\ r # <<j, "requested">> /\ r = <<r[1], r[2]>>
        BY <1>0, <2>3
      <3>2. AnswerHolds(boss[r[1]], relation[r[1]], r[2])
        BY <3>1 DEF PgInv
      <3>. QED BY <1>2, <2>5, <3>1, <3>2 DEF AnswerHolds
    <2>8. told' \subseteq PgJobs \X Answers
      BY <1>0, <2>3
    <2>. QED BY <1>0, <2>3, <2>4, <2>5, <2>6, <2>7, <2>8, PgJobStep
  <1>. QED BY <1>1, <1>2

LEMMA PgEnqueueRight ==
  ASSUME PgInv, NEW j \in PgJobs, NEW key \in PgKeys, NEW input \in PgInputs, PgEnqueue(j, key, input)
  PROVE  PgInv'
  <1>0. /\ boss[j] \in BossRow /\ relation[j] \in RelationRow /\ ended[j] \in Seq(Nat)
        /\ RowsAgree(boss[j], relation[j], ended[j]) /\ relation[j].input = "none"
        /\ boss \in [PgJobs -> BossRow] /\ relation \in [PgJobs -> RelationRow]
        /\ \A r \in accepted : /\ r[3] \in PgJobs /\ relation[r[3]].input # "none"
                               /\ r = <<relation[r[3]].key, relation[r[3]].input, r[3]>>
    BY DEF PgInv, PgTypes, RelationInv, PgEnqueue, Known
  <1>1. CASE HoldersOf(key) = {}
    <2>0. PICK limit \in Nat : limit = PgAttempts - 1
      BY PgAssumption
    <2>1. PICK row : row = [NoJob EXCEPT !.state = "created", !.limit = limit]
      OBVIOUS
    <2>2. PICK rel : rel = [key |-> key, input |-> input, cancel |-> FALSE]
      OBVIOUS
    <2>3. /\ boss' = [boss EXCEPT ![j] = row] /\ relation' = [relation EXCEPT ![j] = rel]
          /\ accepted' = accepted \cup {<<key, input, j>>} /\ UNCHANGED <<pgCalls, ended, told>>
      BY <1>1, <2>0, <2>1, <2>2 DEF PgEnqueue
    <2>4. row \in BossRow /\ row.state = "created" /\ row.count = 0 /\ row.limit \in Nat /\ ~row.started
      BY <2>1 DEF NoJob, BossRow, BossStates
    <2>5. rel \in RelationRow /\ rel.key = key /\ rel.input = input /\ input # "none"
      BY <2>2, PgAssumption DEF RelationRow
    <2>6. \A i \in PgJobs : /\ boss'[i] = IF i = j THEN row ELSE boss[i]
                            /\ relation'[i] = IF i = j THEN rel ELSE relation[i]
      BY <1>0, <2>3
    <2>7. RowsAgree(row, rel, ended[j])
      <3>1. ended[j] = <<>> /\ Len(ended[j]) = 0
        BY <1>0, EmptySeq DEF RowsAgree
      <3>. QED BY <2>4, <2>5, <3>1 DEF RowsAgree
    <2>8. PgTypes'
      <3>1. boss' \in [PgJobs -> BossRow] /\ relation' \in [PgJobs -> RelationRow]
        BY <1>0, <2>3, <2>4, <2>5
      <3>2. \A r \in accepted' : r[3] \in PgJobs
        BY <1>0, <2>3
      <3>. QED BY <3>1, <3>2, <2>3 DEF PgInv, PgTypes
    <2>9. RelationInv'
      <3>1. ASSUME NEW r \in accepted'
            PROVE  r = <<relation'[r[3]].key, relation'[r[3]].input, r[3]>> /\ relation'[r[3]].input # "none"
        <4>1. CASE r \in accepted
          BY <1>0, <2>6, <4>1
        <4>2. CASE r = <<key, input, j>>
          BY <2>5, <2>6, <4>2
        <4>. QED BY <2>3, <4>1, <4>2
      <3>2. \A i \in PgJobs : relation[i].input # "none" /\ key # "none" => relation[i].key # key
        BY <1>1 DEF HoldersOf, Known
      <3>3. ASSUME NEW i \in PgJobs, NEW k \in PgJobs, relation'[i].input # "none", relation'[k].input # "none",
                   relation'[i].key # "none", relation'[i].key = relation'[k].key
            PROVE  i = k
        BY <2>5, <2>6, <3>2, <3>3 DEF PgInv, RelationInv
      <3>. QED BY <3>1, <3>3 DEF RelationInv
    <2>10. CallsInv'
      <3>1. \A t \in Transaction : t.pc # "idle" => t.job \in PgJobs
        BY DEF Transaction, NoTransaction
      <3>. QED BY <2>3, <2>5, <2>6, <3>1 DEF PgInv, CallsInv
    <2>11. \A i \in PgJobs : RowsAgree(boss'[i], relation'[i], ended'[i])
      BY <2>3, <2>6, <2>7 DEF PgInv
    <2>12. ASSUME NEW r \in told' PROVE AnswerHolds(boss'[r[1]], relation'[r[1]], r[2])
      <3>1. r[1] \in PgJobs /\ AnswerHolds(boss[r[1]], relation[r[1]], r[2])
        BY <2>3 DEF PgInv, PgTypes
      <3>. QED BY <1>0, <2>6, <3>1 DEF AnswerHolds
    <2>. QED BY <2>8, <2>9, <2>10, <2>11, <2>12 DEF PgInv
  <1>2. CASE HoldersOf(key) # {}
    <2>1. UNCHANGED <<boss, relation, pgCalls, ended, told>>
      BY <1>2 DEF PgEnqueue
    <2>2. ASSUME NEW r \in accepted'
          PROVE  r[3] \in PgJobs /\ r = <<relation[r[3]].key, relation[r[3]].input, r[3]>> /\ relation[r[3]].input # "none"
      <3>1. CASE r \in accepted
        BY <1>0, <3>1
      <3>2. ASSUME NEW i \in HoldersOf(key), relation[i].input = input, r = <<key, input, i>> PROVE <2>2!2
        BY <3>2 DEF HoldersOf, Known
      <3>. QED BY <1>2, <3>1, <3>2 DEF PgEnqueue
    <2>. QED BY <2>1, <2>2 DEF PgInv, PgTypes, RelationInv, CallsInv
  <1>. QED BY <1>1, <1>2

LEMMA PgCallFacts ==
  ASSUME PgInv, NEW c \in PgCalls, NEW pc, pgCalls[c].pc = pc, pc # "idle"
  PROVE  /\ pgCalls[c] \in Transaction /\ pgCalls[c].job \in PgJobs /\ relation[pgCalls[c].job].input # "none"
         /\ pgCalls[c].op \in {"settle", "cancel", "retry"} /\ pgCalls[c].tries \in Nat
  BY DEF PgInv, CallsInv, Transaction, NoTransaction

LEMMA PgStepInv == PgInv /\ [PgNext]_pgVars => PgInv'
  <1>. SUFFICES ASSUME PgInv, [PgNext]_pgVars PROVE PgInv'
    OBVIOUS
  <1>0. \A j \in PgJobs : /\ boss[j] \in BossRow /\ relation[j] \in RelationRow /\ ended[j] \in Seq(Nat)
                         /\ RowsAgree(boss[j], relation[j], ended[j])
    BY DEF PgInv, PgTypes
  <1>11. told \subseteq PgJobs \X Answers
    BY DEF PgInv, PgTypes
  <1>1. ASSUME NEW j \in PgJobs, BossFetch(j) PROVE PgInv'
    <2>0. boss[j].count \in Nat /\ boss[j].limit \in Nat
      BY <1>0 DEF BossRow
    <2>1. PICK count \in Nat : count = IF boss[j].started THEN boss[j].count + 1 ELSE boss[j].count
      BY <2>0
    <2>2. PICK row : row = [boss[j] EXCEPT !.state = "active", !.started = TRUE, !.count = count]
      OBVIOUS
    <2>3. boss' = [boss EXCEPT ![j] = row]
      BY <1>1, <2>1, <2>2 DEF BossFetch, PgInv, PgTypes
    <2>4. row \in BossRow /\ row.state = "active" /\ row.started /\ row.count = count /\ row.limit = boss[j].limit
      BY <1>0, <2>2 DEF BossRow, BossStates
    <2>5. RowsAgree(row, relation[j], ended[j])
      BY <1>0, <1>1, <2>0, <2>1, <2>4 DEF RowsAgree, BossFetch
    <2>6. \A r \in told : IF r[1] = j THEN AnswerHolds(row, relation[j], r[2]) ELSE r \in told
      BY <1>1, <2>4, PgToldKept DEF BossFetch
    <2>7. CallsInv'
      BY <1>1 DEF BossFetch, PgInv, CallsInv
    <2>8. relation' = [relation EXCEPT ![j] = relation[j]] /\ ended' = [ended EXCEPT ![j] = ended[j]]
          /\ told' = told /\ accepted' = accepted
      BY <1>1 DEF BossFetch, PgInv, PgTypes
    <2>. QED BY <1>0, <1>11, <2>3, <2>4, <2>5, <2>6, <2>7, <2>8, PgJobStep
  <1>2. ASSUME NEW j \in PgJobs, Supervise(j) PROVE PgInv'
    <2>0. boss[j].count \in Nat /\ boss[j].limit \in Nat /\ boss[j].copy \in Nat /\ boss[j].state = "active"
      BY <1>0, <1>2 DEF BossRow, Supervise
    <2>1. PICK copy \in Nat : copy = boss[j].copy + 1
      BY <2>0
    <2>2. PICK row : row = [boss[j] EXCEPT !.state = IF boss[j].count < boss[j].limit THEN "retry" ELSE "failed", !.copy = copy]
      OBVIOUS
    <2>3. boss' = [boss EXCEPT ![j] = row]
      BY <1>2, <2>1, <2>2 DEF Supervise, Failed, PgInv, PgTypes
    <2>4. row \in BossRow /\ row.state \in {"retry", "failed"} /\ row.started = boss[j].started /\ row.count = boss[j].count
          /\ row.limit = boss[j].limit /\ (row.state = "retry" => row.count < row.limit)
      BY <1>0, <2>0, <2>2 DEF BossRow, BossStates
    <2>5. PICK hist : hist = Append(ended[j], Attempt(j))
      OBVIOUS
    <2>6. Attempt(j) = boss[j].count + 1 /\ Len(ended[j]) = boss[j].count /\ boss[j].started
      BY <1>0, <2>0 DEF RowsAgree, Attempt
    <2>7. /\ hist \in Seq(Nat) /\ Len(hist) = boss[j].count + 1
          /\ \A n \in 1 .. Len(ended[j]) : hist[n] = ended[j][n]
          /\ hist[boss[j].count + 1] = boss[j].count + 1
      BY <1>0, <2>0, <2>5, <2>6, AppendProperties
    <2>8. \A n \in 1 .. Len(hist) : hist[n] = n
      <3>1. \A n \in 1 .. Len(hist) : n \in 1 .. Len(ended[j]) \/ n = boss[j].count + 1
        BY <2>0, <2>6, <2>7
      <3>2. \A n \in 1 .. Len(ended[j]) : ended[j][n] = n
        BY <1>0 DEF RowsAgree
      <3>. QED BY <2>7, <3>1, <3>2
    <2>9. RowsAgree(row, relation[j], hist)
      BY <1>0, <2>0, <2>4, <2>6, <2>7, <2>8 DEF RowsAgree
    <2>10. \A r \in told : IF r[1] = j THEN AnswerHolds(row, relation[j], r[2]) ELSE r \in told
      BY <2>0, <2>4, PgToldKept
    <2>11. CallsInv'
      BY <1>2 DEF Supervise, PgInv, CallsInv
    <2>12. relation' = [relation EXCEPT ![j] = relation[j]] /\ ended' = [ended EXCEPT ![j] = hist]
           /\ told' = told /\ accepted' = accepted
      BY <1>2, <2>5 DEF Supervise, PgInv, PgTypes
    <2>. QED BY ZenonT(60), <1>0, <1>11, <2>3, <2>4, <2>7, <2>9, <2>10, <2>11, <2>12, PgJobStep
  <1>3. ASSUME NEW j \in PgJobs, BossPrune(j) PROVE PgInv'
    <2>1. PICK row : row = [NoJob EXCEPT !.state = "gone"]
      OBVIOUS
    <2>2. row \in BossRow /\ row.state = "gone" /\ ~row.started /\ row.count = 0
      BY <2>1 DEF NoJob, BossRow, BossStates
    <2>3. RowsAgree(row, relation[j], ended[j])
      BY <1>0, <1>3, <2>2 DEF RowsAgree, BossPrune, Kept
    <2>4. \A r \in told : IF r[1] = j THEN AnswerHolds(row, relation[j], r[2]) ELSE r \in told
      BY <2>2, PgToldKept
    <2>5. CallsInv'
      BY <1>3 DEF BossPrune, PgInv, CallsInv
    <2>6. boss' = [boss EXCEPT ![j] = row] /\ relation' = [relation EXCEPT ![j] = relation[j]]
          /\ ended' = [ended EXCEPT ![j] = ended[j]] /\ told' = told /\ accepted' = accepted
      BY <1>3, <2>1 DEF BossPrune, PgInv, PgTypes
    <2>. QED BY <1>0, <1>11, <2>2, <2>3, <2>4, <2>5, <2>6, PgJobStep
  <1>4. ASSUME NEW j \in PgJobs, NEW key \in PgKeys, NEW input \in PgInputs, PgEnqueue(j, key, input) PROVE PgInv'
    BY <1>4, PgEnqueueRight
  <1>5. ASSUME NEW c \in PgCalls, BeginPg(c) PROVE PgInv'
    <2>1. PICK j \in PgJobs : /\ Known(j)
             /\ \/ \E a \in 1 .. Attempt(j), ok \in BOOLEAN :
                     Locking(c, [pc |-> "lock", op |-> "settle", job |-> j, attempt |-> a, ok |-> ok, copy |-> boss[j].copy, tries |-> 1])
                \/ \E op \in {"cancel", "retry"} :
                     Locking(c, [pc |-> "lock", op |-> op, job |-> j, attempt |-> 0, ok |-> FALSE, copy |-> boss[j].copy, tries |-> 1])
      BY <1>5 DEF BeginPg
    <2>2. boss[j].copy \in Nat /\ boss[j].count \in Nat
      BY <1>0 DEF BossRow
    <2>3. Attempt(j) \in Nat
      BY <2>2 DEF Attempt
    <2>4. PICK call \in Transaction : Locking(c, call) /\ call.job = j
      <3>1. CASE \E a \in 1 .. Attempt(j), ok \in BOOLEAN :
                     Locking(c, [pc |-> "lock", op |-> "settle", job |-> j, attempt |-> a, ok |-> ok, copy |-> boss[j].copy, tries |-> 1])
        <4>1. PICK a \in 1 .. Attempt(j), ok \in BOOLEAN :
                Locking(c, [pc |-> "lock", op |-> "settle", job |-> j, attempt |-> a, ok |-> ok, copy |-> boss[j].copy, tries |-> 1])
          BY <3>1
        <4>2. a \in Nat
          BY <2>3
        <4>. QED BY <2>2, <4>1, <4>2 DEF Transaction
      <3>2. CASE \E op \in {"cancel", "retry"} :
                     Locking(c, [pc |-> "lock", op |-> op, job |-> j, attempt |-> 0, ok |-> FALSE, copy |-> boss[j].copy, tries |-> 1])
        <4>1. PICK op \in {"cancel", "retry"} :
                Locking(c, [pc |-> "lock", op |-> op, job |-> j, attempt |-> 0, ok |-> FALSE, copy |-> boss[j].copy, tries |-> 1])
          BY <3>2
        <4>2. PICK call : call = [pc |-> "lock", op |-> op, job |-> j, attempt |-> 0, ok |-> FALSE, copy |-> boss[j].copy, tries |-> 1]
          OBVIOUS
        <4>3. call \in Transaction /\ call.job = j
          BY <2>2, <4>2 DEF Transaction
        <4>. QED BY <4>1, <4>2, <4>3
      <3>. QED BY <2>1, <3>1, <3>2
    <2>5. CallsInv'
      BY <1>5, <2>1, <2>4, PgCallsStep DEF BeginPg, Locking, Known, PgInv
    <2>. QED BY <1>5, <1>11, <2>5, PgQuiet DEF BeginPg
  <1>13. ASSUME NEW c \in PgCalls, Finishes(c), \A j \in PgJobs : relation[j].input # "none" => relation'[j].input # "none"
        PROVE  CallsInv'
    BY <1>13, PgCallsStep DEF Finishes, Transaction, NoTransaction, PgInv
  <1>6. ASSUME NEW c \in PgCalls, Locked(c) PROVE PgInv'
    <2>. DEFINE j == pgCalls[c].job
    <2>1. j \in PgJobs /\ relation[j].input # "none" /\ pgCalls[c].op \in {"settle", "cancel", "retry"}
      BY <1>6, PgCallFacts DEF Locked
    <2>2. Kept(j) /\ Finishes(c) /\ UNCHANGED accepted
      BY <1>6 DEF Locked
    <2>3. CASE pgCalls[c].op = "settle"
      <3>1. SettleLocked(c, j)
        BY <1>6, <2>3 DEF Locked
      <3>2. CallsInv'
        BY <1>13, <2>2, <3>1 DEF SettleLocked
      <3>. HIDE DEF j
      <3>. QED BY <2>1, <2>2, <3>1, <3>2, SettlesRight
    <2>4. CASE pgCalls[c].op = "cancel"
      <3>1. CancelLocked(j)
        BY <1>6, <2>4 DEF Locked
      <3>. HIDE DEF j
      <3>2. relation' = relation \/ relation' = [relation EXCEPT ![j].cancel = TRUE]
        BY <3>1 DEF CancelLocked
      <3>3. \A i \in PgJobs : relation'[i].input = relation[i].input
        BY <1>0, <2>1, <3>2 DEF RelationRow, PgInv, PgTypes
      <3>4. CallsInv'
        BY <1>13, <2>2, <3>3
      <3>. QED BY <2>1, <2>2, <3>1, <3>4, CancelsRight
    <2>5. CASE pgCalls[c].op = "retry"
      <3>1. RetryLocked(j)
        BY <1>6, <2>5 DEF Locked
      <3>. HIDE DEF j
      <3>2. relation' = relation \/ relation' = [relation EXCEPT ![j].cancel = FALSE]
        BY <3>1 DEF RetryLocked
      <3>3. \A i \in PgJobs : relation'[i].input = relation[i].input
        BY <1>0, <2>1, <3>2 DEF RelationRow, PgInv, PgTypes
      <3>4. CallsInv'
        BY <1>13, <2>2, <3>3
      <3>. QED BY <2>1, <2>2, <3>1, <3>4, RetriesRight
    <2>. QED BY <2>1, <2>3, <2>4, <2>5
  <1>7. ASSUME NEW c \in PgCalls, MissesLock(c) PROVE PgInv'
    <2>1. PICK call : call = [pgCalls[c] EXCEPT !.pc = "look"]
      OBVIOUS
    <2>2. pgCalls[c] \in Transaction /\ pgCalls[c].pc = "lock"
      BY <1>7, PgCallFacts DEF MissesLock
    <2>3. call \in Transaction /\ call.job = pgCalls[c].job
      BY <2>1, <2>2 DEF Transaction, NoTransaction
    <2>4. pgCalls' = [pgCalls EXCEPT ![c] = call]
      BY <1>7, <2>1 DEF MissesLock, PgInv, CallsInv
    <2>5. CallsInv'
      <3>1. pgCalls[c].job \in PgJobs /\ relation[pgCalls[c].job].input # "none"
        BY <2>2, PgCallFacts
      <3>2. CallsInv /\ relation' = relation
        BY <1>7 DEF MissesLock, PgInv
      <3>. QED BY <2>3, <2>4, <3>1, <3>2, PgCallsStep
    <2>. QED BY <1>7, <1>11, <2>5, PgQuiet DEF MissesLock
  <1>8. ASSUME NEW c \in PgCalls, LooksAgain(c) PROVE PgInv'
    <2>1. PICK j : j = pgCalls[c].job
      OBVIOUS
    <2>2. /\ pgCalls[c] \in Transaction /\ pgCalls[c].pc = "look" /\ pgCalls[c].tries \in Nat
          /\ j \in PgJobs /\ relation[j].input # "none"
      BY <1>8, <2>1, PgCallFacts DEF LooksAgain
    <2>3. boss[j].copy \in Nat /\ (boss[j].state = "absent" <=> relation[j].input = "none")
      BY <1>0, <2>2 DEF BossRow, RowsAgree
    <2>4. UNCHANGED <<boss, relation, ended, accepted>>
          /\ told' = told \cup (IF ~Retained(j) /\ pgCalls[c].op = "cancel" THEN {<<j, "missing">>} ELSE {})
      BY <1>8, <2>1 DEF LooksAgain
    <2>5. \A i \in PgJobs : relation[i].input # "none" => relation'[i].input # "none"
      BY <2>4
    <2>6. ASSUME Finishes(c) PROVE CallsInv'
      BY <1>13, <2>5, <2>6
    <2>7. ASSUME pgCalls' = [pgCalls EXCEPT ![c].pc = "lock", ![c].copy = boss[j].copy, ![c].tries = @ + 1]
          PROVE  CallsInv'
      <3>1. PICK tries \in Nat : tries = pgCalls[c].tries + 1
        BY <2>2
      <3>2. PICK call : call = [pgCalls[c] EXCEPT !.pc = "lock", !.copy = boss[j].copy, !.tries = tries]
        OBVIOUS
      <3>3. pgCalls[c] \in [pc : {"lock", "look"}, op : {"settle", "cancel", "retry"}, job : PgJobs, attempt : Nat, ok : BOOLEAN,
                            copy : Nat, tries : Nat]
        BY <2>2 DEF Transaction, NoTransaction
      <3>4. call \in Transaction /\ call.job = pgCalls[c].job
        BY <2>3, <3>1, <3>2, <3>3 DEF Transaction
      <3>5. pgCalls' = [pgCalls EXCEPT ![c] = call]
        BY <2>7, <3>1, <3>2 DEF PgInv, CallsInv
      <3>6. relation[call.job].input # "none" /\ CallsInv
        BY <2>1, <2>2, <3>4 DEF PgInv
      <3>. QED BY <2>5, <3>4, <3>5, <3>6, PgCallsStep
    <2>8. CallsInv'
      BY <1>8, <2>1, <2>6, <2>7 DEF LooksAgain
    <2>9. \A r \in told' : r \in told \/ AnswerHolds(boss[r[1]], relation[r[1]], r[2])
      <3>. SUFFICES ASSUME ~Retained(j) PROVE AnswerHolds(boss[j], relation[j], "missing")
        BY <2>4
      <3>. QED BY <2>2, <2>3 DEF AnswerHolds, Retained, Kept
    <2>10. told' \subseteq PgJobs \X Answers
      BY <1>11, <2>2, <2>4 DEF Answers
    <2>. QED BY <2>4, <2>8, <2>9, <2>10, PgQuiet
  <1>9. CASE UNCHANGED pgVars
    BY <1>9 DEF pgVars, PgInv, PgTypes, RelationInv, CallsInv, RowsAgree, AnswerHolds
  <1>. QED BY <1>1, <1>2, <1>3, <1>4, <1>5, <1>6, <1>7, <1>8, <1>9 DEF PgNext

(* What cancel has answered stays true, attempts end once and in order,    *)
(* and a key names one job for ever (postgres.ts), for any number of jobs, *)
(* transactions and attempts.                                              *)
THEOREM PostgresSound == PgSpec => []PostgresIsSound
  BY PgSound, PgInitInv, PgStepInv, PTL DEF PgSpec

-----------------------------------------------------------------------------
(***************************************************************************)
(* The realtime hub                                                        *)
(***************************************************************************)
(* What is queued is selected by recursion over the queue, and subscribers *)
(* are visited by a fold over a set: what the proofs need of both is first *)
(* shown by smallest counterexamples.                                      *)

(***************************************************************************)
(* Induction, for sets instead of predicates                               *)
(***************************************************************************)
LEMMA LeastNatural ==
  ASSUME NEW T \in SUBSET Nat, T # {} PROVE \E x \in T : \A y \in T : x <= y
<1>1. PICK x \in T : \A y \in T : ~(<<y, x>> \in OpToRel(<, Nat))
  BY NatLessThanWellFounded, WFMin
<1>2. OpToRel(<, Nat) = {ss \in Nat \X Nat : ss[1] < ss[2]} BY Zenon DEF OpToRel
<1>3. PICK R : R = OpToRel(<, Nat) OBVIOUS
<1>4. \A y \in T : ~(<<y, x>> \in R) BY Zenon, <1>1, <1>3
<1>5. R = {ss \in Nat \X Nat : ss[1] < ss[2]} BY Zenon, <1>2, <1>3
<1>6. ASSUME NEW y \in T PROVE x <= y
  <2>1. <<y, x>> \notin {ss \in Nat \X Nat : ss[1] < ss[2]} BY <1>4, <1>5
  <2>. QED BY <2>1
<1>. QED BY <1>6

(* What holds of 0 and of the successor of each number below n holds up to *)
(* n: the induction by which the definitions over a queue are reasoned     *)
(* about.                                                                  *)
LEMMA CountingUp ==
  ASSUME NEW n \in Nat, NEW X, 0 \in X, \A k \in 1..n : k - 1 \in X => k \in X
  PROVE  \A k \in 0..n : k \in X
<1>. DEFINE T == {k \in 0..n : k \notin X}
<1>1. SUFFICES ASSUME T # {} PROVE FALSE OBVIOUS
<1>0. T \in SUBSET Nat OBVIOUS
<1>2. PICK k \in T : \A j \in T : k <= j BY <1>0, <1>1, LeastNatural
<1>3. k \in 1..n BY <1>2
<1>4. k - 1 \in 0..n /\ k - 1 \notin T BY <1>2, <1>3
<1>. QED BY <1>2, <1>3, <1>4

Chosen(s) == CHOOSE x \in s : TRUE

(* A set of subsets that has each set which has it without its chosen      *)
(* element.                                                                *)
LEMMA GrowingSets ==
  ASSUME NEW S, IsFiniteSet(S), NEW X, {} \in X,
         \A s \in SUBSET S : s # {} /\ s \ {Chosen(s)} \in X => s \in X
  PROVE  SUBSET S \subseteq X
<1>0. \A s \in SUBSET S : s # {} => Chosen(s) \in s BY DEF Chosen
<1>1. \A s \in SUBSET S : IsFiniteSet(s) /\ Cardinality(s) \in Nat BY FS_Subset, FS_CardinalityType
<1>. DEFINE T == {Cardinality(s) : s \in {s \in SUBSET S : s \notin X}}
<1>2. SUFFICES ASSUME T # {} PROVE FALSE OBVIOUS
<1>3. T \in SUBSET Nat BY <1>1
<1>4. PICK n \in T : \A m \in T : n <= m BY <1>2, <1>3, LeastNatural
<1>5. PICK s \in SUBSET S : s \notin X /\ n = Cardinality(s) BY <1>4
<1>6. s # {} BY <1>5
<1>7. PICK r \in SUBSET S : r = s \ {Chosen(s)} OBVIOUS
<1>8. Cardinality(r) = n - 1 BY <1>0, <1>1, <1>5, <1>6, <1>7, FS_RemoveElement
<1>9. r \in X BY <1>1, <1>3, <1>4, <1>8
<1>. QED BY <1>5, <1>6, <1>7, <1>9

-----------------------------------------------------------------------------
(***************************************************************************)
(* The events of a queue about some subscriptions                          *)
(***************************************************************************)
KeptOf(q, us, F, n) == IF n = 0 THEN << >> ELSE IF q[n].sub \in us THEN Append(F[n - 1], q[n]) ELSE F[n - 1]
UpTo(q, us) == CHOOSE F : F = [n \in 0..Len(q) |-> KeptOf(q, us, F, n)]

LEMMA AboutIs == ASSUME NEW q, NEW us PROVE About(q, us) = UpTo(q, us)[Len(q)]
BY Zenon DEF About, UpTo, KeptOf

LEMMA UpToIs ==
  ASSUME NEW S, NEW q \in Seq(S), NEW us
  PROVE  /\ UpTo(q, us)[0] = << >>
         /\ \A n \in 1..Len(q) : UpTo(q, us)[n] = IF q[n].sub \in us THEN Append(UpTo(q, us)[n - 1], q[n])
                                                  ELSE UpTo(q, us)[n - 1]
<1>. DEFINE Good(F, n) == F = [k \in 0..n |-> KeptOf(q, us, F, k)]
            X == {n \in 0..Len(q) : \E F : Good(F, n)}
<1>0. Len(q) \in Nat OBVIOUS
<1>1. 0 \in X
  <2>1. PICK F : F = [k \in 0..0 |-> << >>] OBVIOUS
  <2>2. \A k \in 0..0 : k = 0 /\ KeptOf(q, us, F, k) = << >> BY DEF KeptOf
  <2>3. F = [k \in 0..0 |-> KeptOf(q, us, F, k)] BY <2>1, <2>2
  <2>. QED BY <1>0, <2>3
<1>2. ASSUME NEW n \in 1..Len(q), n - 1 \in X PROVE n \in X
  <2>1. PICK F : Good(F, n - 1) BY <1>2
  <2>2. PICK G : G = [k \in 0..n |-> IF k = n THEN KeptOf(q, us, F, n) ELSE F[k]] OBVIOUS
  <2>3. ASSUME NEW k \in 0..n PROVE G[k] = KeptOf(q, us, G, k)
    <3>1. CASE k = 0
      <4>1. G[k] = F[0] BY <1>0, <2>2, <3>1
      <4>2. F[0] = KeptOf(q, us, F, 0) BY <1>0, <2>1
      <4>. QED BY <3>1, <4>1, <4>2 DEF KeptOf
    <3>2. CASE k # 0
      <4>1. k - 1 \in 0..(n - 1) /\ k - 1 # n BY <1>0, <3>2
      <4>2. G[k - 1] = F[k - 1] BY <2>2, <4>1
      <4>3. G[k] = KeptOf(q, us, F, k)
        <5>1. CASE k = n BY <2>2, <5>1
        <5>2. CASE k # n
          <6>1. k \in 0..(n - 1) BY <1>0, <5>2
          <6>2. F[k] = KeptOf(q, us, F, k) BY <2>1, <6>1
          <6>. QED BY <2>2, <5>2, <6>2
        <5>. QED BY <5>1, <5>2
      <4>. QED BY <3>2, <4>2, <4>3 DEF KeptOf
    <3>. QED BY <3>1, <3>2
  <2>4. G = [k \in 0..n |-> KeptOf(q, us, G, k)] BY <2>2, <2>3
  <2>. QED BY <2>4
<1>3. Len(q) \in X
  <2>. HIDE DEF X
  <2>1. \A k \in 0..Len(q) : k \in X BY <1>0, <1>1, <1>2, CountingUp
  <2>. QED BY <1>0, <2>1
<1>4. \E F : F = [n \in 0..Len(q) |-> KeptOf(q, us, F, n)] BY <1>3
<1>5. PICK H : H = UpTo(q, us) OBVIOUS
<1>6. H = [n \in 0..Len(q) |-> KeptOf(q, us, H, n)] BY Zenon, <1>4, <1>5 DEF UpTo
<1>7. \A n \in 0..Len(q) : H[n] = KeptOf(q, us, H, n) BY <1>6
<1>. QED BY <1>0, <1>5, <1>7 DEF KeptOf

LEMMA AboutNothing == ASSUME NEW us PROVE About(<< >>, us) = << >>
<1>1. << >> \in Seq({}) /\ Len(<< >>) = 0 OBVIOUS
<1>2. UpTo(<< >>, us)[0] = << >> BY ZenonT(60), <1>1, UpToIs
<1>. QED BY <1>1, <1>2, AboutIs

(* What is selected of a queue, event by event.                            *)
LEMMA AboutAppend ==
  ASSUME NEW S, NEW q \in Seq(S), NEW e \in S, NEW us
  PROVE  About(Append(q, e), us) = IF e.sub \in us THEN Append(About(q, us), e) ELSE About(q, us)
<1>1. PICK r \in Seq(S) : r = Append(q, e) BY AppendProperties
<1>2. /\ Len(q) \in Nat /\ Len(r) = Len(q) + 1 /\ r[Len(q) + 1] = e
      /\ \A n \in 1..Len(q) : r[n] = q[n]
  BY <1>1
<1>3. PICK F : F = UpTo(q, us) OBVIOUS
<1>4. PICK R : R = UpTo(r, us) OBVIOUS
<1>5. /\ F[0] = << >>
      /\ \A n \in 1..Len(q) : F[n] = IF q[n].sub \in us THEN Append(F[n - 1], q[n]) ELSE F[n - 1]
  BY <1>3, UpToIs
<1>6. /\ R[0] = << >>
      /\ \A n \in 1..Len(r) : R[n] = IF r[n].sub \in us THEN Append(R[n - 1], r[n]) ELSE R[n - 1]
  BY <1>4, UpToIs
<1>. DEFINE X == {n \in 0..Len(q) : R[n] = F[n]}
<1>7. 0 \in X BY <1>2, <1>5, <1>6
<1>8. ASSUME NEW n \in 1..Len(q), n - 1 \in X PROVE n \in X
  <2>1. n \in 1..Len(r) /\ r[n] = q[n] BY <1>2
  <2>. QED BY <1>5, <1>6, <1>8, <2>1
<1>9. Len(q) \in X
  <2>. HIDE DEF X
  <2>1. \A k \in 0..Len(q) : k \in X BY <1>2, <1>7, <1>8, CountingUp
  <2>. QED BY <1>2, <2>1
<1>10. R[Len(r)] = IF e.sub \in us THEN Append(R[Len(q)], e) ELSE R[Len(q)]
  <2>1. Len(r) \in 1..Len(r) /\ Len(r) - 1 = Len(q) BY <1>2
  <2>. QED BY <1>2, <1>6, <2>1
<1>. QED BY <1>1, <1>3, <1>4, <1>9, <1>10, AboutIs

(* What is selected comes from the queue and is about us.                  *)
LEMMA AboutElements ==
  ASSUME NEW S, NEW q \in Seq(S), NEW us
  PROVE  /\ About(q, us) \in Seq(S)
         /\ \A i \in DOMAIN About(q, us) : About(q, us)[i].sub \in us
<1>1. PICK F : F = UpTo(q, us) OBVIOUS
<1>2. /\ F[0] = << >>
      /\ \A n \in 1..Len(q) : F[n] = IF q[n].sub \in us THEN Append(F[n - 1], q[n]) ELSE F[n - 1]
  BY <1>1, UpToIs
<1>3. Len(q) \in Nat OBVIOUS
<1>. DEFINE X == {n \in 0..Len(q) : F[n] \in Seq(S) /\ \A i \in DOMAIN F[n] : F[n][i].sub \in us}
<1>4. 0 \in X
  <2>1. << >> \in Seq(S) /\ DOMAIN << >> = {} BY EmptySeq, LenProperties
  <2>2. F[0] \in Seq(S) /\ DOMAIN F[0] = {} BY <1>2, <2>1
  <2>3. 0 \in 0..Len(q) BY <1>3
  <2>. QED BY <2>2, <2>3
<1>5. ASSUME NEW n \in 1..Len(q), n - 1 \in X PROVE n \in X
  <2>1. CASE q[n].sub \notin us BY <1>2, <1>5, <2>1
  <2>2. CASE q[n].sub \in us
    <3>1. PICK s \in Seq(S) : s = F[n - 1] BY <1>5
    <3>2. \A i \in DOMAIN s : s[i].sub \in us BY <1>5, <3>1
    <3>3. PICK e \in S : e = q[n] OBVIOUS
    <3>4. PICK t \in Seq(S) : t = Append(s, e) BY AppendProperties
    <3>5. ASSUME NEW i \in DOMAIN t PROVE t[i].sub \in us BY <2>2, <3>2, <3>3, <3>4
    <3>6. F[n] = t BY <1>2, <2>2, <3>1, <3>3, <3>4
    <3>. QED BY <3>5, <3>6
  <2>. QED BY <2>1, <2>2
<1>6. Len(q) \in X
  <2>. HIDE DEF X
  <2>1. \A k \in 0..Len(q) : k \in X BY <1>3, <1>4, <1>5, CountingUp
  <2>. QED BY <1>3, <2>1
<1>. QED BY <1>1, <1>6, AboutIs

(* What is about us is selected.                                           *)
LEMMA AboutComplete ==
  ASSUME NEW S, NEW q \in Seq(S), NEW us, NEW j \in DOMAIN q, q[j].sub \in us
  PROVE  \E i \in DOMAIN About(q, us) : About(q, us)[i] = q[j]
<1>1. PICK F : F = UpTo(q, us) OBVIOUS
<1>2. /\ F[0] = << >>
      /\ \A n \in 1..Len(q) : F[n] = IF q[n].sub \in us THEN Append(F[n - 1], q[n]) ELSE F[n - 1]
  BY <1>1, UpToIs
<1>3. Len(q) \in Nat /\ j \in 1..Len(q) OBVIOUS
<1>. DEFINE X == {n \in 0..Len(q) : F[n] \in Seq(S) /\ (n >= j => \E i \in DOMAIN F[n] : F[n][i] = q[j])}
<1>4. 0 \in X
  <2>1. << >> \in Seq(S) /\ DOMAIN << >> = {} BY EmptySeq, LenProperties
  <2>2. F[0] \in Seq(S) /\ DOMAIN F[0] = {} BY <1>2, <2>1
  <2>3. 0 \in 0..Len(q) /\ ~(0 >= j) BY <1>3
  <2>. QED BY <2>2, <2>3
<1>5. ASSUME NEW n \in 1..Len(q), n - 1 \in X PROVE n \in X
  <2>1. CASE q[n].sub \notin us
    <3>1. n # j BY <2>1
    <3>. QED BY <1>2, <1>3, <1>5, <2>1, <3>1
  <2>2. CASE q[n].sub \in us
    <3>1. PICK s \in Seq(S) : s = F[n - 1] BY <1>5
    <3>2. n - 1 >= j => \E i \in DOMAIN s : s[i] = q[j] BY <1>5, <3>1
    <3>3. PICK e \in S : e = q[n] OBVIOUS
    <3>4. PICK t \in Seq(S) : t = Append(s, e) BY AppendProperties
    <3>5. /\ \A i \in DOMAIN s : i \in DOMAIN t /\ t[i] = s[i]
          /\ Len(t) \in DOMAIN t /\ t[Len(t)] = e
      BY <3>4
    <3>6. F[n] = t BY <1>2, <2>2, <3>1, <3>3, <3>4
    <3>7. n >= j => \E i \in DOMAIN t : t[i] = q[j] BY <1>3, <3>2, <3>3, <3>5
    <3>. QED BY <3>6, <3>7
  <2>. QED BY <2>1, <2>2
<1>6. Len(q) \in X
  <2>. HIDE DEF X
  <2>1. \A k \in 0..Len(q) : k \in X BY <1>3, <1>4, <1>5, CountingUp
  <2>. QED BY <1>3, <2>1
<1>. QED BY <1>1, <1>3, <1>6, AboutIs

LEMMA AboutNobody == ASSUME NEW S, NEW q \in Seq(S) PROVE About(q, {}) = << >>
BY AboutElements, EmptySeq

LEMMA AboutAbout ==
  ASSUME NEW S, NEW q \in Seq(S), NEW us, NEW vs
  PROVE  About(About(q, us), vs) = About(q, us \cap vs)
<1>1. PICK F : F = UpTo(q, us) OBVIOUS
<1>2. PICK G : G = UpTo(q, us \cap vs) OBVIOUS
<1>3. /\ F[0] = << >>
      /\ \A n \in 1..Len(q) : F[n] = IF q[n].sub \in us THEN Append(F[n - 1], q[n]) ELSE F[n - 1]
  BY <1>1, UpToIs
<1>4. /\ G[0] = << >>
      /\ \A n \in 1..Len(q) : G[n] = IF q[n].sub \in us \cap vs THEN Append(G[n - 1], q[n]) ELSE G[n - 1]
  BY <1>2, UpToIs
<1>5. Len(q) \in Nat OBVIOUS
<1>. DEFINE X == {n \in 0..Len(q) : F[n] \in Seq(S) /\ About(F[n], vs) = G[n]}
<1>6. 0 \in X
  <2>1. << >> \in Seq(S) /\ DOMAIN << >> = {} BY EmptySeq, LenProperties
  <2>2. F[0] \in Seq(S) /\ About(F[0], vs) = G[0] BY <1>3, <1>4, <2>1, AboutNothing
  <2>3. 0 \in 0..Len(q) BY <1>5
  <2>. QED BY <2>2, <2>3
<1>7. ASSUME NEW n \in 1..Len(q), n - 1 \in X PROVE n \in X
  <2>1. PICK s \in Seq(S) : s = F[n - 1] BY <1>7
  <2>2. About(s, vs) = G[n - 1] BY <1>7, <2>1
  <2>3. PICK e \in S : e = q[n] OBVIOUS
  <2>4. About(Append(s, e), vs) = IF e.sub \in vs THEN Append(G[n - 1], e) ELSE G[n - 1] BY <2>2, AboutAppend
  <2>5. Append(s, e) \in Seq(S) OBVIOUS
  <2>6. F[n] = IF e.sub \in us THEN Append(s, e) ELSE s BY <1>3, <2>1, <2>3
  <2>7. G[n] = IF e.sub \in us \cap vs THEN Append(G[n - 1], e) ELSE G[n - 1] BY <1>4, <2>3
  <2>8. F[n] \in Seq(S) BY <2>5, <2>6
  <2>9. About(F[n], vs) = G[n]
    <3>1. CASE e.sub \in us BY <2>4, <2>6, <2>7, <3>1
    <3>2. CASE e.sub \notin us BY <2>2, <2>6, <2>7, <3>2
    <3>. QED BY <3>1, <3>2
  <2>. QED BY <2>8, <2>9
<1>8. Len(q) \in X
  <2>. HIDE DEF X
  <2>1. \A k \in 0..Len(q) : k \in X BY <1>5, <1>6, <1>7, CountingUp
  <2>. QED BY <1>5, <2>1
<1>. QED BY <1>1, <1>2, <1>8, AboutIs

LEMMA AboutFirst ==
  ASSUME NEW S, NEW q \in Seq(S), NEW e \in S, NEW us
  PROVE  About(<<e>> \o q, us) = IF e.sub \in us THEN <<e>> \o About(q, us) ELSE About(q, us)
<1>1. PICK r \in Seq(S) : r = <<e>> \o q
  <2>1. <<e>> \in Seq(S) OBVIOUS
  <2>. QED BY <2>1, ConcatProperties
<1>2. PICK p \in Seq(S) : p = IF e.sub \in us THEN <<e>> ELSE << >>
  <2>1. <<e>> \in Seq(S) /\ << >> \in Seq(S) BY EmptySeq
  <2>. QED BY <2>1
<1>3. PICK F : F = UpTo(q, us) OBVIOUS
<1>4. PICK R : R = UpTo(r, us) OBVIOUS
<1>5. /\ F[0] = << >>
      /\ \A n \in 1..Len(q) : F[n] = IF q[n].sub \in us THEN Append(F[n - 1], q[n]) ELSE F[n - 1]
  BY <1>3, UpToIs
<1>6. /\ R[0] = << >>
      /\ \A n \in 1..Len(r) : R[n] = IF r[n].sub \in us THEN Append(R[n - 1], r[n]) ELSE R[n - 1]
  BY <1>4, UpToIs
<1>7. Len(q) \in Nat /\ Len(r) = Len(q) + 1 /\ r[1] = e /\ \A n \in 1..Len(q) : r[n + 1] = q[n] BY <1>1
<1>. DEFINE X == {n \in 0..Len(q) : F[n] \in Seq(S) /\ R[n + 1] = p \o F[n]}
<1>8. 0 \in X
  <2>1. 1 \in 1..Len(r) BY <1>7
  <2>2. R[1] = IF r[1].sub \in us THEN Append(R[1 - 1], r[1]) ELSE R[1 - 1] BY <1>6, <2>1
  <2>3. R[1] = p
    <3>1. Append(<< >>, e) = <<e>> OBVIOUS
    <3>2. 1 - 1 = 0 OBVIOUS
    <3>3. R[1] = IF e.sub \in us THEN Append(<< >>, e) ELSE << >> BY <1>6, <1>7, <2>2, <3>2
    <3>. QED BY <1>2, <3>1, <3>3
  <2>4. p \o << >> = p BY ConcatEmptySeq
  <2>5. << >> \in Seq(S) BY EmptySeq
  <2>6. F[0] \in Seq(S) /\ R[0 + 1] = p \o F[0] BY <1>5, <2>3, <2>4, <2>5
  <2>7. 0 \in 0..Len(q) BY <1>7
  <2>. QED BY <2>6, <2>7
<1>9. ASSUME NEW n \in 1..Len(q), n - 1 \in X PROVE n \in X
  <2>1. PICK s \in Seq(S) : s = F[n - 1] BY <1>9
  <2>2. R[n] = p \o s BY <1>7, <1>9, <2>1
  <2>3. PICK x \in S : x = q[n] OBVIOUS
  <2>4. n + 1 \in 1..Len(r) /\ r[n + 1] = x BY <1>7, <2>3
  <2>5. R[n + 1] = IF x.sub \in us THEN Append(p \o s, x) ELSE p \o s
    <3>1. (n + 1) - 1 = n BY <1>7
    <3>2. R[n + 1] = IF r[n + 1].sub \in us THEN Append(R[(n + 1) - 1], r[n + 1]) ELSE R[(n + 1) - 1]
      BY <1>6, <2>4
    <3>. QED BY <2>2, <2>4, <3>1, <3>2
  <2>6. F[n] = IF x.sub \in us THEN Append(s, x) ELSE s BY <1>5, <2>1, <2>3
  <2>7. Append(p \o s, x) = p \o Append(s, x) 
    <3>1. <<x>> \in Seq(S) /\ p \o s \in Seq(S) BY ConcatProperties
    <3>2. Append(p \o s, x) = (p \o s) \o <<x>> BY <3>1, AppendIsConcat
    <3>3. Append(s, x) = s \o <<x>> BY ZenonT(60), AppendIsConcat
    <3>4. (p \o s) \o <<x>> = p \o (s \o <<x>>) BY SMTT(30), <3>1, ConcatAssociative
    <3>. QED BY <3>2, <3>3, <3>4
  <2>8. F[n] \in Seq(S) BY <2>6, AppendProperties
  <2>9. R[n + 1] = p \o F[n] BY <2>5, <2>6, <2>7
  <2>. QED BY <2>8, <2>9
<1>10. Len(q) \in X
  <2>. HIDE DEF X
  <2>1. \A k \in 0..Len(q) : k \in X BY <1>7, <1>8, <1>9, CountingUp
  <2>. QED BY <1>7, <2>1
<1>11. R[Len(r)] = p \o F[Len(q)] /\ F[Len(q)] \in Seq(S) BY <1>7, <1>10
<1>12. About(r, us) = p \o About(q, us) /\ About(q, us) \in Seq(S) BY <1>3, <1>4, <1>11, AboutIs
<1>. QED BY <1>1, <1>2, <1>12, ConcatEmptySeq

-----------------------------------------------------------------------------
(***************************************************************************)
(* The connection                                                          *)
(***************************************************************************)
Subs == Handles \cup {0}
Cursors == [g : Nat, s : Nat]
Kinds == {"none", "closed", "gap", "ready", "update", "heartbeat"}
Events == [kind : Kinds, sub : Subs, cursor : Cursors]
Conns == [open : BOOLEAN, queue : Seq(Events), terminal : Events, fresh : BOOLEAN]

(* A closed connection has no queue; its last event is about itself.       *)
ConnOk(c) == c \in Conns /\ c.terminal.sub = 0 /\ (~c.open => c.queue = << >>)
Queued(c, u) == About(c.queue, {u})
Closes(u) == Event("closed", u, NoCursor)

USE RealtimeAssumption

LEMMA EventsAre ==
  ASSUME NEW k \in Kinds, NEW u \in Subs, NEW cursor \in Cursors
  PROVE  /\ Event(k, u, cursor) \in Events
         /\ Event(k, u, cursor).kind = k /\ Event(k, u, cursor).sub = u /\ Event(k, u, cursor).cursor = cursor
BY DEF Event, Events

LEMMA NoCursorIs == NoCursor \in Cursors BY DEF NoCursor, Cursors
LEMMA ClosedIs ==
  ASSUME NEW u \in Subs
  PROVE  Closes(u) \in Events /\ Closes(u).kind = "closed" /\ Closes(u).sub = u
BY EventsAre, NoCursorIs DEF Closes, Kinds

LEMMA ShutIs ==
  ASSUME NEW c, ConnOk(c), NEW e \in Events, e.sub = 0
  PROVE  ConnOk(Shut(c, e)) /\ ~Shut(c, e).open /\ Shut(c, e).fresh = c.fresh
<1>1. CASE ~c.open BY <1>1 DEF Shut, ConnOk
<1>2. CASE c.open
  <2>1. PICK d : d = Shut(c, e) OBVIOUS
  <2>2. d = [c EXCEPT !.open = FALSE, !.queue = << >>, !.terminal = e] BY <1>2, <2>1 DEF Shut
  <2>3. << >> \in Seq(Events) BY EmptySeq
  <2>4. d = [open |-> FALSE, queue |-> << >>, terminal |-> e, fresh |-> c.fresh] BY <2>2 DEF ConnOk, Conns
  <2>5. d \in Conns BY <2>3, <2>4 DEF ConnOk, Conns
  <2>. QED BY <2>1, <2>4, <2>5 DEF ConnOk
<1>. QED BY <1>1, <1>2

(* push() closes the connection or adds the event.                         *)
LEMMA PushIs ==
  ASSUME NEW c, ConnOk(c), NEW e \in Events
  PROVE  /\ ConnOk(Push(c, e)) /\ Push(c, e).fresh = c.fresh
         /\ Push(c, e).open => c.open /\ Push(c, e).queue = Append(c.queue, e)
<1>. DEFINE d == Push(c, e)
<1>0. /\ Event("closed", 0, NoCursor) \in Events /\ Event("closed", 0, NoCursor).sub = 0
      /\ Event("gap", 0, NoCursor) \in Events /\ Event("gap", 0, NoCursor).sub = 0
  BY EventsAre, NoCursorIs DEF Kinds, Subs
<1>1. CASE ~c.open
  <2>1. Push(c, e) = c BY <1>1 DEF Push
  <2>. QED BY <1>1, <2>1
<1>2. CASE c.open /\ ~c.fresh
  <2>1. Push(c, e) = Shut(c, Event("closed", 0, NoCursor)) BY <1>2 DEF Push
  <2>. QED BY <1>0, <2>1, ShutIs
<1>3. CASE c.open /\ c.fresh /\ Len(c.queue) >= MaxBufferedEvents
  <2>1. Push(c, e) = Shut(c, Event("gap", 0, NoCursor)) BY <1>3 DEF Push
  <2>. QED BY <1>0, <2>1, ShutIs
<1>4. CASE c.open /\ c.fresh /\ ~(Len(c.queue) >= MaxBufferedEvents)
  <2>1. Push(c, e) = [c EXCEPT !.queue = Append(c.queue, e)] BY <1>4 DEF Push
  <2>2. Append(c.queue, e) \in Seq(Events) BY AppendProperties DEF ConnOk, Conns
  <2>. QED BY <1>4, <2>1, <2>2 DEF ConnOk, Conns
<1>. QED BY <1>1, <1>2, <1>3, <1>4 DEF ConnOk, Conns

LEMMA QueuedType ==
  ASSUME NEW c, ConnOk(c), NEW u
  PROVE  /\ Queued(c, u) \in Seq(Events)
         /\ \A i \in DOMAIN Queued(c, u) : Queued(c, u)[i].sub = u
         /\ ~c.open => Queued(c, u) = << >>
BY AboutElements, AboutNothing DEF ConnOk, Conns, Queued

LEMMA PushedAbout ==
  ASSUME NEW c, ConnOk(c), NEW e \in Events, Push(c, e).open, NEW u
  PROVE  Queued(Push(c, e), u) = IF u = e.sub THEN Append(Queued(c, u), e) ELSE Queued(c, u)
<1>1. c.queue \in Seq(Events) BY DEF ConnOk, Conns
<1>2. Push(c, e).queue = Append(c.queue, e) BY PushIs
<1>3. About(Append(c.queue, e), {u}) = IF e.sub \in {u} THEN Append(About(c.queue, {u}), e) ELSE About(c.queue, {u})
  <2>1. PICK us : us = {u} OBVIOUS
  <2>2. About(Append(c.queue, e), us) = IF e.sub \in us THEN Append(About(c.queue, us), e) ELSE About(c.queue, us)
    BY ZenonT(60), <1>1, AboutAppend
  <2>. QED BY <2>1, <2>2
<1>4. e.sub \in {u} <=> u = e.sub OBVIOUS
<1>. QED BY <1>2, <1>3, <1>4 DEF Queued

LEMMA PurgedAbout ==
  ASSUME NEW c, ConnOk(c), NEW u
  PROVE  /\ ConnOk(Purge(c, u)) /\ Purge(c, u).open = c.open /\ Purge(c, u).fresh = c.fresh
         /\ \A v \in Handles : Queued(Purge(c, u), v) = IF v = u THEN << >> ELSE Queued(c, v)
<1>1. PICK us : us = Subs \ {u} OBVIOUS
<1>2. Purge(c, u) = [c EXCEPT !.queue = About(c.queue, us)] BY <1>1 DEF Purge, Subs
<1>3. c.queue \in Seq(Events) BY DEF ConnOk, Conns
<1>4. About(c.queue, us) \in Seq(Events) BY <1>3, AboutElements
<1>5. ~c.open => About(c.queue, us) = << >> BY AboutNothing DEF ConnOk
<1>6. ConnOk(Purge(c, u)) /\ Purge(c, u).open = c.open /\ Purge(c, u).fresh = c.fresh
  BY <1>2, <1>4, <1>5 DEF ConnOk, Conns
<1>7. ASSUME NEW v \in Handles PROVE Queued(Purge(c, u), v) = IF v = u THEN << >> ELSE Queued(c, v)
  <2>1. Queued(Purge(c, u), v) = About(About(c.queue, us), {v}) BY <1>2 DEF ConnOk, Conns, Queued
  <2>2. Queued(Purge(c, u), v) = About(c.queue, us \cap {v}) BY <1>3, <2>1, AboutAbout
  <2>3. CASE v = u
    <3>1. us \cap {v} = {} BY <1>1, <2>3
    <3>. QED BY <1>3, <2>2, <2>3, <3>1, AboutNobody
  <2>4. CASE v # u
    <3>1. us \cap {v} = {v} BY <1>1, <2>4 DEF Subs
    <3>. QED BY <2>2, <2>4, <3>1 DEF Queued
  <2>. QED BY <2>3, <2>4
<1>. QED BY <1>6, <1>7

LEMMA RemovedAbout ==
  ASSUME NEW c, ConnOk(c), NEW u \in Handles
  PROVE  /\ ConnOk(Removed(c, u)) /\ Removed(c, u).fresh = c.fresh
         /\ Removed(c, u).open =>
              /\ c.open
              /\ \A v \in Handles : Queued(Removed(c, u), v) = IF v = u THEN <<Closes(u)>> ELSE Queued(c, v)
<1>1. PICK d : d = Purge(c, u) OBVIOUS
<1>2. /\ ConnOk(d) /\ d.open = c.open /\ d.fresh = c.fresh
      /\ \A v \in Handles : Queued(d, v) = IF v = u THEN << >> ELSE Queued(c, v)
  BY <1>1, PurgedAbout
<1>3. PICK e \in Events : e = Closes(u) /\ e.sub = u BY ClosedIs DEF Subs
<1>4. Removed(c, u) = Push(d, e) BY <1>1, <1>3 DEF Removed, Closes
<1>5. Append(<< >>, e) = <<e>> OBVIOUS
<1>6. ASSUME Push(d, e).open, NEW v \in Handles
      PROVE  Queued(Push(d, e), v) = IF v = u THEN <<e>> ELSE Queued(c, v)
  <2>1. Queued(Push(d, e), v) = IF v = e.sub THEN Append(Queued(d, v), e) ELSE Queued(d, v)
    BY <1>2, <1>6, PushedAbout
  <2>. QED BY <1>2, <1>3, <1>5, <2>1
<1>7. ConnOk(Push(d, e)) /\ Push(d, e).fresh = d.fresh /\ (Push(d, e).open => d.open) BY <1>2, PushIs
<1>. QED BY <1>2, <1>3, <1>4, <1>6, <1>7

(* What a delivery adds about u.                                           *)
News(u, cursor) ==
  CASE Reason(handles[u].cursor, cursor) = "none" -> <<Event("update", u, cursor)>>
    [] Reason(handles[u].cursor, cursor) = "out-of-order" -> <<Event("gap", u, cursor)>>
    [] OTHER -> <<Event("gap", u, cursor), Event("update", u, cursor)>>

LEMMA TwoInOrder == ASSUME NEW a, NEW b PROVE <<a>> \o <<b>> = <<a, b>>
<1>1. <<a>> \in Seq({a, b}) /\ <<b>> \in Seq({a, b}) /\ <<a, b>> \in Seq({a, b}) OBVIOUS
<1>2. PICK s \in Seq({a, b}) : s = <<a>> \o <<b>> BY <1>1, ConcatProperties
<1>3. Len(<<a>>) = 1 /\ Len(<<b>>) = 1 /\ Len(<<a, b>>) = 2 OBVIOUS
<1>4. Len(s) = 2 /\ \A i \in 1..2 : s[i] = IF i <= 1 THEN <<a>>[i] ELSE <<b>>[i - 1]
  BY <1>1, <1>2, <1>3, ConcatProperties
<1>5. s[1] = a /\ s[2] = b BY <1>4
<1>6. \A i \in 1..2 : s[i] = <<a, b>>[i]
  <2>1. \A i \in 1..2 : i = 1 \/ i = 2 OBVIOUS
  <2>. QED BY <1>5, <2>1
<1>. QED BY <1>1, <1>2, <1>3, <1>4, <1>6, SeqEqual

LEMMA ReasonIs ==
  ASSUME NEW a, NEW b PROVE Reason(a, b) \in {"none", "generation", "out-of-order", "sequence"}
BY DEF Reason

LEMMA HeardAbout ==
  ASSUME NEW c, ConnOk(c), NEW u \in Handles, NEW cursor \in Cursors
  PROVE  /\ ConnOk(Heard(c, u, cursor)) /\ Heard(c, u, cursor).fresh = c.fresh
         /\ Heard(c, u, cursor).open =>
              /\ c.open
              /\ \A v \in Handles : Queued(Heard(c, u, cursor), v) = IF v = u THEN Queued(c, v) \o News(u, cursor)
                                                                      ELSE Queued(c, v)
<1>1. PICK g \in Events : g = Event("gap", u, cursor) /\ g.sub = u BY EventsAre DEF Kinds, Subs
<1>2. PICK e \in Events : e = Event("update", u, cursor) /\ e.sub = u BY EventsAre DEF Kinds, Subs
<1>3. PICK reason : reason = Reason(handles[u].cursor, cursor) OBVIOUS
<1>4. PICK d : d = IF reason = "none" THEN c ELSE Push(c, g) OBVIOUS
<1>5. Heard(c, u, cursor) = IF reason = "out-of-order" THEN d ELSE Push(d, e) BY <1>1, <1>2, <1>3, <1>4 DEF Heard
<1>6. ConnOk(d) /\ d.fresh = c.fresh /\ (d.open => c.open) BY <1>4, PushIs
<1>7. ConnOk(Push(d, e)) /\ Push(d, e).fresh = c.fresh /\ (Push(d, e).open => d.open) BY <1>6, PushIs
<1>8. ASSUME Heard(c, u, cursor).open, NEW v \in Handles
      PROVE  Queued(Heard(c, u, cursor), v) = IF v = u THEN Queued(c, v) \o News(u, cursor) ELSE Queued(c, v)
  <2>0. d.open BY <1>5, <1>7, <1>8
  <2>1. PICK q \in Seq(Events) : q = Queued(c, v) BY QueuedType
  <2>2. q \o <<g>> = Append(q, g) /\ q \o <<e>> = Append(q, e) BY AppendIsConcat
  <2>3. Append(Append(q, g), e) = q \o <<g, e>>
    <3>1. Append(q, g) \in Seq(Events) /\ <<g>> \in Seq(Events) /\ <<e>> \in Seq(Events) BY AppendProperties
    <3>2. Append(Append(q, g), e) = (q \o <<g>>) \o <<e>> BY <2>2, <3>1, AppendIsConcat
    <3>3. (q \o <<g>>) \o <<e>> = q \o (<<g>> \o <<e>>) BY <3>1, ConcatAssociative
    <3>4. <<g>> \o <<e>> = <<g, e>> BY TwoInOrder
    <3>. QED BY <3>2, <3>3, <3>4
  <2>4. Queued(d, v) = IF v = u /\ reason # "none" THEN Append(q, g) ELSE q
    <3>1. CASE reason = "none" BY <1>4, <2>1, <3>1
    <3>2. CASE reason # "none" BY <1>1, <1>4, <2>0, <2>1, <3>2, PushedAbout
    <3>. QED BY <3>1, <3>2
  <2>5. CASE reason = "out-of-order"
    <3>1. News(u, cursor) = <<g>> BY <1>1, <1>3, <2>5 DEF News
    <3>. QED BY <1>5, <2>1, <2>2, <2>4, <2>5, <3>1
  <2>6. CASE reason # "out-of-order"
    <3>1. Heard(c, u, cursor) = Push(d, e) BY <1>5, <2>6
    <3>2. Queued(Push(d, e), v) = IF v = u THEN Append(Queued(d, v), e) ELSE Queued(d, v)
      BY <1>2, <1>6, <1>8, <3>1, PushedAbout
    <3>3. CASE reason = "none"
      <4>1. News(u, cursor) = <<e>> BY <1>2, <1>3, <3>3 DEF News
      <4>. QED BY <2>1, <2>2, <2>4, <3>1, <3>2, <3>3, <4>1
    <3>4. CASE reason # "none"
      <4>1. News(u, cursor) = <<g, e>> BY <1>1, <1>2, <1>3, <2>6, <3>4 DEF News
      <4>. QED BY <2>1, <2>3, <2>4, <3>1, <3>2, <3>4, <4>1
    <3>. QED BY <3>3, <3>4
  <2>. QED BY <2>5, <2>6
<1>9. ConnOk(Heard(c, u, cursor)) /\ Heard(c, u, cursor).fresh = c.fresh /\ (Heard(c, u, cursor).open => c.open)
  BY <1>5, <1>6, <1>7
<1>. QED BY <1>8, <1>9

-----------------------------------------------------------------------------
(***************************************************************************)
(* One subscription after the other                                        *)
(***************************************************************************)
Visit(d, u, gone, cursor) == IF u \in gone THEN Removed(d, u) ELSE Heard(d, u, cursor)
VisitOf(c, gone, cursor, F, s) == IF s = {} THEN c ELSE Visit(F[s \ {Chosen(s)}], Chosen(s), gone, cursor)
Visits(c, us, gone, cursor) == CHOOSE F : F = [s \in SUBSET us |-> VisitOf(c, gone, cursor, F, s)]

LEMMA VisitedIs ==
  ASSUME NEW c, NEW us, NEW gone, NEW cursor
  PROVE  Visited(c, us, gone, cursor) = Visits(c, us, gone, cursor)[us]
BY Zenon DEF Visited, FoldSet, MapThenFoldSet, Visits, VisitOf, Visit, Chosen

LEMMA VisitsIs ==
  ASSUME NEW us, IsFiniteSet(us), NEW c, NEW gone, NEW cursor
  PROVE  \A s \in SUBSET us : Visits(c, us, gone, cursor)[s] = VisitOf(c, gone, cursor, Visits(c, us, gone, cursor), s)
<1>0. \A s \in SUBSET us : IsFiniteSet(s) /\ Cardinality(s) \in Nat BY FS_Subset, FS_CardinalityType
<1>1. \A s \in SUBSET us : s # {} => Chosen(s) \in s BY DEF Chosen
<1>2. PICK N \in Nat : N = Cardinality(us) BY <1>0
<1>3. \A s \in SUBSET us : Cardinality(s) <= N BY <1>2, FS_Subset
<1>. DEFINE Small(n) == {s \in SUBSET us : Cardinality(s) <= n}
            Good(F, n) == F = [s \in Small(n) |-> VisitOf(c, gone, cursor, F, s)]
            X == {n \in 0..N : \E F : Good(F, n)}
<1>4. 0 \in X
  <2>1. PICK F : F = [s \in Small(0) |-> c] OBVIOUS
  <2>2. ASSUME NEW s \in Small(0) PROVE s = {}
    <3>1. Cardinality(s) = 0 BY <1>0
    <3>. QED BY <1>0, <3>1, FS_EmptySet
  <2>3. \A s \in Small(0) : F[s] = VisitOf(c, gone, cursor, F, s) BY <2>1, <2>2 DEF VisitOf
  <2>4. Good(F, 0) BY <2>1, <2>3
  <2>. HIDE DEF Good
  <2>. QED BY <1>2, <2>4
<1>5. ASSUME NEW n \in 1..N, n - 1 \in X PROVE n \in X
  <2>0. n \in Nat /\ n - 1 \in Nat /\ n - 1 <= n BY <1>2
  <2>1. PICK F : Good(F, n - 1) BY <1>5
  <2>2. PICK G : G = [s \in Small(n) |-> VisitOf(c, gone, cursor, F, s)] OBVIOUS
  <2>3. ASSUME NEW s \in Small(n - 1) PROVE G[s] = F[s]
    <3>1. s \in Small(n) BY <1>0, <2>0, <2>3
    <3>. QED BY <2>1, <2>2, <3>1
  <2>4. ASSUME NEW s \in Small(n) PROVE G[s] = VisitOf(c, gone, cursor, G, s)
    <3>1. CASE s = {} BY <2>2, <3>1 DEF VisitOf
    <3>2. CASE s # {}
      <4>1. s \ {Chosen(s)} \in SUBSET us /\ Cardinality(s \ {Chosen(s)}) = Cardinality(s) - 1
        BY <1>0, <1>1, <3>2, FS_RemoveElement
      <4>2. s \ {Chosen(s)} \in Small(n - 1) BY <1>0, <2>0, <4>1
      <4>3. G[s \ {Chosen(s)}] = F[s \ {Chosen(s)}] BY <2>3, <4>2
      <4>. QED BY <2>2, <3>2, <4>3 DEF VisitOf
    <3>. QED BY <3>1, <3>2
  <2>5. Good(G, n) BY <2>2, <2>4
  <2>. HIDE DEF Good
  <2>. QED BY <2>5
<1>6. N \in X
  <2>. HIDE DEF X
  <2>1. \A k \in 0..N : k \in X BY <1>4, <1>5, CountingUp
  <2>. QED BY <1>2, <2>1
<1>7. \E F : F = [s \in SUBSET us |-> VisitOf(c, gone, cursor, F, s)]
  <2>1. PICK F : Good(F, N) BY <1>6
  <2>2. Small(N) = SUBSET us BY <1>3
  <2>. QED BY <2>1, <2>2
<1>8. PICK H : H = Visits(c, us, gone, cursor) OBVIOUS
<1>9. H = [s \in SUBSET us |-> VisitOf(c, gone, cursor, H, s)] BY Zenon, <1>7, <1>8 DEF Visits
<1>10. \A s \in SUBSET us : H[s] = VisitOf(c, gone, cursor, H, s) BY <1>9
<1>. QED BY <1>8, <1>10

(* What is queued about v after s has been visited.                        *)
QueuedAfter(c, s, gone, cursor, v) ==
  IF v \notin s THEN Queued(c, v) ELSE IF v \in gone THEN <<Closes(v)>> ELSE Queued(c, v) \o News(v, cursor)
VisitOk(c, d, s, gone, cursor) ==
  /\ ConnOk(d) /\ d.fresh = c.fresh
  /\ d.open => c.open /\ \A v \in Handles : Queued(d, v) = QueuedAfter(c, s, gone, cursor, v)

LEMMA VisitedAbout ==
  ASSUME NEW c, ConnOk(c), NEW us \in SUBSET Handles, IsFiniteSet(us), NEW gone, NEW cursor \in Cursors
  PROVE  VisitOk(c, Visited(c, us, gone, cursor), us, gone, cursor)
<1>1. PICK F : F = Visits(c, us, gone, cursor) OBVIOUS
<1>2. \A s \in SUBSET us : F[s] = VisitOf(c, gone, cursor, F, s) BY <1>1, VisitsIs
<1>. DEFINE X == {s \in SUBSET us : VisitOk(c, F[s], s, gone, cursor)}
<1>3. {} \in X
  <2>1. F[{}] = c BY <1>2 DEF VisitOf
  <2>. QED BY <2>1 DEF VisitOk, QueuedAfter
<1>4. ASSUME NEW s \in SUBSET us, s # {}, s \ {Chosen(s)} \in X PROVE s \in X
  <2>1. PICK u \in s : u = Chosen(s) BY <1>4 DEF Chosen
  <2>2. PICK r : r = s \ {u} OBVIOUS
  <2>3. PICK d : d = F[r] OBVIOUS
  <2>4. VisitOk(c, d, r, gone, cursor) BY <1>4, <2>1, <2>2, <2>3
  <2>5. PICK e : e = F[s] OBVIOUS
  <2>6. e = IF u \in gone THEN Removed(d, u) ELSE Heard(d, u, cursor)
    BY <1>2, <1>4, <2>1, <2>2, <2>3, <2>5 DEF VisitOf, Visit
  <2>7. u \in Handles /\ u \notin r BY <2>2
  <2>8. /\ ConnOk(e) /\ e.fresh = c.fresh
        /\ e.open => /\ d.open
                     /\ \A v \in Handles : Queued(e, v) = IF v = u THEN IF u \in gone THEN <<Closes(u)>>
                                                                       ELSE Queued(d, v) \o News(u, cursor)
                                                          ELSE Queued(d, v)
    <3>1. CASE u \in gone BY <2>4, <2>6, <2>7, <3>1, RemovedAbout DEF VisitOk
    <3>2. CASE u \notin gone BY <2>4, <2>6, <2>7, <3>2, HeardAbout DEF VisitOk
    <3>. QED BY <3>1, <3>2
  <2>9. ASSUME e.open, NEW v \in Handles PROVE Queued(e, v) = QueuedAfter(c, s, gone, cursor, v)
    <3>1. Queued(d, v) = QueuedAfter(c, r, gone, cursor, v) BY <2>4, <2>8, <2>9 DEF VisitOk
    <3>2. CASE v = u BY <2>7, <2>8, <2>9, <3>1, <3>2 DEF QueuedAfter
    <3>3. CASE v # u
      <4>1. v \in s <=> v \in r BY <2>2, <3>3
      <4>. QED BY <2>8, <2>9, <3>1, <3>3, <4>1 DEF QueuedAfter
    <3>. QED BY <3>2, <3>3
  <2>. QED BY <2>4, <2>5, <2>8, <2>9 DEF VisitOk
<1>5. SUBSET us \subseteq X
  <2>. HIDE DEF X
  <2>. QED BY <1>3, <1>4, GrowingSets
<1>. QED BY <1>1, <1>5, VisitedIs

-----------------------------------------------------------------------------
(***************************************************************************)
(* What the client is told about a subscription                            *)
(***************************************************************************)
Honest(s) == \A i \in 2..Len(s) : s[i].kind = "update" => Follows(s[i - 1], s[i])
Last(s) == s[Len(s)]
Tells(e, cursor) == e.kind = "gap" \/ (e.kind \in {"ready", "update"} /\ e.cursor = cursor)

LEMMA HonestOne == ASSUME NEW e PROVE Honest(<<e>>)
<1>1. Len(<<e>>) = 1 /\ 2..1 = {} OBVIOUS
<1>. QED BY <1>1 DEF Honest

LEMMA HonestBeginning ==
  ASSUME NEW s \in Seq(Events), NEW t \in Seq(Events), Honest(s \o t) PROVE Honest(s)
<1>1. ASSUME NEW i \in 2..Len(s), s[i].kind = "update" PROVE Follows(s[i - 1], s[i])
  <2>1. i \in 2..Len(s \o t) /\ (s \o t)[i] = s[i] /\ (s \o t)[i - 1] = s[i - 1] BY LenProperties, ConcatProperties
  <2>. QED BY <1>1, <2>1 DEF Honest
<1>. QED BY <1>1 DEF Honest

LEMMA HonestAppend ==
  ASSUME NEW s \in Seq(Events), s # << >>, Honest(s), NEW e \in Events, e.kind = "update" => Follows(Last(s), e)
  PROVE  Append(s, e) \in Seq(Events) /\ Append(s, e) # << >> /\ Honest(Append(s, e)) /\ Last(Append(s, e)) = e
<1>1. PICK t \in Seq(Events) : t = Append(s, e) BY AppendProperties
<1>2. /\ Len(s) \in Nat \ {0} /\ Len(t) = Len(s) + 1 /\ t[Len(s) + 1] = e /\ t # << >>
      /\ \A i \in 1..Len(s) : t[i] = s[i]
  BY <1>1, AppendProperties, EmptySeq
<1>3. ASSUME NEW i \in 2..Len(t), t[i].kind = "update" PROVE Follows(t[i - 1], t[i])
  <2>1. CASE i = Len(s) + 1
    <3>1. t[i] = e /\ t[i - 1] = Last(s) BY <1>2, <2>1 DEF Last
    <3>. QED BY <1>3, <3>1
  <2>2. CASE i # Len(s) + 1
    <3>1. i \in 2..Len(s) /\ t[i] = s[i] /\ t[i - 1] = s[i - 1] BY <1>2, <2>2
    <3>. QED BY <1>3, <3>1 DEF Honest
  <2>. QED BY <2>1, <2>2
<1>. QED BY <1>1, <1>2, <1>3 DEF Honest, Last

LEMMA HonestRest ==
  ASSUME NEW a \in Events, NEW b \in Events, NEW t \in Seq(Events), Honest(<<a, b>> \o t)
  PROVE  Honest(<<b>> \o t) /\ Last(<<b>> \o t) = Last(<<a, b>> \o t)
<1>1. <<a, b>> \in Seq(Events) /\ <<b>> \in Seq(Events) /\ Len(<<a, b>>) = 2 /\ Len(<<b>>) = 1 OBVIOUS
<1>2. PICK s \in Seq(Events) : s = <<a, b>> \o t BY <1>1, ConcatProperties
<1>3. PICK r \in Seq(Events) : r = <<b>> \o t BY <1>1, ConcatProperties
<1>4. /\ Len(t) \in Nat /\ Len(s) = Len(t) + 2 /\ Len(r) = Len(t) + 1
      /\ \A i \in 1..Len(s) : s[i] = IF i <= 2 THEN <<a, b>>[i] ELSE t[i - 2]
      /\ \A i \in 1..Len(r) : r[i] = IF i <= 1 THEN <<b>>[i] ELSE t[i - 1]
  BY <1>1, <1>2, <1>3, LenProperties, ConcatProperties
<1>5. ASSUME NEW i \in 1..Len(r) PROVE r[i] = s[i + 1]
  <2>1. CASE i = 1
    <3>1. s[2] = b /\ r[1] = b BY <1>4
    <3>. QED BY <2>1, <3>1
  <2>2. CASE i # 1
    <3>1. i + 1 \in 1..Len(s) /\ ~(i + 1 <= 2) /\ ~(i <= 1) /\ (i + 1) - 2 = i - 1 BY <1>4, <2>2
    <3>2. r[i] = t[i - 1] BY <1>4, <3>1
    <3>3. s[i + 1] = t[(i + 1) - 2] BY <1>4, <3>1
    <3>. QED BY <3>1, <3>2, <3>3
  <2>. QED BY <2>1, <2>2
<1>6. ASSUME NEW i \in 2..Len(r), r[i].kind = "update" PROVE Follows(r[i - 1], r[i])
  <2>1. i \in 1..Len(r) /\ i - 1 \in 1..Len(r) /\ i + 1 \in 2..Len(s) /\ (i - 1) + 1 = i /\ (i + 1) - 1 = i BY <1>4
  <2>2. r[i] = s[i + 1] /\ r[i - 1] = s[i] BY <1>5, <2>1
  <2>3. s[i + 1].kind = "update" => Follows(s[(i + 1) - 1], s[i + 1]) BY <1>2, <2>1 DEF Honest
  <2>. QED BY <1>6, <2>1, <2>2, <2>3
<1>7. Last(r) = Last(s)
  <2>1. Len(r) \in 1..Len(r) /\ Len(r) + 1 = Len(s) BY <1>4
  <2>. QED BY <1>5, <2>1 DEF Last
<1>. QED BY <1>2, <1>3, <1>6, <1>7 DEF Honest

(* That a subscription is closed is honest after anything.                 *)
LEMMA HonestClosed ==
  ASSUME NEW e \in Events, NEW t \in Seq(Events), \A i \in DOMAIN t : t[i].kind = "closed"
  PROVE  Honest(<<e>> \o t)
<1>1. <<e>> \in Seq(Events) /\ Len(<<e>>) = 1 OBVIOUS
<1>2. PICK s \in Seq(Events) : s = <<e>> \o t BY <1>1, ConcatProperties
<1>3. /\ Len(t) \in Nat /\ Len(s) = Len(t) + 1
      /\ \A i \in 1..Len(s) : s[i] = IF i <= 1 THEN <<e>>[i] ELSE t[i - 1]
  BY <1>1, <1>2, LenProperties, ConcatProperties
<1>4. ASSUME NEW i \in 2..Len(s) PROVE s[i].kind = "closed"
  <2>1. i \in 1..Len(s) /\ ~(i <= 1) /\ i - 1 \in 1..Len(t) BY <1>3
  <2>2. s[i] = t[i - 1] BY <1>3, <2>1
  <2>3. i - 1 \in DOMAIN t BY <2>1, LenProperties
  <2>. QED BY <2>2, <2>3
<1>. QED BY <1>2, <1>4 DEF Honest

-----------------------------------------------------------------------------
(***************************************************************************)
(* The invariant of the realtime hub                                       *)
(***************************************************************************)
Pcs == {"none", "authorize", "current", "ready", "done"}
Handle == [pc : Pcs, listed : BOOLEAN, initializing : BOOLEAN, valid : BOOLEAN, renewing : BOOLEAN, cursor : Cursors]

Sent(u) == IF frame.sub = u THEN <<shown[u], frame>> ELSE <<shown[u]>>
Tale(u) == Sent(u) \o Queued(conn, u)
Up(h) == h.listed /\ ~h.initializing

(* Of a subscription that is up, the client is or will be told up to its   *)
(* cursor, or of a gap; of another nothing remains but that it is closed.  *)
SubOk(u) ==
  /\ handles[u].pc # "done" => handles[u].initializing
  /\ Honest(Tale(u))
  /\ \A i \in DOMAIN Queued(conn, u) : Queued(conn, u)[i].kind = "closed" \/ (conn.open /\ Up(handles[u]))
  /\ frame.sub = u => frame.kind = "closed" \/ ~handles[u].initializing
  /\ conn.open /\ Up(handles[u]) => Tells(Last(Tale(u)), handles[u].cursor)

StreamTypes == /\ topicLog \in Seq(Seq({"update", "revoke"})) /\ topicLog # << >>
               /\ ConnOk(conn) /\ handles \in [Handles -> Handle]
               /\ frame \in Events /\ shown \in [Handles -> Events]
Begun == {u \in Handles : handles[u].pc # "none"}

StreamInv ==
  /\ StreamTypes
  /\ realtime # "open" => ~conn.open
  /\ IsFiniteSet(Begun) /\ \A u \in Handles : handles[u].listed => u \in Begun
  /\ \A u \in Handles : SubOk(u)

LEMMA HandleFields ==
  ASSUME StreamInv, NEW u \in Handles
  PROVE  /\ handles[u] \in Handle /\ handles[u].pc \in Pcs /\ handles[u].listed \in BOOLEAN
         /\ handles[u].initializing \in BOOLEAN /\ handles[u].valid \in BOOLEAN
         /\ handles[u].renewing \in BOOLEAN /\ handles[u].cursor \in Cursors
BY DEF StreamInv, StreamTypes, Handle

LEMMA SentIs ==
  ASSUME StreamInv, NEW u \in Handles
  PROVE  /\ Sent(u) \in Seq(Events) /\ Sent(u) # << >> /\ Queued(conn, u) \in Seq(Events)
         /\ Tale(u) \in Seq(Events) /\ Tale(u) # << >>
<1>1. shown[u] \in Events /\ frame \in Events BY DEF StreamInv, StreamTypes
<1>2. Sent(u) \in Seq(Events) /\ Sent(u) # << >> BY <1>1 DEF Sent
<1>3. Queued(conn, u) \in Seq(Events) BY QueuedType DEF StreamInv, StreamTypes
<1>4. Len(Sent(u)) \in Nat \ {0} /\ Len(Queued(conn, u)) \in Nat BY <1>2, <1>3, EmptySeq, LenProperties
<1>5. Tale(u) \in Seq(Events) /\ Len(Tale(u)) # 0 BY <1>2, <1>3, <1>4, ConcatProperties DEF Tale
<1>. QED BY <1>2, <1>3, <1>5, EmptySeq

LEMMA StreamIs == ASSUME StreamInv, NEW u \in Handles PROVE Stream(u) = Tale(u)
<1>1. shown[u] \in Events /\ frame \in Events /\ conn.queue \in Seq(Events)
  BY DEF StreamInv, StreamTypes, ConnOk, Conns
<1>2. PICK q \in Seq(Events) : q = Queued(conn, u) BY SentIs
<1>3. About(<<frame>> \o conn.queue, {u}) = IF frame.sub \in {u} THEN <<frame>> \o q ELSE q
  <2>1. PICK p \in Seq(Events) : p = conn.queue BY <1>1
  <2>2. PICK e \in Events : e = frame BY <1>1
  <2>3. About(<<e>> \o p, {u}) = IF e.sub \in {u} THEN <<e>> \o About(p, {u}) ELSE About(p, {u}) BY AboutFirst
  <2>. QED BY <1>2, <2>1, <2>2, <2>3 DEF Queued
<1>4. CASE frame.sub = u
  <2>1. <<shown[u]>> \in Seq(Events) /\ <<frame>> \in Seq(Events) BY <1>1
  <2>2. (<<shown[u]>> \o <<frame>>) \o q = <<shown[u]>> \o (<<frame>> \o q) BY <2>1, ConcatAssociative
  <2>3. <<shown[u]>> \o <<frame>> = <<shown[u], frame>> BY TwoInOrder
  <2>. QED BY <1>2, <1>3, <1>4, <2>2, <2>3 DEF Stream, Tale, Sent
<1>5. CASE frame.sub # u BY <1>2, <1>3, <1>5 DEF Stream, Tale, Sent
<1>. QED BY <1>4, <1>5

LEMMA StreamInvIsHonest == StreamInv => StreamIsHonest
<1>. SUFFICES ASSUME StreamInv, NEW u \in Handles
              PROVE  /\ \A i \in 2..Len(Stream(u)) : Stream(u)[i].kind = "update" => Follows(Stream(u)[i - 1], Stream(u)[i])
                     /\ \A i \in DOMAIN conn.queue :
                          conn.queue[i].sub = u /\ conn.queue[i].kind # "closed" => Listed(u)
  BY DEF StreamIsHonest
<1>1. SubOk(u) BY DEF StreamInv
<1>2. Honest(Stream(u)) BY <1>1, StreamIs DEF SubOk
<1>3. ASSUME NEW i \in DOMAIN conn.queue, conn.queue[i].sub = u, conn.queue[i].kind # "closed" PROVE Listed(u)
  <2>1. conn.queue \in Seq(Events) BY DEF StreamInv, StreamTypes, ConnOk, Conns
  <2>2. conn.queue[i].sub \in {u} BY <1>3
  <2>3. PICK j \in DOMAIN Queued(conn, u) : Queued(conn, u)[j] = conn.queue[i]
    <3>1. PICK q \in Seq(Events) : q = conn.queue BY <2>1
    <3>2. PICK k \in DOMAIN q : k = i BY <1>3, <3>1
    <3>3. PICK us : us = {u} OBVIOUS
    <3>4. q[k].sub \in us BY <1>3, <3>1, <3>2, <3>3
    <3>5. \E j \in DOMAIN About(q, us) : About(q, us)[j] = q[k] BY <3>4, AboutComplete
    <3>. QED BY <3>1, <3>2, <3>3, <3>5 DEF Queued
  <2>. QED BY <1>1, <1>3, <2>3 DEF SubOk, Up, Listed
<1>. QED BY <1>2, <1>3 DEF Honest

LEMMA StreamStarts == RealtimeInit => StreamInv
<1>. SUFFICES ASSUME RealtimeInit PROVE StreamInv OBVIOUS
<1>1. NoEvent \in Events /\ NoEvent.sub = 0 BY EventsAre, NoCursorIs DEF NoEvent, Kinds, Subs
<1>2. NoHandle \in Handle BY NoCursorIs DEF NoHandle, Handle, Pcs
<1>3. topicLog \in Seq(Seq({"update", "revoke"})) /\ topicLog # << >>
  <2>1. << >> \in Seq({"update", "revoke"}) BY EmptySeq
  <2>. QED BY <2>1 DEF RealtimeInit
<1>4. ConnOk(conn)
  <2>1. << >> \in Seq(Events) BY EmptySeq
  <2>. QED BY <1>1, <2>1 DEF RealtimeInit, ConnOk, Conns
<1>5. StreamTypes BY <1>1, <1>2, <1>3, <1>4 DEF RealtimeInit, StreamTypes
<1>6. Begun = {} BY <1>2 DEF RealtimeInit, Begun, NoHandle
<1>7. ASSUME NEW u \in Handles PROVE SubOk(u) /\ ~handles[u].listed
  <2>1. handles[u] = NoHandle /\ shown[u] = NoEvent /\ frame.sub # u BY <1>1 DEF RealtimeInit
  <2>2. Queued(conn, u) = << >> BY AboutNothing DEF RealtimeInit, Queued
  <2>3. <<NoEvent>> \in Seq(Events) /\ <<NoEvent>> \o << >> = <<NoEvent>> BY <1>1, ConcatEmptySeq
  <2>4. Tale(u) = <<NoEvent>> BY <2>1, <2>2, <2>3 DEF Tale, Sent
  <2>5. Honest(Tale(u)) BY <2>4, HonestOne
  <2>6. DOMAIN Queued(conn, u) = {} BY <2>2
  <2>. QED BY <2>1, <2>5, <2>6 DEF SubOk, NoHandle, Up
<1>8. IsFiniteSet({}) BY FS_EmptySet
<1>. QED BY <1>5, <1>6, <1>7, <1>8 DEF StreamInv, RealtimeInit

-----------------------------------------------------------------------------
(***************************************************************************)
(* Steps that leave the response alone                                     *)
(***************************************************************************)
(* What such a step may do to what is queued about u.                      *)
Stays(u) == /\ Queued(conn, u)' = Queued(conn, u)
            /\ handles'[u].initializing = handles[u].initializing
            /\ \/ handles[u].initializing
               \/ handles'[u].listed = handles[u].listed /\ handles'[u].cursor = handles[u].cursor
Ends(u) == Queued(conn, u)' \in {<< >>, <<Closes(u)>>} /\ ~handles'[u].listed
Adds(u, e) == /\ Up(handles'[u]) /\ Queued(conn, u)' = Append(Queued(conn, u), e)
              /\ e.kind = "update" => Follows(Last(Tale(u)), e)
              /\ Tells(e, handles'[u].cursor)
AddsTwo(u, e, f) == /\ Up(handles'[u]) /\ Queued(conn, u)' = Queued(conn, u) \o <<e, f>>
                    /\ e.kind # "update" /\ (f.kind = "update" => Follows(e, f))
                    /\ Tells(f, handles'[u].cursor)
Moves(u) == \/ Stays(u) \/ Ends(u)
            \/ \E e \in Events : Adds(u, e)
            \/ \E e, f \in Events : AddsTwo(u, e, f)

(* The handles move on, at most one in its protocol.                       *)
HandlesMove ==
  /\ handles' \in [Handles -> Handle]
  /\ \A u \in Handles : /\ handles'[u].pc # "done" => handles'[u].initializing
                        /\ handles'[u].initializing => handles[u].initializing
                        /\ handles'[u].listed => handles'[u].pc # "none"
  /\ \E u : \A v \in Handles : v # u => handles'[v].pc = handles[v].pc

LEMMA BegunFinite == ASSUME StreamInv, HandlesMove PROVE IsFiniteSet(Begun')
<1>1. PICK u : \A v \in Handles : v # u => handles'[v].pc = handles[v].pc BY DEF HandlesMove
<1>2. PICK B : B = Begun OBVIOUS
<1>3. IsFiniteSet(B \cup {u}) BY <1>2, FS_AddElement DEF StreamInv
<1>4. Begun' \subseteq B \cup {u} BY <1>1, <1>2 DEF Begun
<1>. QED BY <1>3, <1>4, FS_Subset

LEMMA TwoAppended ==
  ASSUME NEW s \in Seq(Events), NEW q \in Seq(Events), NEW e \in Events, NEW f \in Events
  PROVE  /\ s \o Append(q, e) = Append(s \o q, e)
         /\ s \o (q \o <<e, f>>) = Append(Append(s \o q, e), f)
         /\ q \o <<e, f>> = Append(Append(q, e), f)
<1>1. <<e>> \in Seq(Events) /\ <<f>> \in Seq(Events) OBVIOUS
<1>2. ASSUME NEW r \in Seq(Events) PROVE Append(Append(r, e), f) = r \o <<e, f>>
  <2>1. Append(r, e) \in Seq(Events) /\ Append(r, e) = r \o <<e>> BY AppendProperties, AppendIsConcat
  <2>2. Append(Append(r, e), f) = (r \o <<e>>) \o <<f>> BY <2>1, AppendIsConcat
  <2>3. (r \o <<e>>) \o <<f>> = r \o (<<e>> \o <<f>>) BY <1>1, ConcatAssociative
  <2>. QED BY <2>2, <2>3, TwoInOrder
<1>3. PICK p \in Seq(Events) : p = s \o q BY ConcatProperties
<1>4. s \o Append(q, e) = Append(p, e)
  <2>1. Append(q, e) = q \o <<e>> /\ Append(p, e) = p \o <<e>> BY AppendIsConcat
  <2>2. (s \o q) \o <<e>> = s \o (q \o <<e>>) BY <1>1, ConcatAssociative
  <2>. QED BY <1>3, <2>1, <2>2
<1>5. s \o (q \o <<e, f>>) = p \o <<e, f>>
  <2>1. <<e, f>> \in Seq(Events) OBVIOUS
  <2>. QED BY <1>3, <2>1, ConcatAssociative
<1>. QED BY <1>2, <1>3, <1>4, <1>5

(* Each of these moves keeps a subscription in order.                      *)
LEMMA MovesKeep ==
  ASSUME StreamInv, HandlesMove, ConnOk(conn'), NEW u \in Handles, UNCHANGED <<frame, shown>>,
         conn.open, conn'.open, Moves(u)
  PROVE  SubOk(u)'
<1>1. SubOk(u) BY DEF StreamInv
<1>2. Sent(u)' = Sent(u) BY DEF Sent
<1>3. PICK s \in Seq(Events) : s = Sent(u) /\ s # << >> BY SentIs
<1>4. PICK q \in Seq(Events) : q = Queued(conn, u) BY SentIs
<1>5. PICK r \in Seq(Events) : r = Queued(conn, u)' BY QueuedType
<1>6. PICK t \in Seq(Events) : t = s \o q /\ t = Tale(u) /\ t # << >> BY <1>3, <1>4, SentIs DEF Tale
<1>7. Tale(u)' = s \o r BY <1>2, <1>3, <1>5 DEF Tale
<1>8. PICK h \in Handle : h = handles[u] BY HandleFields
<1>9. PICK k \in Handle : k = handles'[u] BY DEF HandlesMove
<1>10. /\ k.pc # "done" => k.initializing
       /\ k.initializing => h.initializing
       /\ h.initializing \in BOOLEAN /\ k.initializing \in BOOLEAN
  BY <1>8, <1>9 DEF HandlesMove, Handle
<1>11. frame'.sub = u => frame'.kind = "closed" \/ ~k.initializing BY <1>1, <1>8, <1>10 DEF SubOk
<1>12. Honest(t) /\ (Up(h) => Tells(Last(t), h.cursor)) BY <1>1, <1>6, <1>8 DEF SubOk
<1>13. \A i \in DOMAIN q : q[i].kind = "closed" \/ Up(h) BY <1>1, <1>4, <1>8 DEF SubOk
<1>14. SUFFICES /\ Honest(s \o r)
                /\ \A i \in DOMAIN r : r[i].kind = "closed" \/ Up(k)
                /\ Up(k) => Tells(Last(s \o r), k.cursor)
  BY <1>5, <1>7, <1>9, <1>10, <1>11 DEF SubOk
<1>15. CASE Stays(u)
  <2>1. r = q /\ k.initializing = h.initializing /\ (h.initializing \/ (k.listed = h.listed /\ k.cursor = h.cursor))
    BY <1>4, <1>5, <1>8, <1>9, <1>15 DEF Stays
  <2>2. Up(k) => Up(h) /\ k.cursor = h.cursor BY <2>1 DEF Up
  <2>3. Up(h) => Up(k) BY <2>1 DEF Up
  <2>. QED BY <1>6, <1>12, <1>13, <2>1, <2>2, <2>3
<1>16. CASE Ends(u)
  <2>1. ~Up(k) /\ r \in {<< >>, <<Closes(u)>>} BY <1>5, <1>9, <1>16 DEF Ends, Up
  <2>2. Honest(s) BY <1>6, <1>12, HonestBeginning
  <2>3. CASE r = << >>
    <3>1. s \o r = s /\ DOMAIN r = {} BY <2>3, ConcatEmptySeq
    <3>. QED BY <2>1, <2>2, <3>1
  <2>4. CASE r = <<Closes(u)>>
    <3>1. PICK e \in Events : e = Closes(u) /\ e.kind = "closed" BY ClosedIs DEF Subs
    <3>2. s \o r = Append(s, e) BY <2>4, <3>1, AppendIsConcat
    <3>3. Honest(s \o r) BY <1>3, <2>2, <3>1, <3>2, HonestAppend
    <3>4. \A i \in DOMAIN r : r[i] = e BY <2>4, <3>1
    <3>. QED BY <2>1, <3>1, <3>3, <3>4
  <2>. QED BY <2>1, <2>3, <2>4
<1>17. ASSUME NEW e \in Events, Adds(u, e)
       PROVE  /\ Honest(s \o r)
              /\ \A i \in DOMAIN r : r[i].kind = "closed" \/ Up(k)
              /\ Up(k) => Tells(Last(s \o r), k.cursor)
  <2>1. /\ Up(k) /\ r = Append(q, e)
        /\ e.kind = "update" => Follows(Last(t), e)
        /\ Tells(e, k.cursor)
    BY <1>4, <1>5, <1>6, <1>9, <1>17 DEF Adds
  <2>2. s \o r = Append(t, e)
    <3>1. s \o Append(q, e) = Append(s \o q, e) BY TwoAppended
    <3>. QED BY <1>6, <2>1, <3>1
  <2>3. Honest(Append(t, e)) /\ Last(Append(t, e)) = e BY <1>6, <1>12, <2>1, HonestAppend
  <2>. QED BY <2>1, <2>2, <2>3
<1>18. ASSUME NEW e \in Events, NEW f \in Events, AddsTwo(u, e, f)
       PROVE  /\ Honest(s \o r)
              /\ \A i \in DOMAIN r : r[i].kind = "closed" \/ Up(k)
              /\ Up(k) => Tells(Last(s \o r), k.cursor)
  <2>1. /\ Up(k) /\ r = q \o <<e, f>>
        /\ e.kind # "update" /\ (f.kind = "update" => Follows(e, f))
        /\ Tells(f, k.cursor)
    BY <1>4, <1>5, <1>9, <1>18 DEF AddsTwo
  <2>2. s \o r = Append(Append(t, e), f)
    <3>1. s \o (q \o <<e, f>>) = Append(Append(s \o q, e), f)
      <4>1. PICK b : b = <<e, f>> OBVIOUS
      <4>2. s \o (q \o b) = Append(Append(s \o q, e), f) BY ZenonT(60), <4>1, TwoAppended
      <4>. QED BY <4>1, <4>2
    <3>. QED BY <1>6, <2>1, <3>1
  <2>3. PICK a \in Seq(Events) : a = Append(t, e) /\ a # << >> /\ Honest(a) /\ Last(a) = e
    BY <1>6, <1>12, <2>1, HonestAppend
  <2>4. Honest(Append(a, f)) /\ Last(Append(a, f)) = f BY <2>1, <2>3, HonestAppend
  <2>. QED BY <2>1, <2>2, <2>3, <2>4
<1>. QED BY <1>15, <1>16, <1>17, <1>18 DEF Moves

(* On a connection that is closed nothing but the last event is sent.      *)
LEMMA ClosedKeeps ==
  ASSUME StreamInv, HandlesMove, ConnOk(conn'), NEW u \in Handles, UNCHANGED <<frame, shown>>, ~conn'.open
  PROVE  SubOk(u)'
<1>1. SubOk(u) BY DEF StreamInv
<1>2. Sent(u)' = Sent(u) BY DEF Sent
<1>3. PICK s \in Seq(Events) : s = Sent(u) BY SentIs
<1>4. PICK q \in Seq(Events) : q = Queued(conn, u) BY SentIs
<1>5. Queued(conn, u)' = << >> BY QueuedType
<1>6. Tale(u)' = s BY <1>2, <1>3, <1>5, ConcatEmptySeq DEF Tale
<1>7. Honest(s) BY <1>1, <1>3, <1>4, HonestBeginning DEF SubOk, Tale
<1>8. /\ handles'[u].pc # "done" => handles'[u].initializing
      /\ handles'[u].initializing => handles[u].initializing
  BY DEF HandlesMove
<1>9. handles[u].initializing \in BOOLEAN /\ handles'[u].initializing \in BOOLEAN
  BY HandleFields DEF HandlesMove, Handle
<1>10. frame'.sub = u => frame'.kind = "closed" \/ ~handles'[u].initializing BY <1>1, <1>8, <1>9 DEF SubOk
<1>11. DOMAIN << >> = {} OBVIOUS
<1>. QED BY <1>5, <1>6, <1>7, <1>8, <1>10, <1>11 DEF SubOk

LEMMA StreamStep ==
  ASSUME StreamInv, HandlesMove, ConnOk(conn'), conn'.open => conn.open, UNCHANGED <<frame, shown>>,
         topicLog' \in Seq(Seq({"update", "revoke"})), topicLog' # << >>, realtime' # "open" => ~conn'.open,
         conn'.open => \A u \in Handles : Moves(u)
  PROVE  StreamInv'
<1>1. \A u \in Handles : SubOk(u)' BY MovesKeep, ClosedKeeps
<1>2. StreamTypes' BY DEF StreamInv, StreamTypes, HandlesMove
<1>3. IsFiniteSet(Begun') BY BegunFinite
<1>4. \A u \in Handles : handles'[u].listed => u \in Begun' BY DEF HandlesMove, Begun
<1>. QED BY <1>1, <1>2, <1>3, <1>4 DEF StreamInv

(* How the handles move in the actions.                                    *)
LEMMA HandlesStay == ASSUME StreamInv, UNCHANGED handles PROVE HandlesMove
BY DEF StreamInv, StreamTypes, SubOk, HandlesMove, Begun

LEMMA WithoutIs ==
  ASSUME StreamInv, NEW us
  PROVE  /\ Without(us) \in [Handles -> Handle]
         /\ \A u \in Handles : /\ Without(us)[u].pc = handles[u].pc
                               /\ Without(us)[u].initializing = handles[u].initializing
                               /\ Without(us)[u].listed = (handles[u].listed /\ u \notin us)
                               /\ Without(us)[u].valid = handles[u].valid
                               /\ Without(us)[u].renewing = handles[u].renewing
                               /\ Without(us)[u].cursor = handles[u].cursor
<1>1. ASSUME NEW u \in Handles
      PROVE  /\ Without(us)[u] \in Handle
             /\ Without(us)[u].pc = handles[u].pc
             /\ Without(us)[u].initializing = handles[u].initializing
             /\ Without(us)[u].listed = (handles[u].listed /\ u \notin us)
             /\ Without(us)[u].valid = handles[u].valid
             /\ Without(us)[u].renewing = handles[u].renewing
             /\ Without(us)[u].cursor = handles[u].cursor
  <2>1. PICK h \in Handle : h = handles[u] BY HandleFields
  <2>2. h.listed \in BOOLEAN BY <2>1, HandleFields
  <2>3. CASE u \in us
    <3>1. Without(us)[u] = [h EXCEPT !.listed = FALSE] BY <2>1, <2>3 DEF Without
    <3>. QED BY <2>1, <2>3, <3>1 DEF Handle
  <2>4. CASE u \notin us
    <3>1. Without(us)[u] = h BY <2>1, <2>4 DEF Without
    <3>. QED BY <2>1, <2>2, <2>4, <3>1
  <2>. QED BY <2>3, <2>4
<1>2. \A u \in Handles : Without(us)[u] \in Handle BY <1>1
<1>3. Without(us) = [u \in Handles |-> Without(us)[u]] BY DEF Without
<1>4. PICK W : W = Without(us) OBVIOUS
<1>5. W \in [Handles -> Handle] BY <1>2, <1>3, <1>4
<1>. QED BY <1>1, <1>4, <1>5

LEMMA WithoutMoves == ASSUME StreamInv, NEW us, handles' = Without(us) PROVE HandlesMove
<1>1. \A u \in Handles : /\ handles'[u].pc = handles[u].pc
                         /\ handles'[u].initializing = handles[u].initializing
                         /\ handles'[u].listed => handles[u].listed
  <2>1. TAKE u \in Handles
  <2>3. Without(us)[u].pc = handles[u].pc BY WithoutIs
  <2>4. Without(us)[u].initializing = handles[u].initializing BY WithoutIs
  <2>5. Without(us)[u].listed => handles[u].listed BY Zenon, WithoutIs
  <2>. QED BY <2>3, <2>4, <2>5
<1>2. handles' \in [Handles -> Handle] BY WithoutIs
<1>3. \A u \in Handles : (handles[u].pc # "done" => handles[u].initializing) /\ (handles[u].listed => handles[u].pc # "none")
  BY DEF StreamInv, SubOk, Begun
<1>. QED BY <1>1, <1>2, <1>3 DEF HandlesMove

LEMMA OneMoves ==
  ASSUME StreamInv, NEW u \in Handles, NEW k \in Handle, handles' = [handles EXCEPT ![u] = k],
         k.pc # "done" => k.initializing, k.initializing => handles[u].initializing, k.listed => k.pc # "none"
  PROVE  HandlesMove /\ handles'[u] = k /\ \A v \in Handles : v # u => handles'[v] = handles[v]
<1>1. handles \in [Handles -> Handle] BY DEF StreamInv, StreamTypes
<1>2. handles' \in [Handles -> Handle] /\ handles'[u] = k /\ \A v \in Handles : v # u => handles'[v] = handles[v]
  BY <1>1
<1>3. \A v \in Handles : (handles[v].pc # "done" => handles[v].initializing) /\ (handles[v].listed => handles[v].pc # "none")
  BY DEF StreamInv, SubOk, Begun
<1>4. ASSUME NEW v \in Handles
      PROVE  /\ handles'[v].pc # "done" => handles'[v].initializing
             /\ handles'[v].initializing => handles[v].initializing
             /\ handles'[v].listed => handles'[v].pc # "none"
  <2>1. CASE v = u BY <1>2, <2>1
  <2>2. CASE v # u BY <1>2, <1>3, <2>2
  <2>. QED BY <2>1, <2>2
<1>5. \A v \in Handles : v # u => handles'[v].pc = handles[v].pc BY <1>2
<1>. QED BY <1>2, <1>4, <1>5 DEF HandlesMove

LEMMA Untouched ==
  ASSUME StreamInv, NEW u \in Handles, handles'[u] = handles[u], Queued(conn, u)' = Queued(conn, u) PROVE Moves(u)
BY DEF Moves, Stays

LEMMA QuietStep ==
  ASSUME StreamInv, HandlesMove, ConnOk(conn'), conn'.open => conn.open,
         UNCHANGED <<topicLog, frame, shown, realtime>>,
         conn'.open => \A u \in Handles : Moves(u)
  PROVE  StreamInv'
<1>1. topicLog' \in Seq(Seq({"update", "revoke"})) /\ topicLog' # << >> BY DEF StreamInv, StreamTypes
<1>2. realtime' # "open" => ~conn'.open BY DEF StreamInv
<1>. QED BY <1>1, <1>2, StreamStep

LEMMA CurrentIs == ASSUME StreamInv PROVE Current \in Cursors
<1>1. topicLog \in Seq(Seq({"update", "revoke"})) /\ topicLog # << >> BY DEF StreamInv, StreamTypes
<1>2. Len(topicLog) \in Nat \ {0} BY <1>1, EmptySeq
<1>3. topicLog[Len(topicLog)] \in Seq({"update", "revoke"}) BY <1>1, <1>2, ElementOfSeq
<1>4. Len(topicLog[Len(topicLog)]) \in Nat BY <1>3, LenProperties
<1>. QED BY <1>2, <1>4 DEF Current, Cursors

LEMMA ConnIs == ASSUME StreamInv PROVE ConnOk(conn) /\ conn.open \in BOOLEAN /\ conn.fresh \in BOOLEAN
BY DEF StreamInv, StreamTypes, ConnOk, Conns

LEMMA EndIs ==
  /\ Event("closed", 0, NoCursor) \in Events /\ Event("closed", 0, NoCursor).sub = 0
  /\ NoEvent \in Events /\ NoEvent.sub = 0
  /\ Event("gap", 0, NoCursor) \in Events /\ Event("gap", 0, NoCursor).sub = 0
  /\ Event("heartbeat", 0, NoCursor) \in Events /\ Event("heartbeat", 0, NoCursor).sub = 0
BY EventsAre, NoCursorIs DEF NoEvent, Kinds, Subs

-----------------------------------------------------------------------------
(***************************************************************************)
(* One subscription                                                        *)
(***************************************************************************)
(* Only the handle moves, and not what it may be told.                     *)
LEMMA HandleOnly ==
  ASSUME StreamInv, NEW u \in Handles, NEW k \in Handle, handles' = [handles EXCEPT ![u] = k],
         k.pc # "done" => k.initializing, k.initializing = handles[u].initializing, k.listed => k.pc # "none",
         handles[u].initializing \/ (k.listed = handles[u].listed /\ k.cursor = handles[u].cursor),
         UNCHANGED <<topicLog, conn, frame, shown, realtime>>
  PROVE  StreamInv'
<1>1. HandlesMove /\ handles'[u] = k /\ \A v \in Handles : v # u => handles'[v] = handles[v] BY OneMoves
<1>2. \A v \in Handles : Queued(conn, v)' = Queued(conn, v) BY DEF Queued
<1>3. ASSUME NEW v \in Handles PROVE Moves(v)
  <2>1. CASE v = u BY <1>1, <1>2, <2>1 DEF Moves, Stays
  <2>2. CASE v # u BY <1>1, <1>2, <2>2, Untouched
  <2>. QED BY <2>1, <2>2
<1>. QED BY <1>1, <1>3, ConnIs, QuietStep

LEMMA SubscribeKeeps == ASSUME StreamInv, NEW u \in Handles, Subscribe(u) PROVE StreamInv'
<1>1. PICK h \in Handle : h = handles[u] BY HandleFields
<1>2. h.pc = "none" /\ h.initializing BY <1>1 DEF Subscribe, StreamInv, SubOk
<1>3. PICK k : k = [h EXCEPT !.pc = "authorize", !.listed = TRUE] OBVIOUS
<1>4. k \in Handle BY <1>1, <1>3 DEF Handle, Pcs
<1>5. k.pc = "authorize" /\ k.initializing BY <1>1, <1>2, <1>3 DEF Handle
<1>6. handles' = [handles EXCEPT ![u] = k] BY <1>1, <1>3 DEF Subscribe
<1>. QED BY <1>1, <1>2, <1>4, <1>5, <1>6, HandleOnly DEF Subscribe

LEMMA CurrentReadKeeps == ASSUME StreamInv, NEW u \in Handles, CurrentRead(u) PROVE StreamInv'
<1>1. PICK h \in Handle : h = handles[u] BY HandleFields
<1>2. h.pc = "current" /\ h.initializing BY <1>1 DEF CurrentRead, StreamInv, SubOk
<1>3. PICK c \in Cursors : c = Current BY CurrentIs
<1>4. PICK k : k = [h EXCEPT !.pc = "ready", !.cursor = c] OBVIOUS
<1>5. k \in Handle BY <1>1, <1>4 DEF Handle, Pcs
<1>6. k.pc = "ready" /\ k.initializing BY <1>1, <1>2, <1>4 DEF Handle
<1>7. handles' = [handles EXCEPT ![u] = k] BY <1>1, <1>3, <1>4 DEF CurrentRead
<1>. QED BY <1>1, <1>2, <1>5, <1>6, <1>7, HandleOnly DEF CurrentRead

LEMMA GrantExpiresKeeps == ASSUME StreamInv, NEW u \in Handles, GrantExpires(u) PROVE StreamInv'
<1>1. PICK h \in Handle : h = handles[u] BY HandleFields
<1>2. (h.pc # "done" => h.initializing) /\ (h.listed => h.pc # "none") BY <1>1 DEF StreamInv, SubOk, Begun
<1>3. PICK k : k = [h EXCEPT !.valid = FALSE] OBVIOUS
<1>4. k \in Handle BY <1>1, <1>3 DEF Handle
<1>5. k.pc = h.pc /\ k.initializing = h.initializing /\ k.listed = h.listed /\ k.cursor = h.cursor BY <1>1, <1>3 DEF Handle
<1>6. handles' = [handles EXCEPT ![u] = k] BY <1>1, <1>3 DEF GrantExpires
<1>7. (k.pc # "done" => k.initializing) /\ (k.listed => k.pc # "none") BY <1>2, <1>5
<1>8. UNCHANGED <<topicLog, conn, frame, shown, realtime>> BY DEF GrantExpires
<1>9. k.initializing = handles[u].initializing /\ k.listed = handles[u].listed /\ k.cursor = handles[u].cursor
  BY <1>1, <1>5
<1>. QED BY <1>4, <1>6, <1>7, <1>8, <1>9, HandleOnly

(* A call that finds the connection closed leaves it closed.               *)
LEMMA NotLiveKeeps ==
  ASSUME StreamInv, NEW u \in Handles, ~LiveSub, NotLive(u), UNCHANGED <<topicLog, frame, shown, realtime>>
  PROVE  StreamInv'
<1>1. PICK h \in Handle : h = handles[u] BY HandleFields
<1>2. PICK k : k = [h EXCEPT !.listed = FALSE, !.pc = "done"] OBVIOUS
<1>3. k \in Handle BY <1>1, <1>2 DEF Handle, Pcs
<1>4. k.pc = "done" /\ k.initializing = h.initializing /\ ~k.listed BY <1>1, <1>2 DEF Handle
<1>5. handles' = [handles EXCEPT ![u] = k] BY <1>1, <1>2 DEF NotLive
<1>6. HandlesMove BY <1>1, <1>3, <1>4, <1>5, OneMoves
<1>7. ConnOk(conn') /\ ~conn'.open
  <2>1. CASE realtime = "open" /\ conn.open
    <3>1. conn' = Shut(conn, Event("closed", 0, NoCursor)) BY <2>1 DEF NotLive
    <3>. QED BY <3>1, ConnIs, EndIs, ShutIs
  <2>2. CASE ~(realtime = "open" /\ conn.open)
    <3>1. conn' = conn BY <2>2 DEF NotLive
    <3>. QED BY <2>2, <3>1, ConnIs DEF StreamInv
  <2>. QED BY <2>1, <2>2
<1>. QED BY <1>6, <1>7, QuietStep

LEMMA GivesKeeps ==
  ASSUME StreamInv, NEW u \in Handles, Gives(u), UNCHANGED <<topicLog, frame, shown, realtime>> PROVE StreamInv'
<1>1. PICK h \in Handle : h = handles[u] BY HandleFields
<1>2. PICK k : k = [h EXCEPT !.listed = FALSE, !.pc = "done"] OBVIOUS
<1>3. k \in Handle BY <1>1, <1>2 DEF Handle, Pcs
<1>4. k.pc = "done" /\ k.initializing = h.initializing /\ ~k.listed BY <1>1, <1>2 DEF Handle
<1>5. handles' = [handles EXCEPT ![u] = k]
  <2>1. PICK W : W = Without({u}) OBVIOUS
  <2>2. W = [v \in Handles |-> IF v \in {u} THEN [handles[v] EXCEPT !.listed = FALSE] ELSE handles[v]]
    BY <2>1 DEF Without
  <2>3. W[u] = [h EXCEPT !.listed = FALSE] BY <1>1, <2>2
  <2>4. [W[u] EXCEPT !.pc = "done"] = k BY <1>1, <1>2, <2>3 DEF Handle
  <2>5. handles' = [W EXCEPT ![u].pc = "done"] BY <2>1 DEF Gives
  <2>6. handles' = [W EXCEPT ![u] = k] BY <2>4, <2>5
  <2>7. handles \in [Handles -> Handle] BY DEF StreamInv, StreamTypes
  <2>8. \A v \in Handles : v # u => W[v] = handles[v] BY <2>2
  <2>9. handles' = [v \in Handles |-> IF v = u THEN k ELSE handles[v]] BY <2>2, <2>6, <2>8
  <2>. QED BY <2>7, <2>9
<1>6. HandlesMove /\ handles'[u] = k /\ \A v \in Handles : v # u => handles'[v] = handles[v]
  BY <1>1, <1>3, <1>4, <1>5, OneMoves
<1>7. /\ ConnOk(conn') /\ conn'.open = conn.open
      /\ \A v \in Handles : Queued(conn', v) = IF v = u THEN << >> ELSE Queued(conn, v)
  BY ConnIs, PurgedAbout DEF Gives
<1>8. \A v \in Handles : Queued(conn, v)' = Queued(conn', v) BY DEF Queued
<1>9. ASSUME NEW v \in Handles PROVE Moves(v)
  <2>1. CASE v = u BY <1>4, <1>6, <1>7, <1>8, <2>1 DEF Moves, Ends
  <2>2. CASE v # u BY <1>6, <1>7, <1>8, <2>2, Untouched
  <2>. QED BY <2>1, <2>2
<1>. QED BY <1>6, <1>7, <1>9, QuietStep

LEMMA AuthorizedKeeps == ASSUME StreamInv, NEW u \in Handles, Authorized(u) PROVE StreamInv'
<1>0. UNCHANGED <<topicLog, frame, shown, realtime>> BY DEF Authorized
<1>1. CASE LiveSub /\ Gives(u) BY <1>0, <1>1, GivesKeeps
<1>2. CASE ~LiveSub /\ NotLive(u) BY <1>0, <1>2, NotLiveKeeps
<1>3. CASE handles' = [handles EXCEPT ![u].pc = "current", ![u].valid = TRUE] /\ UNCHANGED conn
  <2>1. PICK h \in Handle : h = handles[u] BY HandleFields
  <2>2. h.pc = "authorize" /\ h.initializing BY <2>1 DEF Authorized, StreamInv, SubOk
  <2>3. PICK k : k = [h EXCEPT !.pc = "current", !.valid = TRUE] OBVIOUS
  <2>4. k \in Handle BY <2>1, <2>3 DEF Handle, Pcs
  <2>5. k.pc = "current" /\ k.initializing BY <2>1, <2>2, <2>3 DEF Handle
  <2>6. handles' = [handles EXCEPT ![u] = k] BY <1>3, <2>1, <2>3
  <2>. QED BY <1>0, <1>3, <2>1, <2>2, <2>4, <2>5, <2>6, HandleOnly
<1>. QED BY <1>1, <1>2, <1>3 DEF Authorized

(* Ready: the first event about u, with the cursor of its snapshot.        *)
LEMMA ReadyKeeps == ASSUME StreamInv, NEW u \in Handles, Ready(u) PROVE StreamInv'
<1>0. UNCHANGED <<topicLog, frame, shown, realtime>> BY DEF Ready
<1>1. CASE ~LiveSub BY <1>0, <1>1, NotLiveKeeps DEF Ready
<1>2. CASE LiveSub /\ (~Listed(u) \/ ~handles[u].valid) BY <1>0, <1>2, GivesKeeps DEF Ready
<1>3. CASE LiveSub /\ ~(~Listed(u) \/ ~handles[u].valid)
  <2>1. PICK h \in Handle : h = handles[u] BY HandleFields
  <2>2. h.listed BY <1>3, <2>1 DEF Listed
  <2>3. PICK k : k = [h EXCEPT !.pc = "done", !.initializing = FALSE] OBVIOUS
  <2>4. k \in Handle BY <2>1, <2>3 DEF Handle, Pcs
  <2>5. k.pc = "done" /\ ~k.initializing /\ k.listed /\ k.cursor = h.cursor BY <2>1, <2>2, <2>3 DEF Handle
  <2>6. handles' = [handles EXCEPT ![u] = k] BY <1>3, <2>1, <2>3 DEF Ready
  <2>7. HandlesMove /\ handles'[u] = k /\ \A v \in Handles : v # u => handles'[v] = handles[v]
    BY <2>4, <2>5, <2>6, OneMoves
  <2>8. h.cursor \in Cursors BY <2>1, HandleFields
  <2>9. PICK e \in Events : e = Event("ready", u, h.cursor) /\ e.kind = "ready" /\ e.sub = u /\ e.cursor = h.cursor
    BY <2>8, EventsAre DEF Kinds, Subs
  <2>10. PICK g \in Events : g = Event("gap", u, h.cursor) /\ g.kind = "gap" /\ g.sub = u
    BY <2>8, EventsAre DEF Kinds, Subs
  <2>11. PICK c : c = Push(conn, e) OBVIOUS
  <2>12. conn' \in {c, Push(c, g)} BY <1>3, <2>1, <2>9, <2>10, <2>11 DEF Ready
  <2>13. ConnOk(c) /\ (c.open => conn.open) BY <2>11, ConnIs, PushIs
  <2>14. ConnOk(Push(c, g)) /\ (Push(c, g).open => c.open) BY <2>13, PushIs
  <2>15. \A v \in Handles : Queued(conn, v)' = Queued(conn', v) BY DEF Queued
  <2>16. PICK q \in Seq(Events) : q = Queued(conn, u) BY SentIs
  <2>17. ASSUME conn'.open, NEW v \in Handles PROVE Moves(v)
    <3>1. c.open BY <2>12, <2>14, <2>17
    <3>2. \A w \in Handles : Queued(c, w) = IF w = u THEN Append(Queued(conn, w), e) ELSE Queued(conn, w)
      <4>1. TAKE w \in Handles
      <4>2. Queued(Push(conn, e), w) = IF w = e.sub THEN Append(Queued(conn, w), e) ELSE Queued(conn, w)
        BY <2>11, <3>1, ConnIs, PushedAbout
      <4>. QED BY <2>9, <2>11, <4>2
    <3>3. CASE conn' = c
      <4>1. CASE v = u
        <5>1. Adds(u, e) BY <2>5, <2>7, <2>9, <2>15, <3>2, <3>3 DEF Adds, Up, Tells
        <5>. QED BY <4>1, <5>1 DEF Moves
      <4>2. CASE v # u BY <2>7, <2>15, <3>2, <3>3, <4>2, Untouched
      <4>. QED BY <4>1, <4>2
    <3>4. CASE conn' = Push(c, g)
      <4>1. \A w \in Handles : Queued(conn', w) = IF w = u THEN Append(Queued(c, w), g) ELSE Queued(c, w)
        <5>1. TAKE w \in Handles
        <5>2. Queued(Push(c, g), w) = IF w = g.sub THEN Append(Queued(c, w), g) ELSE Queued(c, w)
          BY <2>13, <2>17, <3>4, PushedAbout
        <5>. QED BY <2>10, <3>4, <5>2
      <4>2. CASE v = u
        <5>1. Queued(conn, u)' = Append(Append(q, e), g) BY <2>15, <2>16, <3>2, <4>1
        <5>2. Append(Append(q, e), g) = q \o <<e, g>> BY TwoAppended
        <5>3. AddsTwo(u, e, g) BY <2>5, <2>7, <2>9, <2>10, <2>16, <5>1, <5>2 DEF AddsTwo, Up, Tells
        <5>. QED BY <4>2, <5>3 DEF Moves
      <4>3. CASE v # u BY <2>7, <2>15, <3>2, <4>1, <4>3, Untouched
      <4>. QED BY <4>2, <4>3
    <3>. QED BY <2>12, <3>3, <3>4
  <2>18. ConnOk(conn') /\ (conn'.open => conn.open) BY <2>12, <2>13, <2>14
  <2>. QED BY <1>0, <2>7, <2>17, <2>18, QuietStep
<1>. QED BY <1>1, <1>2, <1>3

(* Whoever is removed is told, and of nothing else.                        *)
LEMMA RemovedKeeps ==
  ASSUME StreamInv, NEW u \in Handles, conn' = Removed(conn, u), HandlesMove, ~handles'[u].listed,
         \A v \in Handles : v # u => handles'[v] = handles[v],
         UNCHANGED <<topicLog, frame, shown, realtime>>
  PROVE  StreamInv'
<1>1. /\ ConnOk(conn')
      /\ conn'.open => /\ conn.open
                       /\ \A v \in Handles : Queued(conn', v) = IF v = u THEN <<Closes(u)>> ELSE Queued(conn, v)
  BY ConnIs, RemovedAbout
<1>2. \A v \in Handles : Queued(conn, v)' = Queued(conn', v) BY DEF Queued
<1>3. ASSUME conn'.open, NEW v \in Handles PROVE Moves(v)
  <2>1. CASE v = u BY <1>1, <1>2, <1>3, <2>1 DEF Moves, Ends
  <2>2. CASE v # u BY <1>1, <1>2, <1>3, <2>2, Untouched
  <2>. QED BY <2>1, <2>2
<1>. QED BY <1>1, <1>3, QuietStep

LEMMA WithoutOne ==
  ASSUME StreamInv, NEW u \in Handles
  PROVE  ~Without({u})[u].listed /\ \A v \in Handles : v # u => Without({u})[v] = handles[v]
<1>1. ~Without({u})[u].listed
  <2>1. PICK h \in Handle : h = handles[u] BY HandleFields
  <2>2. Without({u})[u] = [h EXCEPT !.listed = FALSE] BY <2>1 DEF Without
  <2>. QED BY <2>1, <2>2 DEF Handle
<1>2. \A v \in Handles : v # u => Without({u})[v] = handles[v] BY DEF Without
<1>. QED BY <1>1, <1>2

LEMMA RemoveSubKeeps ==
  ASSUME StreamInv, NEW u \in Handles, RemoveSub(u), UNCHANGED <<topicLog, frame, shown, realtime>> PROVE StreamInv'
<1>1. handles' = Without({u}) /\ conn' = Removed(conn, u) BY DEF RemoveSub
<1>2. HandlesMove BY <1>1, WithoutMoves
<1>. QED BY <1>1, <1>2, WithoutOne, RemovedKeeps

LEMMA RenewSubKeeps == ASSUME StreamInv, NEW u \in Handles, RenewSub(u) PROVE StreamInv'
<1>0. UNCHANGED <<topicLog, frame, shown, realtime>> BY DEF RenewSub
<1>1. CASE handles[u].valid
  <2>1. PICK h \in Handle : h = handles[u] BY HandleFields
  <2>2. h.pc = "done" BY <2>1 DEF RenewSub
  <2>3. PICK k : k = [h EXCEPT !.renewing = TRUE] OBVIOUS
  <2>4. k \in Handle BY <2>1, <2>3 DEF Handle
  <2>5. k.pc = "done" /\ k.initializing = h.initializing /\ k.listed = h.listed /\ k.cursor = h.cursor
    BY <2>1, <2>2, <2>3 DEF Handle
  <2>6. handles' = [handles EXCEPT ![u] = k] /\ UNCHANGED conn BY <1>1, <2>1, <2>3 DEF RenewSub
  <2>. QED BY <1>0, <2>1, <2>4, <2>5, <2>6, HandleOnly
<1>2. CASE ~handles[u].valid BY <1>0, <1>2, RemoveSubKeeps DEF RenewSub
<1>. QED BY <1>1, <1>2

LEMMA RenewedSubKeeps == ASSUME StreamInv, NEW u \in Handles, RenewedSub(u) PROVE StreamInv'
<1>0. UNCHANGED <<topicLog, frame, shown, realtime>> BY DEF RenewedSub
<1>1. PICK h \in Handle : h = handles[u] BY HandleFields
<1>2. (h.pc # "done" => h.initializing) /\ (h.listed => h.pc # "none") BY <1>1 DEF StreamInv, SubOk, Begun
<1>3. CASE handles' = [handles EXCEPT ![u].renewing = FALSE, ![u].valid = TRUE] /\ UNCHANGED conn
  <2>1. PICK k : k = [h EXCEPT !.renewing = FALSE, !.valid = TRUE] OBVIOUS
  <2>2. k \in Handle BY <1>1, <2>1 DEF Handle
  <2>3. k.pc = h.pc /\ k.initializing = h.initializing /\ k.listed = h.listed /\ k.cursor = h.cursor
    BY <1>1, <2>1 DEF Handle
  <2>4. handles' = [handles EXCEPT ![u] = k] BY <1>1, <1>3, <2>1
  <2>5. (k.pc # "done" => k.initializing) /\ (k.listed => k.pc # "none") BY <1>2, <2>3
  <2>6. k.initializing = handles[u].initializing /\ k.listed = handles[u].listed /\ k.cursor = handles[u].cursor
    BY <1>1, <2>3
  <2>. QED BY <1>0, <1>3, <2>2, <2>4, <2>5, <2>6, HandleOnly
<1>4. CASE /\ conn' = IF LiveSub /\ Listed(u) THEN Removed(conn, u)
                      ELSE IF realtime = "open" /\ conn.open /\ ~conn.fresh THEN Shut(conn, Event("closed", 0, NoCursor)) ELSE conn
           /\ handles' = [Without({u}) EXCEPT ![u].renewing = FALSE]
  <2>1. PICK k : k = [h EXCEPT !.listed = FALSE, !.renewing = FALSE] OBVIOUS
  <2>2. k \in Handle BY <1>1, <2>1 DEF Handle
  <2>3. k.pc = h.pc /\ k.initializing = h.initializing /\ ~k.listed /\ k.cursor = h.cursor BY <1>1, <2>1 DEF Handle
  <2>4. handles' = [handles EXCEPT ![u] = k]
    <3>1. PICK W : W = Without({u}) OBVIOUS
    <3>2. W = [v \in Handles |-> IF v \in {u} THEN [handles[v] EXCEPT !.listed = FALSE] ELSE handles[v]]
      BY <3>1 DEF Without
    <3>3. W[u] = [h EXCEPT !.listed = FALSE] BY <1>1, <3>2
    <3>4. [W[u] EXCEPT !.renewing = FALSE] = k BY <1>1, <2>1, <3>3 DEF Handle
    <3>5. handles' = [W EXCEPT ![u].renewing = FALSE] BY <1>4, <3>1
    <3>6. handles' = [W EXCEPT ![u] = k] BY <3>4, <3>5
    <3>7. handles \in [Handles -> Handle] BY DEF StreamInv, StreamTypes
    <3>8. \A v \in Handles : v # u => W[v] = handles[v] BY <3>2
    <3>9. handles' = [v \in Handles |-> IF v = u THEN k ELSE handles[v]] BY <3>2, <3>6, <3>8
    <3>. QED BY <3>7, <3>9
  <2>5. HandlesMove /\ handles'[u] = k /\ \A v \in Handles : v # u => handles'[v] = handles[v]
    BY <1>1, <1>2, <2>2, <2>3, <2>4, OneMoves
  <2>6. CASE LiveSub /\ Listed(u)
    <3>1. conn' = Removed(conn, u) BY <1>4, <2>6
    <3>. QED BY <1>0, <2>3, <2>5, <3>1, RemovedKeeps
  <2>7. CASE realtime = "open" /\ conn.open /\ ~conn.fresh
    <3>1. conn' = Shut(conn, Event("closed", 0, NoCursor)) BY <1>4, <2>7 DEF LiveSub
    <3>2. ConnOk(conn') /\ ~conn'.open BY <3>1, ConnIs, EndIs, ShutIs
    <3>. QED BY <1>0, <2>5, <3>2, QuietStep
  <2>8. CASE ~(LiveSub /\ Listed(u)) /\ ~(realtime = "open" /\ conn.open /\ ~conn.fresh)
    <3>1. conn' = conn BY <1>4, <2>8
    <3>2. conn.open => ~h.listed BY <1>1, <2>8, ConnIs DEF LiveSub, Listed, StreamInv
    <3>3. \A v \in Handles : Queued(conn, v)' = Queued(conn, v) BY <3>1 DEF Queued
    <3>4. ASSUME conn'.open, NEW v \in Handles PROVE Moves(v)
      <4>1. CASE v = u
        <5>1. ~h.listed BY <3>1, <3>2, <3>4
        <5>2. h.listed = k.listed BY <1>1, <2>2, <2>3, <5>1 DEF Handle
        <5>3. Stays(u) BY <1>1, <2>3, <2>5, <3>3, <5>2 DEF Stays
        <5>. QED BY <4>1, <5>3 DEF Moves
      <4>2. CASE v # u BY <2>5, <3>3, <4>2, Untouched
      <4>. QED BY <4>1, <4>2
    <3>. QED BY <1>0, <2>5, <3>1, <3>4, ConnIs, QuietStep
  <2>. QED BY <2>6, <2>7, <2>8
<1>. QED BY <1>3, <1>4 DEF RenewedSub

LEMMA SnapshotRaceKeeps == ASSUME StreamInv, NEW u \in Handles, SnapshotRace(u) PROVE StreamInv'
<1>0. UNCHANGED <<topicLog, handles, frame, shown, realtime>> BY DEF SnapshotRace
<1>1. Up(handles[u]) BY DEF SnapshotRace, Listed, Up
<1>2. PICK g \in Events : g = Event("gap", u, Current) /\ g.kind = "gap" /\ g.sub = u
  BY CurrentIs, EventsAre DEF Kinds, Subs
<1>3. conn' = Push(conn, g) BY <1>2 DEF SnapshotRace
<1>4. ConnOk(conn') /\ (conn'.open => conn.open) BY <1>3, ConnIs, PushIs
<1>5. ASSUME conn'.open, NEW v \in Handles PROVE Moves(v)
  <2>1. Queued(conn', v) = IF v = g.sub THEN Append(Queued(conn, v), g) ELSE Queued(conn, v)
    BY <1>3, <1>5, ConnIs, PushedAbout
  <2>2. Queued(conn, v)' = Queued(conn', v) BY DEF Queued
  <2>3. CASE v = u
    <3>1. Adds(u, g) BY <1>0, <1>1, <1>2, <2>1, <2>2, <2>3 DEF Adds, Tells
    <3>. QED BY <2>3, <3>1 DEF Moves
  <2>4. CASE v # u BY <1>0, <1>2, <2>1, <2>2, <2>4, Untouched
  <2>. QED BY <2>3, <2>4
<1>. QED BY <1>0, <1>4, <1>5, HandlesStay, QuietStep

LEMMA HandleStepKeeps == ASSUME StreamInv, NEW u \in Handles, HandleStep(u) PROVE StreamInv'
<1>1. CASE Subscribe(u) BY <1>1, SubscribeKeeps
<1>2. CASE Authorized(u) BY <1>2, AuthorizedKeeps
<1>3. CASE CurrentRead(u) BY <1>3, CurrentReadKeeps
<1>4. CASE Ready(u) BY <1>4, ReadyKeeps
<1>5. CASE RenewSub(u) BY <1>5, RenewSubKeeps
<1>6. CASE RenewedSub(u) BY <1>6, RenewedSubKeeps
<1>7. CASE SnapshotRace(u) BY <1>7, SnapshotRaceKeeps
<1>8. CASE Unsubscribe(u) BY <1>8, RemoveSubKeeps DEF Unsubscribe
<1>9. CASE GrantExpires(u) BY <1>9, GrantExpiresKeeps
<1>. QED BY <1>1, <1>2, <1>3, <1>4, <1>5, <1>6, <1>7, <1>8, <1>9 DEF HandleStep

-----------------------------------------------------------------------------
(***************************************************************************)
(* The connection and all its subscriptions                                *)
(***************************************************************************)
(* Everyone in us is removed, and told.                                    *)
LEMMA RemovesIs ==
  ASSUME StreamInv, NEW us \in SUBSET Handles, \A u \in us : handles[u].listed
  PROVE  /\ ConnOk(Removes(conn, us)) /\ Removes(conn, us).fresh = conn.fresh
         /\ Removes(conn, us).open =>
              /\ conn.open
              /\ \A v \in Handles : Queued(Removes(conn, us), v) = IF v \in us THEN <<Closes(v)>> ELSE Queued(conn, v)
<1>1. us \subseteq Begun /\ IsFiniteSet(Begun) BY DEF StreamInv
<1>2. IsFiniteSet(us) BY <1>1, FS_Subset
<1>3. VisitOk(conn, Removes(conn, us), us, us, NoCursor) BY <1>2, ConnIs, NoCursorIs, VisitedAbout DEF Removes
<1>. QED BY <1>3 DEF VisitOk, QueuedAfter

LEMMA RemovesMoves ==
  ASSUME StreamInv, NEW us \in SUBSET Handles, \A u \in us : handles[u].listed, handles' = Without(us),
         NEW v \in Handles, Queued(conn, v)' = IF v \in us THEN <<Closes(v)>> ELSE Queued(conn, v)
  PROVE  Moves(v)
<1>1. CASE v \in us
  <2>1. PICK h \in Handle : h = handles[v] BY HandleFields
  <2>2. handles'[v] = [h EXCEPT !.listed = FALSE] BY <1>1, <2>1 DEF Without
  <2>3. ~handles'[v].listed BY <2>1, <2>2 DEF Handle
  <2>. QED BY <1>1, <2>3 DEF Moves, Ends
<1>2. CASE v \notin us
  <2>1. handles'[v] = handles[v] BY <1>2 DEF Without
  <2>. QED BY <1>2, <2>1, Untouched
<1>. QED BY <1>1, <1>2

LEMMA PublishKeeps ==
  ASSUME StreamInv, NEW kind \in {"update", "revoke"}, Published(kind)
  PROVE  topicLog' \in Seq(Seq({"update", "revoke"})) /\ topicLog' # << >>
<1>. DEFINE S == Seq({"update", "revoke"})
<1>1. topicLog \in Seq(S) /\ topicLog # << >> BY DEF StreamInv, StreamTypes
<1>2. Len(topicLog) \in Nat \ {0} /\ Len(topicLog) \in 1..Len(topicLog) BY <1>1, EmptySeq
<1>3. topicLog[Len(topicLog)] \in S BY <1>1, <1>2, ElementOfSeq
<1>4. PICK x \in S : x = Append(topicLog[Len(topicLog)], kind) BY <1>3, AppendProperties
<1>5. topicLog' = [topicLog EXCEPT ![Len(topicLog)] = x] BY <1>4 DEF Published
<1>6. topicLog' \in Seq(S) /\ Len(topicLog') = Len(topicLog) BY <1>1, <1>2, <1>5, ExceptSeq
<1>. QED BY <1>2, <1>6, EmptySeq

LEMMA RevokeResourceKeeps == ASSUME StreamInv, RevokeResource PROVE StreamInv'
<1>0. UNCHANGED <<frame, shown, realtime>> BY DEF RevokeResource
<1>1. topicLog' \in Seq(Seq({"update", "revoke"})) /\ topicLog' # << >> BY PublishKeeps DEF RevokeResource
<1>2. realtime # "open" => ~conn.open BY DEF StreamInv
<1>3. \A v \in Handles : Queued(conn, v)' = Queued(conn', v) BY DEF Queued
<1>4. CASE RemoveSubs({u \in Handles : Listed(u)})
  <2>1. PICK us \in SUBSET Handles : us = {u \in Handles : Listed(u)} OBVIOUS
  <2>2. conn' = Removes(conn, us) /\ handles' = Without(us) BY <1>4, <2>1 DEF RemoveSubs
  <2>3. \A u \in us : handles[u].listed BY <2>1 DEF Listed
  <2>4. /\ ConnOk(conn')
        /\ conn'.open => /\ conn.open
                         /\ \A v \in Handles : Queued(conn', v) = IF v \in us THEN <<Closes(v)>> ELSE Queued(conn, v)
    BY <2>2, <2>3, RemovesIs
  <2>5. ASSUME conn'.open, NEW v \in Handles PROVE Moves(v)
    <3>1. Queued(conn, v)' = IF v \in us THEN <<Closes(v)>> ELSE Queued(conn, v) BY <1>3, <2>4, <2>5
    <3>. QED BY <2>2, <2>3, <3>1, RemovesMoves
  <2>6. HandlesMove BY <2>2, WithoutMoves
  <2>. QED BY <1>0, <1>1, <1>2, <2>4, <2>5, <2>6, StreamStep
<1>5. CASE UNCHANGED <<conn, handles>>
  <2>1. \A v \in Handles : Moves(v) BY <1>3, <1>5, Untouched
  <2>. QED BY <1>0, <1>1, <1>2, <1>5, <2>1, HandlesStay, ConnIs, StreamStep
<1>. QED BY <1>4, <1>5 DEF RevokeResource

LEMMA PublishUpdateKeeps == ASSUME StreamInv, PublishUpdate PROVE StreamInv'
<1>1. topicLog' \in Seq(Seq({"update", "revoke"})) /\ topicLog' # << >> BY PublishKeeps DEF PublishUpdate
<1>2. realtime # "open" => ~conn.open BY DEF StreamInv
<1>3. UNCHANGED <<conn, handles, frame, shown, realtime>> BY DEF PublishUpdate
<1>4. \A v \in Handles : Moves(v) BY <1>3, Untouched DEF Queued
<1>. QED BY <1>1, <1>2, <1>3, <1>4, HandlesStay, ConnIs, StreamStep

LEMMA RestartsKeeps == ASSUME StreamInv, Restarts PROVE StreamInv'
<1>. DEFINE S == Seq({"update", "revoke"})
<1>1. topicLog' \in Seq(Seq({"update", "revoke"})) /\ topicLog' # << >>
  <2>1. topicLog \in Seq(S) /\ << >> \in S BY EmptySeq DEF StreamInv, StreamTypes
  <2>2. topicLog' = Append(topicLog, << >>) BY DEF Restarts
  <2>. QED BY <2>1, <2>2, AppendProperties
<1>2. realtime # "open" => ~conn.open BY DEF StreamInv
<1>3. UNCHANGED <<conn, handles, frame, shown, realtime>> BY DEF Restarts
<1>4. \A v \in Handles : Moves(v) BY <1>3, Untouched DEF Queued
<1>. QED BY <1>1, <1>2, <1>3, <1>4, HandlesStay, ConnIs, StreamStep

LEMMA IdentityExpiresKeeps == ASSUME StreamInv, IdentityExpires PROVE StreamInv'
<1>1. conn' = [conn EXCEPT !.fresh = FALSE] /\ UNCHANGED <<topicLog, handles, frame, shown, realtime>>
  BY DEF IdentityExpires
<1>2. ConnOk(conn') /\ conn'.open = conn.open /\ conn'.queue = conn.queue BY <1>1, ConnIs DEF ConnOk, Conns
<1>3. \A v \in Handles : Moves(v) BY <1>1, <1>2, Untouched DEF Queued
<1>. QED BY <1>1, <1>2, <1>3, HandlesStay, QuietStep

LEMMA StreamEndsKeeps == ASSUME StreamInv, StreamEnds PROVE StreamInv'
<1>1. PICK terminal \in {NoEvent, Event("closed", 0, NoCursor), Event("gap", 0, NoCursor)} : conn' = Shut(conn, terminal)
  BY DEF StreamEnds
<1>2. terminal \in Events /\ terminal.sub = 0 BY EndIs
<1>3. ConnOk(conn') /\ ~conn'.open BY <1>1, <1>2, ConnIs, ShutIs
<1>4. UNCHANGED <<topicLog, handles, frame, shown>> BY DEF StreamEnds
<1>5. topicLog' \in Seq(Seq({"update", "revoke"})) /\ topicLog' # << >> BY <1>4 DEF StreamInv, StreamTypes
<1>. QED BY <1>3, <1>4, <1>5, HandlesStay, StreamStep

LEMMA ExpiredListed == ExpiredSubs \in SUBSET Handles /\ \A u \in ExpiredSubs : handles[u].listed
BY DEF ExpiredSubs, Expired, Listed

LEMMA SweepKeeps == ASSUME StreamInv, Sweep PROVE StreamInv'
<1>0. UNCHANGED <<topicLog, frame, shown, realtime>> BY DEF Sweep
<1>1. CASE conn.fresh
  <2>1. PICK us \in SUBSET Handles : us = ExpiredSubs /\ \A u \in us : handles[u].listed BY ExpiredListed
  <2>2. PICK c : c = Removes(conn, us) OBVIOUS
  <2>3. PICK b \in Events : b = Event("heartbeat", 0, NoCursor) /\ b.sub = 0 BY EndIs
  <2>4. conn' \in {c, Push(c, b)} /\ handles' = Without(us) BY <1>1, <2>1, <2>2, <2>3 DEF Sweep
  <2>5. /\ ConnOk(c)
        /\ c.open => /\ conn.open
                     /\ \A v \in Handles : Queued(c, v) = IF v \in us THEN <<Closes(v)>> ELSE Queued(conn, v)
    BY <2>1, <2>2, RemovesIs
  <2>6. ConnOk(Push(c, b)) /\ (Push(c, b).open => c.open) BY <2>5, PushIs
  <2>7. ConnOk(conn') /\ (conn'.open => c.open) BY <2>4, <2>5, <2>6
  <2>8. ASSUME conn'.open, NEW v \in Handles PROVE Moves(v)
    <3>1. Queued(conn, v)' = Queued(c, v)
      <4>1. Queued(conn, v)' = Queued(conn', v) BY DEF Queued
      <4>2. CASE conn' = c BY <4>1, <4>2
      <4>3. CASE conn' = Push(c, b)
        <5>1. Queued(Push(c, b), v) = IF v = b.sub THEN Append(Queued(c, v), b) ELSE Queued(c, v)
          BY <2>5, <2>8, <4>3, PushedAbout
        <5>2. v # b.sub BY <2>3
        <5>. QED BY <4>1, <4>3, <5>1, <5>2
      <4>. QED BY <2>4, <4>2, <4>3
    <3>2. Queued(conn, v)' = IF v \in us THEN <<Closes(v)>> ELSE Queued(conn, v) BY <2>5, <2>7, <2>8, <3>1
    <3>. QED BY <2>1, <2>4, <3>2, RemovesMoves
  <2>9. HandlesMove BY <2>4, WithoutMoves
  <2>. QED BY <1>0, <2>5, <2>7, <2>8, <2>9, QuietStep
<1>2. CASE ~conn.fresh
  <2>1. conn' = Shut(conn, Event("closed", 0, NoCursor)) /\ UNCHANGED handles BY <1>2 DEF Sweep
  <2>2. ConnOk(conn') /\ ~conn'.open BY <2>1, ConnIs, EndIs, ShutIs
  <2>. QED BY <1>0, <2>1, <2>2, HandlesStay, QuietStep
<1>. QED BY <1>1, <1>2

(* What a delivery adds follows what was told before, or is after a gap.   *)
LEMMA NewsMove ==
  ASSUME StreamInv, NEW u \in Handles, NEW cursor \in Cursors, conn.open,
         Up(handles[u]), handles[u].cursor # cursor,
         Queued(conn, u)' = Queued(conn, u) \o News(u, cursor),
         handles'[u] = IF Reason(handles[u].cursor, cursor) # "out-of-order" THEN [handles[u] EXCEPT !.cursor = cursor]
                       ELSE handles[u]
  PROVE  Moves(u)
<1>1. PICK h \in Handle : h = handles[u] BY HandleFields
<1>2. PICK p \in Cursors : p = h.cursor BY <1>1, HandleFields
<1>3. PICK reason : reason = Reason(p, cursor) OBVIOUS
<1>4. PICK k : k = handles'[u] OBVIOUS
<1>5. k = IF reason # "out-of-order" THEN [h EXCEPT !.cursor = cursor] ELSE h BY <1>1, <1>2, <1>3, <1>4
<1>6. Up(k) /\ (reason # "out-of-order" => k.cursor = cursor) BY <1>1, <1>5 DEF Up, Handle
<1>7. PICK q \in Seq(Events) : q = Queued(conn, u) BY SentIs
<1>8. Tells(Last(Tale(u)), p) BY <1>1, <1>2 DEF StreamInv, SubOk
<1>9. PICK g \in Events : g = Event("gap", u, cursor) /\ g.kind = "gap" BY EventsAre DEF Kinds, Subs
<1>10. PICK e \in Events : e = Event("update", u, cursor) /\ e.kind = "update" /\ e.cursor = cursor
  BY EventsAre DEF Kinds, Subs
<1>11. CASE reason = "none"
  <2>1. p.g \in Nat /\ p.s \in Nat /\ cursor.g \in Nat /\ cursor.s \in Nat /\ p = [g |-> p.g, s |-> p.s]
        /\ cursor = [g |-> cursor.g, s |-> cursor.s] BY DEF Cursors
  <2>2. cursor.g = p.g /\ ~(cursor.s < p.s) /\ ~(cursor.s > p.s + 1)
    <3>1. CASE cursor.g # p.g BY <1>3, <1>11, <3>1 DEF Reason
    <3>2. CASE cursor.g = p.g /\ cursor.s < p.s BY <1>3, <1>11, <3>2 DEF Reason
    <3>3. CASE cursor.g = p.g /\ cursor.s > p.s + 1 BY <1>3, <1>11, <2>1, <3>3 DEF Reason
    <3>. QED BY <3>1, <3>2, <3>3
  <2>3. cursor.s # p.s BY <1>1, <1>2, <2>1, <2>2
  <2>4. cursor.s = p.s + 1 BY <2>1, <2>2, <2>3
  <2>5. cursor = [p EXCEPT !.s = @ + 1] BY <2>1, <2>2, <2>4 DEF Cursors
  <2>6. Follows(Last(Tale(u)), e) BY <1>8, <1>10, <2>5 DEF Tells, Follows
  <2>7. News(u, cursor) = <<e>> BY <1>1, <1>2, <1>3, <1>10, <1>11 DEF News
  <2>8. q \o <<e>> = Append(q, e) BY AppendIsConcat
  <2>9. Adds(u, e) BY <1>4, <1>6, <1>7, <1>10, <1>11, <2>6, <2>7, <2>8 DEF Adds, Tells
  <2>. QED BY <2>9 DEF Moves
<1>12. CASE reason = "out-of-order"
  <2>1. News(u, cursor) = <<g>> BY <1>1, <1>2, <1>3, <1>9, <1>12 DEF News
  <2>2. q \o <<g>> = Append(q, g) BY AppendIsConcat
  <2>3. Adds(u, g) BY <1>4, <1>6, <1>7, <1>9, <2>1, <2>2 DEF Adds, Tells
  <2>. QED BY <2>3 DEF Moves
<1>13. CASE reason # "none" /\ reason # "out-of-order"
  <2>1. News(u, cursor) = <<g, e>> BY <1>1, <1>2, <1>3, <1>9, <1>10, <1>13 DEF News
  <2>2. AddsTwo(u, g, e) BY <1>4, <1>6, <1>9, <1>10, <1>13, <2>1 DEF AddsTwo, Tells, Follows
  <2>. QED BY <2>2 DEF Moves
<1>. QED BY <1>11, <1>12, <1>13

LEMMA ReceiveKeeps ==
  ASSUME StreamInv, NEW g \in DOMAIN topicLog, NEW s \in DOMAIN topicLog[g], Receive([g |-> g, s |-> s])
  PROVE  StreamInv'
<1>0. PICK cursor \in Cursors : cursor = [g |-> g, s |-> s]
  <2>1. topicLog \in Seq(Seq({"update", "revoke"})) BY DEF StreamInv, StreamTypes
  <2>2. g \in Nat /\ topicLog[g] \in Seq({"update", "revoke"}) BY <2>1, ElementOfSeq, LenProperties
  <2>3. s \in Nat BY <2>2, LenProperties
  <2>. QED BY <2>2, <2>3 DEF Cursors
<1>. DEFINE kind == topicLog[cursor.g][cursor.s]
<1>1. PICK removed : removed = {u \in Handles : Listed(u) /\ (kind = "revoke" \/ Expired(u))} OBVIOUS
<1>2. PICK hearers : hearers = {u \in Handles : Listed(u) /\ u \notin removed /\ ~Ignores(u, cursor)} OBVIOUS
<1>3. /\ conn' = Visited(conn, removed \cup hearers, removed, cursor)
      /\ handles' = [u \in Handles |-> IF u \in hearers /\ Reason(handles[u].cursor, cursor) # "out-of-order"
                                       THEN [handles[u] EXCEPT !.cursor = cursor] ELSE Without(removed)[u]]
      /\ UNCHANGED <<topicLog, frame, shown, realtime>>
  BY <1>0, <1>1, <1>2 DEF Receive
<1>4. PICK us \in SUBSET Handles : us = removed \cup hearers BY <1>1, <1>2
<1>5. \A u \in us : Listed(u) /\ handles[u].listed BY <1>1, <1>2, <1>4 DEF Listed
<1>6. us \subseteq Begun /\ IsFiniteSet(Begun) BY <1>5 DEF StreamInv
<1>7. IsFiniteSet(us) BY <1>6, FS_Subset
<1>8. VisitOk(conn, conn', us, removed, cursor) BY <1>3, <1>4, <1>7, ConnIs, VisitedAbout
<1>9. \A u \in Handles : Queued(conn, u)' = Queued(conn', u) BY DEF Queued
<1>10. ASSUME NEW u \in Handles
       PROVE  /\ handles'[u] \in Handle
              /\ handles'[u].pc = handles[u].pc /\ handles'[u].initializing = handles[u].initializing
              /\ handles'[u].listed => handles[u].listed
  <2>1. PICK h \in Handle : h = handles[u] BY HandleFields
  <2>2. CASE u \in hearers /\ Reason(handles[u].cursor, cursor) # "out-of-order"
    <3>1. handles'[u] = [h EXCEPT !.cursor = cursor] BY <1>3, <2>1, <2>2
    <3>. QED BY <2>1, <3>1 DEF Handle
  <2>3. CASE ~(u \in hearers /\ Reason(handles[u].cursor, cursor) # "out-of-order")
    <3>1. handles'[u] = Without(removed)[u] BY <1>3, <2>3
    <3>2. handles'[u] = IF u \in removed THEN [h EXCEPT !.listed = FALSE] ELSE h BY <2>1, <3>1 DEF Without
    <3>. QED BY <2>1, <3>2 DEF Handle
  <2>. QED BY <2>2, <2>3
<1>11. HandlesMove
  <2>1. \A u \in Handles : (handles[u].pc # "done" => handles[u].initializing) /\ (handles[u].listed => handles[u].pc # "none")
    BY DEF StreamInv, SubOk, Begun
  <2>2. handles' \in [Handles -> Handle] BY <1>3, <1>10
  <2>. QED BY <1>10, <2>1, <2>2 DEF HandlesMove
<1>12. ASSUME conn'.open, NEW u \in Handles PROVE Moves(u)
  <2>1. conn.open /\ Queued(conn, u)' = QueuedAfter(conn, us, removed, cursor, u) BY <1>8, <1>9, <1>12 DEF VisitOk
  <2>2. CASE u \in removed
    <3>1. Queued(conn, u)' = <<Closes(u)>> BY <1>4, <2>1, <2>2 DEF QueuedAfter
    <3>2. handles'[u] = Without(removed)[u] BY <1>2, <1>3, <2>2
    <3>3. PICK h \in Handle : h = handles[u] BY HandleFields
    <3>4. handles'[u] = [h EXCEPT !.listed = FALSE] BY <2>2, <3>2, <3>3 DEF Without
    <3>5. ~handles'[u].listed BY <3>3, <3>4 DEF Handle
    <3>. QED BY <3>1, <3>5 DEF Moves, Ends
  <2>3. CASE u \in hearers
    <3>1. u \notin removed /\ Up(handles[u]) /\ handles[u].cursor # cursor BY <1>2, <2>3 DEF Listed, Ignores, Up
    <3>2. Queued(conn, u)' = Queued(conn, u) \o News(u, cursor) BY <1>4, <2>1, <2>3, <3>1 DEF QueuedAfter
    <3>3. Without(removed)[u] = handles[u] BY <3>1 DEF Without
    <3>4. handles'[u] = IF Reason(handles[u].cursor, cursor) # "out-of-order" THEN [handles[u] EXCEPT !.cursor = cursor]
                        ELSE handles[u]
      BY <1>3, <2>3, <3>3
    <3>. QED BY <2>1, <3>1, <3>2, <3>4, NewsMove
  <2>4. CASE u \notin us
    <3>1. Queued(conn, u)' = Queued(conn, u) BY <2>1, <2>4 DEF QueuedAfter
    <3>2. handles'[u] = handles[u] BY <1>3, <1>4, <2>4 DEF Without
    <3>. QED BY <3>1, <3>2, Untouched
  <2>. QED BY <1>4, <2>2, <2>3, <2>4
<1>13. ConnOk(conn') /\ (conn'.open => conn.open) BY <1>8 DEF VisitOk
<1>. QED BY <1>3, <1>11, <1>12, <1>13, QuietStep

-----------------------------------------------------------------------------
(***************************************************************************)
(* The response                                                            *)
(***************************************************************************)
(* The frame that is dropped was of a subscription that is gone: nothing   *)
(* that is left about it follows what was dropped.                         *)
LEMMA TakeKeeps ==
  ASSUME StreamInv, Take, frame = NoEvent \/ ~MaySend, UNCHANGED <<topicLog, shown, realtime>>
  PROVE  StreamInv'
<1>1. PICK us \in SUBSET Handles : us = ExpiredSubs /\ \A u \in us : handles[u].listed BY ExpiredListed
<1>2. PICK tidy : tidy = Removes(conn, us) OBVIOUS
<1>3. PICK c : c = IF tidy.open /\ ~tidy.fresh THEN Shut(tidy, Event("closed", 0, NoCursor)) ELSE tidy OBVIOUS
<1>4. /\ handles' = Without(us)
      /\ \/ c.queue # << >> /\ frame' = Head(c.queue) /\ conn' = [c EXCEPT !.queue = Tail(c.queue)]
         \/ c.queue = << >> /\ frame' = c.terminal /\ conn' = [c EXCEPT !.terminal = NoEvent]
  BY <1>1, <1>2, <1>3 DEF Take
<1>5. /\ ConnOk(tidy) /\ tidy.fresh = conn.fresh
      /\ tidy.open => /\ conn.open
                      /\ \A v \in Handles : Queued(tidy, v) = IF v \in us THEN <<Closes(v)>> ELSE Queued(conn, v)
  BY <1>1, <1>2, RemovesIs
<1>6. /\ ConnOk(c)
      /\ c.open => /\ conn.open /\ conn.fresh
                   /\ \A v \in Handles : Queued(c, v) = IF v \in us THEN <<Closes(v)>> ELSE Queued(conn, v)
  <2>1. CASE tidy.open /\ ~tidy.fresh
    <3>1. c = Shut(tidy, Event("closed", 0, NoCursor)) BY <1>3, <2>1
    <3>2. ConnOk(c) /\ ~c.open BY <1>5, <3>1, EndIs, ShutIs
    <3>. QED BY <3>2
  <2>2. CASE ~(tidy.open /\ ~tidy.fresh)
    <3>1. c = tidy BY <1>3, <2>2
    <3>2. c.open => conn.fresh BY <1>5, <2>2, <3>1
    <3>. QED BY <1>5, <3>1, <3>2
  <2>. QED BY <2>1, <2>2
<1>7. \A v \in Handles : Queued(conn, v)' = Queued(conn', v) BY DEF Queued
<1>8. HandlesMove BY <1>4, WithoutMoves
<1>9. /\ ConnOk(conn') /\ frame' \in Events /\ conn'.open = c.open
      /\ \A v \in Handles : Queued(c, v) = IF frame'.sub = v THEN <<frame'>> \o Queued(conn', v) ELSE Queued(conn', v)
  <2>1. CASE c.queue # << >> /\ frame' = Head(c.queue) /\ conn' = [c EXCEPT !.queue = Tail(c.queue)]
    <3>1. PICK q \in Seq(Events) : q = c.queue /\ q # << >> BY <1>6, <2>1 DEF ConnOk, Conns
    <3>2. PICK r \in Seq(Events) : r = Tail(q) BY <3>1, HeadTailProperties
    <3>3. PICK e \in Events : e = Head(q) BY <3>1, HeadTailProperties
    <3>4. q = <<e>> \o r
      <4>1. <<e>> \in Seq(Events) /\ Len(<<e>>) = 1 OBVIOUS
      <4>2. Len(q) \in Nat \ {0} BY <3>1, EmptySeq
      <4>3. Len(r) = Len(q) - 1 /\ \A i \in 1..Len(r) : r[i] = q[i + 1] BY <3>1, <3>2, HeadTailProperties
      <4>4. PICK t \in Seq(Events) : t = <<e>> \o r BY <4>1, ConcatProperties
      <4>5. Len(t) = Len(q) /\ \A i \in 1..Len(t) : t[i] = IF i <= 1 THEN <<e>>[i] ELSE r[i - 1]
        BY <4>1, <4>2, <4>3, <4>4, ConcatProperties
      <4>6. q[1] = e BY <3>1, <3>3
      <4>7. ASSUME NEW i \in 1..Len(q) PROVE q[i] = t[i]
        <5>1. CASE i = 1 BY <4>5, <4>6, <5>1
        <5>2. CASE i # 1
          <6>1. i - 1 \in 1..Len(r) /\ (i - 1) + 1 = i /\ ~(i <= 1) BY <4>2, <4>3, <5>2
          <6>2. r[i - 1] = q[(i - 1) + 1] BY <4>3, <6>1
          <6>. QED BY <4>5, <6>1, <6>2
        <5>. QED BY <5>1, <5>2
      <4>. QED BY <4>4, <4>5, <4>7, SeqEqual
    <3>5. conn' = [c EXCEPT !.queue = r] /\ frame' = e BY <2>1, <3>1, <3>2, <3>3
    <3>6. ConnOk(conn') /\ conn'.open = c.open /\ conn'.queue = r BY <1>6, <2>1, <3>5 DEF ConnOk, Conns
    <3>7. ASSUME NEW v \in Handles
          PROVE  Queued(c, v) = IF e.sub = v THEN <<e>> \o Queued(conn', v) ELSE Queued(conn', v)
      <4>1. PICK vs : vs = {v} OBVIOUS
      <4>2. About(<<e>> \o r, vs) = IF e.sub \in vs THEN <<e>> \o About(r, vs) ELSE About(r, vs) BY AboutFirst
      <4>. QED BY <3>1, <3>4, <3>6, <4>1, <4>2 DEF Queued
    <3>. QED BY <3>5, <3>6, <3>7
  <2>2. CASE c.queue = << >> /\ frame' = c.terminal /\ conn' = [c EXCEPT !.terminal = NoEvent]
    <3>1. ConnOk(conn') /\ conn'.open = c.open /\ conn'.queue = c.queue BY <1>6, <2>2, EndIs DEF ConnOk, Conns
    <3>2. frame' \in Events /\ frame'.sub = 0 BY <1>6, <2>2 DEF ConnOk, Conns
    <3>. QED BY <3>1, <3>2 DEF Queued
  <2>. QED BY <1>4, <2>1, <2>2
<1>10. ASSUME NEW v \in Handles PROVE SubOk(v)'
  <2>1. SubOk(v) BY DEF StreamInv
  <2>2. PICK h \in Handle : h = handles[v] BY HandleFields
  <2>3. PICK k \in Handle : k = handles'[v] BY <1>8 DEF HandlesMove
  <2>4. /\ k.pc = h.pc /\ k.initializing = h.initializing /\ k.cursor = h.cursor
        /\ v \in us => ~k.listed
        /\ v \notin us => k = h
    <3>1. k = IF v \in us THEN [h EXCEPT !.listed = FALSE] ELSE h BY <1>4, <2>2, <2>3 DEF Without
    <3>. QED BY <2>2, <3>1 DEF Handle
  <2>5. h.listed \in BOOLEAN /\ h.initializing \in BOOLEAN /\ h.valid \in BOOLEAN BY <2>2, HandleFields
  <2>6. PICK x \in Events : x = shown[v] BY DEF StreamInv, StreamTypes
  <2>7. PICK q \in Seq(Events) : q = Queued(c, v) BY <1>6, QueuedType
  <2>8. PICK r \in Seq(Events) : r = Queued(conn', v) BY <1>9, QueuedType
  <2>9. PICK f \in Events : f = frame' BY <1>9
  <2>10. q = IF f.sub = v THEN <<f>> \o r ELSE r BY <1>9, <2>7, <2>8, <2>9
  <2>11. Tale(v)' = <<x>> \o q
    <3>1. shown'[v] = x BY <2>6
    <3>2. Tale(v)' = (IF f.sub = v THEN <<x, f>> ELSE <<x>>) \o r BY <1>7, <2>8, <2>9, <3>1 DEF Tale, Sent
    <3>3. CASE f.sub = v
      <4>1. <<x>> \in Seq(Events) /\ <<f>> \in Seq(Events) OBVIOUS
      <4>2. (<<x>> \o <<f>>) \o r = <<x>> \o (<<f>> \o r) BY <4>1, ConcatAssociative
      <4>. QED BY <2>10, <3>2, <3>3, <4>2, TwoInOrder
    <3>4. CASE f.sub # v BY <2>10, <3>2, <3>4
    <3>. QED BY <3>3, <3>4
  <2>12. c.open /\ frame.sub = v /\ v \notin us => ~h.listed
    <3>1. SUFFICES ASSUME c.open, frame.sub = v, v \notin us, h.listed PROVE FALSE BY <2>5
    <3>2. frame # NoEvent BY <3>1, EndIs
    <3>3. conn.open /\ conn.fresh /\ Listed(v) BY <1>6, <2>2, <3>1 DEF Listed
    <3>4. frame.kind # "closed" /\ ~h.valid BY <2>2, <3>1, <3>2, <3>3 DEF MaySend
    <3>5. ~h.initializing BY <2>1, <2>2, <3>1, <3>4 DEF SubOk
    <3>6. Expired(v) BY <2>2, <3>3, <3>4, <3>5 DEF Expired
    <3>. QED BY <1>1, <3>1, <3>6 DEF ExpiredSubs
  <2>13. \A i \in DOMAIN q : q[i].kind = "closed" \/ (c.open /\ v \notin us /\ Up(h))
    <3>1. CASE ~c.open
      <4>1. q = << >> BY <1>6, <2>7, <3>1, QueuedType
      <4>. QED BY <4>1
    <3>2. CASE c.open /\ v \in us
      <4>1. PICK e \in Events : e = Closes(v) /\ e.kind = "closed" BY ClosedIs DEF Subs
      <4>2. q = <<e>> BY <1>6, <2>7, <3>2, <4>1
      <4>3. \A i \in DOMAIN q : q[i] = e BY <4>2
      <4>. QED BY <4>1, <4>3
    <3>3. CASE c.open /\ v \notin us
      <4>1. q = Queued(conn, v) BY <1>6, <2>7, <3>3
      <4>. QED BY <2>1, <2>2, <3>3, <4>1 DEF SubOk
    <3>. QED BY <3>1, <3>2, <3>3
  <2>14. Honest(<<x>> \o q)
    <3>1. CASE c.open /\ v \notin us /\ Up(h)
      <4>1. frame.sub # v BY <2>12, <3>1 DEF Up
      <4>2. q = Queued(conn, v) BY <1>6, <2>7, <3>1
      <4>3. Tale(v) = <<x>> \o q BY <2>6, <4>1, <4>2 DEF Tale, Sent
      <4>. QED BY <2>1, <4>3 DEF SubOk
    <3>2. CASE ~(c.open /\ v \notin us /\ Up(h)) BY <2>13, <3>2, HonestClosed
    <3>. QED BY <3>1, <3>2
  <2>15. \A i \in DOMAIN r : \E j \in DOMAIN q : q[j] = r[i]
    <3>1. CASE f.sub = v
      <4>1. <<f>> \in Seq(Events) /\ Len(<<f>>) = 1 OBVIOUS
      <4>2. /\ Len(r) \in Nat /\ Len(q) = Len(r) + 1
            /\ \A i \in 1..Len(q) : q[i] = IF i <= 1 THEN <<f>>[i] ELSE r[i - 1]
        BY <2>10, <3>1, <4>1, LenProperties, ConcatProperties
      <4>3. ASSUME NEW i \in 1..Len(r) PROVE i + 1 \in DOMAIN q /\ q[i + 1] = r[i]
        <5>1. i + 1 \in 1..Len(q) /\ ~(i + 1 <= 1) /\ (i + 1) - 1 = i BY <4>2
        <5>2. q[i + 1] = r[(i + 1) - 1] BY <4>2, <5>1
        <5>. QED BY <5>1, <5>2, LenProperties
      <4>. QED BY <4>3, LenProperties
    <3>2. CASE f.sub # v BY <2>10, <3>2
    <3>. QED BY <3>1, <3>2
  <2>16. c.open /\ v \notin us /\ Up(h) => Up(k) BY <2>4
  <2>17. \A i \in DOMAIN r : r[i].kind = "closed" \/ (conn'.open /\ Up(k)) BY <1>9, <2>13, <2>15, <2>16
  <2>18. f.sub = v => f.kind = "closed" \/ ~k.initializing
    <3>1. SUFFICES ASSUME f.sub = v PROVE f.kind = "closed" \/ ~k.initializing OBVIOUS
    <3>2. <<f>> \in Seq(Events) /\ Len(<<f>>) = 1 OBVIOUS
    <3>3. /\ Len(r) \in Nat /\ Len(q) = Len(r) + 1
          /\ \A i \in 1..Len(q) : q[i] = IF i <= 1 THEN <<f>>[i] ELSE r[i - 1]
      BY <2>10, <3>1, <3>2, LenProperties, ConcatProperties
    <3>4. 1 \in 1..Len(q) /\ q[1] = f BY <3>3
    <3>5. 1 \in DOMAIN q BY <3>4, LenProperties
    <3>. QED BY <2>4, <2>13, <3>4, <3>5 DEF Up
  <2>19. conn'.open /\ Up(k) => Tells(Last(<<x>> \o q), k.cursor)
    <3>1. SUFFICES ASSUME conn'.open, Up(k) PROVE Tells(Last(<<x>> \o q), k.cursor) OBVIOUS
    <3>2. c.open /\ v \notin us /\ k = h BY <1>9, <2>4, <3>1 DEF Up
    <3>3. frame.sub # v BY <2>12, <3>1, <3>2 DEF Up
    <3>4. q = Queued(conn, v) BY <1>6, <2>7, <3>2
    <3>5. Tale(v) = <<x>> \o q BY <2>6, <3>3, <3>4 DEF Tale, Sent
    <3>. QED BY <1>6, <2>1, <2>2, <3>1, <3>2, <3>5 DEF SubOk
  <2>20. handles'[v].pc # "done" => handles'[v].initializing BY <1>8 DEF HandlesMove
  <2>. QED BY <1>7, <2>3, <2>8, <2>9, <2>11, <2>14, <2>17, <2>18, <2>19, <2>20 DEF SubOk
<1>11. StreamTypes' BY <1>8, <1>9 DEF StreamInv, StreamTypes, HandlesMove
<1>12. realtime' # "open" => ~conn'.open BY <1>6, <1>9 DEF StreamInv
<1>13. IsFiniteSet(Begun') /\ \A u \in Handles : handles'[u].listed => u \in Begun'
  BY <1>8, BegunFinite DEF HandlesMove, Begun
<1>. QED BY <1>10, <1>11, <1>12, <1>13 DEF StreamInv

LEMMA SendKeeps == ASSUME StreamInv, Send PROVE StreamInv'
<1>0. UNCHANGED <<topicLog, realtime>> /\ frame # NoEvent BY DEF Send
<1>1. CASE ~MaySend /\ Take /\ UNCHANGED shown BY <1>0, <1>1, TakeKeeps
<1>2. CASE /\ shown' = IF frame.sub = 0 THEN shown ELSE [shown EXCEPT ![frame.sub] = frame]
           /\ frame' = NoEvent /\ UNCHANGED <<conn, handles>>
  <2>1. frame \in Events /\ shown \in [Handles -> Events] /\ frame.sub \in Subs
    BY DEF StreamInv, StreamTypes, Events
  <2>2. shown' \in [Handles -> Events] BY <1>2, <2>1 DEF Subs
  <2>3. \A v \in Handles : shown'[v] = IF frame.sub = v THEN frame ELSE shown[v] BY <1>2, <2>1 DEF Subs
  <2>4. frame' \in Events /\ frame'.sub = 0 BY <1>2, EndIs
  <2>5. ASSUME NEW v \in Handles PROVE SubOk(v)'
    <3>1. SubOk(v) BY DEF StreamInv
    <3>2. PICK q \in Seq(Events) : q = Queued(conn, v) BY SentIs
    <3>3. Queued(conn, v)' = q BY <1>2, <3>2 DEF Queued
    <3>4. Tale(v)' = <<shown'[v]>> \o q BY <2>4, <3>3 DEF Tale, Sent
    <3>5. Honest(Tale(v)') /\ Last(Tale(v)') = Last(Tale(v))
      <4>1. CASE frame.sub = v
        <5>1. PICK x \in Events : x = shown[v] BY <2>1
        <5>2. Tale(v) = <<x, frame>> \o q BY <3>2, <4>1, <5>1 DEF Tale, Sent
        <5>3. Tale(v)' = <<frame>> \o q BY <2>3, <3>4, <4>1
        <5>4. Honest(<<x, frame>> \o q) BY <3>1, <5>2 DEF SubOk
        <5>. QED BY <2>1, <5>2, <5>3, <5>4, HonestRest
      <4>2. CASE frame.sub # v
        <5>1. Tale(v) = <<shown[v]>> \o q BY <3>2, <4>2 DEF Tale, Sent
        <5>2. Tale(v)' = Tale(v) BY <2>3, <3>4, <4>2, <5>1
        <5>. QED BY <3>1, <5>2 DEF SubOk
      <4>. QED BY <4>1, <4>2
    <3>. QED BY <1>2, <2>4, <3>1, <3>2, <3>3, <3>5 DEF SubOk
  <2>6. StreamTypes' BY <1>0, <1>2, <2>2, <2>4 DEF StreamInv, StreamTypes
  <2>7. Begun' = Begun BY <1>2 DEF Begun
  <2>. QED BY <1>0, <1>2, <2>5, <2>6, <2>7 DEF StreamInv
<1>. QED BY <1>1, <1>2 DEF Send

-----------------------------------------------------------------------------
(***************************************************************************)
(* The hub                                                                 *)
(***************************************************************************)
LEMMA StreamKept == ASSUME StreamInv, [RealtimeNext]_rtVars PROVE StreamInv'
<1>1. CASE PublishUpdate BY <1>1, PublishUpdateKeeps
<1>2. CASE Restarts BY <1>2, RestartsKeeps
<1>3. CASE RevokeResource BY <1>3, RevokeResourceKeeps
<1>4. CASE \E g \in DOMAIN topicLog : \E s \in DOMAIN topicLog[g] : Receive([g |-> g, s |-> s]) BY <1>4, ReceiveKeeps
<1>5. CASE \E u \in Handles : HandleStep(u) BY <1>5, HandleStepKeeps
<1>6. CASE IdentityExpires BY <1>6, IdentityExpiresKeeps
<1>7. CASE Sweep BY <1>7, SweepKeeps
<1>8. CASE StreamEnds BY <1>8, StreamEndsKeeps
<1>9. CASE Pull BY <1>9, TakeKeeps DEF Pull
<1>10. CASE Send BY <1>10, SendKeeps
<1>11. CASE UNCHANGED rtVars
  <2>1. UNCHANGED <<topicLog, conn, handles, frame, shown, realtime>> BY <1>11 DEF rtVars
  <2>2. \A u \in Handles : Moves(u) BY <2>1, Untouched DEF Queued
  <2>. QED BY <2>1, <2>2, HandlesStay, ConnIs, QuietStep
<1>. QED BY <1>1, <1>2, <1>3, <1>4, <1>5, <1>6, <1>7, <1>8, <1>9, <1>10, <1>11 DEF RealtimeNext

(* Of a subscription that is up the client is told up to its cursor; of    *)
(* every other nothing is queued but that it is closed.                    *)
THEOREM StreamInvariant == RealtimeSpec => []StreamInv
BY StreamStarts, StreamKept, PTL DEF RealtimeSpec

(* A client is never silently behind (receive, next, pull): an update that *)
(* it is sent succeeds what it was sent before, or a gap stands between.   *)
THEOREM StreamsStayHonest == RealtimeSpec => []StreamIsHonest
BY StreamInvariant, StreamInvIsHonest, PTL
=============================================================================
