----------------------------- MODULE LimitState -----------------------------
(***************************************************************************)
(* The arithmetic of @lenso/limits (state.ts), shared by all its stores:   *)
(* fixed-window counters and concurrency leases of one scope.  Scope,      *)
(* kind and policy conflicts are validation and left out.                  *)
(*                                                                         *)
(* Definitions introduced by `Slip:' are not part of the model: each is a  *)
(* plausible mistake in the definition that follows it, and the mutation   *)
(* runs check that some property notices it.                               *)
(***************************************************************************)
EXTENDS Integers, FiniteSets, FiniteSetsExt

NoWindow == 0 - 1
NoCounter == [windowStart |-> NoWindow, used |-> 0, lastNow |-> 0]
NoLeases == [lastNow |-> 0, leases |-> {}]

(* Slip: the clock is believed as it is read.                              *)
ClockTimeAsRead(now, previous) == now

(* clockTime: a scope never goes back in time.                             *)
ClockTime(now, previous) == Max({now, previous})

WindowOf(now, period) == (now \div period) * period

(* consumeState.                                                           *)
ConsumeState(previous, capacity, period, quantity, clock) ==
  LET now == ClockTime(clock, previous.lastNow)
      used == IF previous.windowStart = WindowOf(now, period) THEN previous.used ELSE 0
      allowed == quantity <= capacity - used
  IN [allowed |-> allowed,
      state |-> [windowStart |-> WindowOf(now, period), lastNow |-> now,
                 used |-> IF allowed THEN used + quantity ELSE used]]

Quantities(leases) == MapThenSumSet(LAMBDA l : l.quantity, leases)

(* liveState: expired leases are forgotten.                                *)
LiveState(previous, clock) ==
  LET now == ClockTime(clock, previous.lastNow)
  IN [lastNow |-> now, leases |-> {l \in previous.leases : l.expiresAt > now}]

Admits(live, capacity, quantity) == quantity <= capacity - Quantities(live.leases)

(* acquireState, of an admitted lease.                                     *)
AcquireState(live, token, quantity, ttl) ==
  [live EXCEPT !.leases = @ \cup {[token |-> token, quantity |-> quantity,
                                   expiresAt |-> live.lastNow + ttl]}]

Holding(live, token) == {l \in live.leases : l.token = token}

(* renewState, of a lease that is still held.                              *)
RenewState(live, token, ttl) ==
  [live EXCEPT !.leases = {IF l.token = token
                           THEN [l EXCEPT !.expiresAt = Max({@, live.lastNow + ttl})] ELSE l
                           : l \in live.leases}]

(* release.                                                                *)
ReleaseState(live, token) == [live EXCEPT !.leases = @ \ Holding(live, token)]
=============================================================================
