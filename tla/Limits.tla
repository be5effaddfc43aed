------------------------------- MODULE Limits -------------------------------
(***************************************************************************)
(* The service of @lenso/limits: counters (consume) and the concurrency    *)
(* leases it hands out (acquire, renew, release, withLease) until close(). *)
(*                                                                         *)
(* A store call is one step and what the service does with its answer      *)
(* another.  The clock of the store's host may jump: a call reads any time *)
(* up to the bound.  A call slot is one caller of acquire(), who renews    *)
(* and releases as it likes, or one withLease().  Abstracted: scopes (one) *)
(* and quantities (1).                                                     *)
(***************************************************************************)
EXTENDS LimitState

CONSTANTS LimitCalls,   \* callers, each with one lease at most
          LimitCapacity,
          LimitPeriod,  \* periodMs of the counter
          LimitTtl,     \* ttlMs of a lease
          LimitTimes    \* bound: what a clock may read

ASSUME LimitAssumption == /\ LimitCapacity \in Nat \ {0} /\ LimitPeriod \in Nat \ {0}
                          /\ LimitTtl \in Nat \ {0} /\ LimitTimes \subseteq Nat

VARIABLES counter, admitted    \* admitted[w]: consumptions allowed in the window from w
counterVars == <<counter, admitted>>

VARIABLES bucket,       \* the stored leases
          owned,        \* tokens of the service's leases
          calls,        \* calls[c]: a caller
          closing       \* close(): open, drain, release, closed, or failed
leaseVars == <<bucket, owned, calls, closing>>

-----------------------------------------------------------------------------
CounterInit == /\ counter = NoCounter
               /\ admitted = [w \in {WindowOf(t, LimitPeriod) : t \in LimitTimes} |-> 0]

(* consumeRate(), consumeQuota().                                          *)
Consume(t) ==
  LET next == ConsumeState(counter, LimitCapacity, LimitPeriod, 1, t)
  IN /\ counter' = next.state
     /\ admitted' = IF next.allowed THEN [admitted EXCEPT ![next.state.windowStart] = @ + 1] ELSE admitted

CounterNext == \E t \in LimitTimes : Consume(t)

(* No window admits more than its capacity, although the clock goes back   *)
(* into a window that was left (consumeState, clockTime).                  *)
WindowWithinCapacity == \A w \in DOMAIN admitted : admitted[w] <= LimitCapacity

-----------------------------------------------------------------------------
NoCall == [pc |-> "idle", wrapped |-> FALSE, aborted |-> FALSE, renewal |-> "none", release |-> "none",
           lost |-> FALSE]

LimitInit == /\ bucket = NoLeases /\ owned = {} /\ closing = "open"
             /\ calls = [c \in LimitCalls |-> NoCall]

Open == closing = "open"
Live(t) == LiveState(bucket, t)

(* acquire(), and withLease(), which acquires at once.                     *)
Call(c, wrapped) == /\ Open /\ calls[c].pc = "idle"
                    /\ calls' = [calls EXCEPT ![c].pc = "acquire", ![c].wrapped = wrapped]
                    /\ UNCHANGED <<bucket, owned, closing>>

(* store.acquire: the lease is granted, denied, or lost with the answer.   *)
(* Then a wrapper starts its execution, or finds itself aborted; with the  *)
(* policy `allow' it may run without a lease.                              *)
Acquire(c, t) ==
  /\ calls[c].pc = "acquire"
  /\ LET granted == Admits(Live(t), LimitCapacity, 1)
     IN /\ bucket' = IF granted THEN AcquireState(Live(t), c, 1, LimitTtl) ELSE Live(t)
        /\ \/ calls' = [calls EXCEPT ![c].pc = IF granted THEN "acquired" ELSE "done"]
           \/ /\ granted
              /\ \E pc \in {"done"} \cup (IF calls[c].wrapped /\ ~calls[c].aborted THEN {"held"} ELSE {}) :
                   calls' = [calls EXCEPT ![c].lost = TRUE, ![c].pc = pc]
  /\ UNCHANGED <<owned, closing>>

Acquired(c) ==
  /\ calls[c].pc = "acquired"
  /\ owned' = owned \cup {c}
  /\ calls' = [calls EXCEPT ![c].pc = IF calls[c].aborted THEN "finally" ELSE "held"]
  /\ UNCHANGED <<bucket, closing>>

AcquireFails(c) == /\ calls[c].pc = "acquire"
                   /\ \/ calls' = [calls EXCEPT ![c].pc = "done"]
                      \/ /\ calls[c].wrapped /\ ~calls[c].aborted   \* failurePolicy "allow"
                         /\ calls' = [calls EXCEPT ![c].pc = "held", ![c].lost = TRUE]
                   /\ UNCHANGED <<bucket, owned, closing>>

(* renew(), by the caller or the wrapper's timer.  After close() it is     *)
(* rejected, which aborts a wrapper.                                       *)
Renew(c) ==
  /\ calls[c].pc = "held" /\ calls[c].renewal = "none" /\ ~calls[c].aborted /\ ~calls[c].lost
  /\ \/ Open /\ calls' = [calls EXCEPT ![c].renewal = "sent"]
     \/ ~Open /\ calls[c].wrapped /\ calls' = [calls EXCEPT ![c].aborted = TRUE]
  /\ UNCHANGED <<bucket, owned, closing>>

RenewStored(c, t) ==
  /\ calls[c].renewal = "sent"
  /\ \/ /\ bucket' = RenewState(Live(t), c, LimitTtl)
        /\ calls' = [calls EXCEPT ![c].renewal = IF Holding(Live(t), c) = {} THEN "lost" ELSE "renewed"]
     \/ /\ bucket' \in {bucket, RenewState(Live(t), c, LimitTtl)}   \* or fails
        /\ calls' = [calls EXCEPT ![c].renewal = "none", ![c].aborted = calls[c].wrapped]
  /\ UNCHANGED <<owned, closing>>

Renewed(c) ==
  /\ calls[c].renewal \in {"renewed", "lost"}
  /\ owned' = IF calls[c].renewal = "lost" THEN owned \ {c} ELSE owned
  /\ calls' = [calls EXCEPT ![c].renewal = "none",
                            ![c].aborted = @ \/ (calls[c].wrapped /\ calls[c].renewal = "lost")]
  /\ UNCHANGED <<bucket, closing>>

(* A wrapped execution ends, by itself or on its signal.                   *)
Executed(c) == /\ calls[c].pc = "held" /\ calls[c].wrapped
               /\ calls' = [calls EXCEPT ![c].pc = "finally"]
               /\ UNCHANGED <<bucket, owned, closing>>

(* release(), by the caller or after the wrapper's last renewal.           *)
Release(c) ==
  /\ calls[c].release = "none"
  /\ \/ /\ calls[c].pc = "held" /\ ~calls[c].wrapped /\ Open
        /\ calls' = [calls EXCEPT ![c].release = "sent"]
     \/ /\ calls[c].pc = "finally" /\ calls[c].renewal = "none"
        /\ calls' = [calls EXCEPT ![c] = IF @.lost THEN [@ EXCEPT !.pc = "done"] ELSE [@ EXCEPT !.release = "sent"]]
  /\ UNCHANGED <<bucket, owned, closing>>

ReleaseStored(c, t) ==
  /\ calls[c].release = "sent"
  /\ \/ /\ bucket' = ReleaseState(Live(t), c)
        /\ calls' = [calls EXCEPT ![c].release = "released"]
     \/ /\ bucket' \in {bucket, ReleaseState(Live(t), c)}   \* or fails
        /\ calls' = [calls EXCEPT ![c].release = "none", ![c].pc = IF calls[c].wrapped THEN "done" ELSE "held"]
  /\ UNCHANGED <<owned, closing>>

Released(c) == /\ calls[c].release = "released"
               /\ owned' = owned \ {c}
               /\ calls' = [calls EXCEPT ![c].release = "none", ![c].pc = "done"]
               /\ UNCHANGED <<bucket, closing>>

-----------------------------------------------------------------------------
CloseLimits == /\ Open
               /\ closing' = "drain"
               /\ calls' = [c \in LimitCalls |-> IF calls[c].wrapped THEN [calls[c] EXCEPT !.aborted = TRUE] ELSE calls[c]]
               /\ UNCHANGED <<bucket, owned>>

Running(c) == calls[c].wrapped /\ calls[c].pc \notin {"idle", "done"}
Pending(c) == calls[c].pc \in {"acquire", "acquired"} \/ calls[c].renewal # "none" \/ calls[c].release # "none"

(* What close() waits for before it releases what is owned.                *)
Drains == \A c \in LimitCalls : ~Running(c) /\ ~Pending(c)

LimitsDrained == /\ closing = "drain" /\ Drains
                 /\ closing' = "release" /\ UNCHANGED <<bucket, owned, calls>>

(* Each owned lease is released; one failure is enough to report.          *)
CloseReleases(t) ==
  /\ closing = "release"
  /\ \/ /\ bucket' = [Live(t) EXCEPT !.leases = {l \in @ : l.token \notin owned}]
        /\ owned' = {} /\ closing' = "closed"
     \/ /\ owned # {} /\ closing' = "failed"
        /\ \E done \in SUBSET owned :
             /\ owned' = owned \ done
             /\ bucket' = [Live(t) EXCEPT !.leases = {l \in @ : l.token \notin done}]
  /\ UNCHANGED calls

LimitNext == \/ CloseLimits \/ LimitsDrained \/ \E t \in LimitTimes : CloseReleases(t)
             \/ \E c \in LimitCalls :
                  \/ \E wrapped \in BOOLEAN : Call(c, wrapped)
                  \/ Acquired(c) \/ AcquireFails(c) \/ Renew(c) \/ Renewed(c) \/ Executed(c)
                  \/ Release(c) \/ Released(c)
                  \/ \E t \in LimitTimes : Acquire(c, t) \/ RenewStored(c, t) \/ ReleaseStored(c, t)

LimitsNext == \/ CounterNext /\ UNCHANGED leaseVars
              \/ LimitNext /\ UNCHANGED counterVars

LimitsSpec == CounterInit /\ LimitInit /\ [][LimitsNext]_<<counterVars, leaseVars>>

(* Once close() has resolved, nothing runs under the service and the store *)
(* holds no lease of it, although acquisitions, renewals and releases were *)
(* under way or had failed; excepted are leases whose grant was never      *)
(* answered, which expire (close, operation, releaseOwned).                *)
ClosedHoldsNothing ==
  closing = "closed" => /\ \A l \in bucket.leases : calls[l.token].lost
                        /\ \A c \in LimitCalls : ~Running(c)

(* Both: the limits hold, whatever the clocks read and however calls fail. *)
LimitsHold == WindowWithinCapacity /\ ClosedHoldsNothing
=============================================================================
