------------------------------- MODULE Events -------------------------------
(***************************************************************************)
(* Durable events (packages/events): the D1 store and the asynchronous     *)
(* service of several processes over it, with subscribe, unsubscribe,      *)
(* publish, dispatch and close.                                            *)
(*                                                                         *)
(* A store call is one batch and one step.  Times are counted down: `left' *)
(* is the time until a delivery is available or its lease ends, by the     *)
(* database's clock.  A dispatcher's claim token is its own name, since it *)
(* holds one claim at a time.  Abstracted: payloads, and topics (one).     *)
(*                                                                         *)
(* The definition introduced by `Slip:' is not part of the model: it is a  *)
(* plausible mistake in the one that follows it, and a mutation run checks *)
(* that a property notices it.                                             *)
(***************************************************************************)
EXTENDS Integers, Sequences, FiniteSets

CONSTANTS EventIds, Subs, EventProcs,
          DispatchersOf,    \* DispatchersOf[p]: dispatch() calls a process may have under way
          EventLease,       \* leaseMs
          RetryDelay,       \* retryDelayMs
          MaxEventFaults    \* bound: failing or slow handlers, failing calls, crashes

(* A call is made in one process; the two times are positive integers.     *)
ASSUME EventAssumption ==
  /\ \A p, q \in EventProcs : p # q => DispatchersOf[p] \cap DispatchersOf[q] = {}
  /\ EventLease \in Nat /\ RetryDelay \in Nat

VARIABLES subs,        \* subs[s]: none, active or cancelled, as stored
          deliveries,  \* deliveries[e][s]
          published,   \* events stored
          audience,    \* audience[e]: subscriptions active when e was first published
          handlers,    \* handlers[p]: subscriptions with a handler
          attached,    \* attached[p]: subscriptions taken by subscribe()
          changes,     \* changes[p][s]: mutate(): register and cancel calls in order
          dispatchers, \* dispatchers[d]: a dispatch() call
          eventProcs,  \* eventProcs[p]: open, closing, closed or crashed
          eventFaults

Dispatchers == UNION {DispatchersOf[p] : p \in EventProcs}
ProcOf(d) == CHOOSE p \in EventProcs : d \in DispatchersOf[p]

stored == <<subs, deliveries, published, audience>>
eventVars == <<stored, handlers, attached, changes, dispatchers, eventProcs, eventFaults>>

NoDelivery == [state |-> "none", token |-> 0, left |-> 0]
NoDispatch == [pc |-> "idle", e |-> 0, s |-> 0, ids |-> {}, aborted |-> FALSE]

EventInit == /\ subs = [s \in Subs |-> "none"]
             /\ deliveries = [e \in EventIds |-> [s \in Subs |-> NoDelivery]]
             /\ published = {} /\ audience = [e \in EventIds |-> {}]
             /\ handlers = [p \in EventProcs |-> {}] /\ attached = [p \in EventProcs |-> {}]
             /\ changes = [p \in EventProcs |-> [s \in Subs |-> << >>]]
             /\ dispatchers = [d \in Dispatchers |-> NoDispatch]
             /\ eventProcs = [p \in EventProcs |-> "open"]
             /\ eventFaults = 0

EventFault == eventFaults < MaxEventFaults /\ eventFaults' = eventFaults + 1
IsOpen(p) == eventProcs[p] = "open"
DAt(d, pc) == dispatchers[d].pc = pc

(* A dispatcher works under this claim.                                    *)
Held(e, s) == \E d \in Dispatchers : /\ dispatchers[d].e = e /\ dispatchers[d].s = s
                                     /\ deliveries[e][s].token = d /\ deliveries[e][s].left > 0

(* Time passes.  Handlers finish within their lease; one that does not is  *)
(* a fault.                                                                *)
EventTick ==
  /\ \E e \in EventIds, s \in Subs : deliveries[e][s].left > 0
  /\ IF \E e \in EventIds, s \in Subs : Held(e, s) /\ deliveries[e][s].left = 1
     THEN EventFault ELSE UNCHANGED eventFaults
  /\ deliveries' = [e \in EventIds |-> [s \in Subs |->
       [deliveries[e][s] EXCEPT !.left = IF @ > 0 THEN @ - 1 ELSE 0]]]
  /\ UNCHANGED <<subs, published, audience, handlers, attached, changes, dispatchers, eventProcs>>

-----------------------------------------------------------------------------
(* The subscriptions that a publication reaches: if it inserted the event. *)
FansOut(e) == {s \in Subs : subs[s] = "active" /\ e \notin published}

(* publish(), by any producer, as often as it likes.                       *)
Publish(e) ==
  /\ published' = published \cup {e}
  /\ audience' = IF e \in published THEN audience
                 ELSE [audience EXCEPT ![e] = {s \in Subs : subs[s] = "active"}]
  /\ deliveries' = [deliveries EXCEPT ![e] = [s \in Subs |->
       IF s \in FansOut(e) THEN [NoDelivery EXCEPT !.state = "pending"] ELSE @[s]]]
  /\ UNCHANGED <<subs, handlers, attached, changes, dispatchers, eventProcs, eventFaults>>

(* subscribe() and unsubscribe() queue behind earlier changes of the id.   *)
Subscribe(p, s) ==
  /\ IsOpen(p) /\ s \notin attached[p] /\ subs[s] # "cancelled"   \* bound: ids that cannot succeed
  /\ attached' = [attached EXCEPT ![p] = @ \cup {s}]
  /\ changes' = [changes EXCEPT ![p][s] = Append(@, "register")]
  /\ UNCHANGED <<stored, handlers, dispatchers, eventProcs, eventFaults>>

Unsubscribe(p, s) ==
  /\ IsOpen(p) /\ s \in attached[p] /\ Len(changes[p][s]) < 2   \* bound
  /\ changes' = [changes EXCEPT ![p][s] = Append(@, "cancel")]
  /\ UNCHANGED <<stored, handlers, attached, dispatchers, eventProcs, eventFaults>>

Aborts(p, ids) == [d \in Dispatchers |-> IF d \in DispatchersOf[p] /\ DAt(d, "handle") /\ dispatchers[d].s \in ids
                                         THEN [dispatchers[d] EXCEPT !.aborted = TRUE] ELSE dispatchers[d]]

(* The store's part of a change: register, which refuses a cancelled id,   *)
(* or cancel; or the call fails.                                           *)
ChangeStored(p, s) ==
  /\ changes[p][s] # << >> /\ Head(changes[p][s]) \in {"register", "cancel"}
  /\ LET op == Head(changes[p][s])
         becomes(result) == changes' = [changes EXCEPT ![p][s] = <<result>> \o Tail(@)]
     IN \/ /\ op = "register" /\ subs[s] # "cancelled"
           /\ subs' = [subs EXCEPT ![s] = "active"]
           /\ becomes("registered") /\ UNCHANGED <<deliveries, eventFaults>>
        \/ op = "register" /\ subs[s] = "cancelled" /\ becomes("refused") /\ UNCHANGED <<subs, deliveries, eventFaults>>
        \/ /\ op = "cancel"
           /\ subs' = [subs EXCEPT ![s] = IF @ = "none" THEN @ ELSE "cancelled"]
           /\ deliveries' = [e \in EventIds |-> [deliveries[e] EXCEPT ![s] =
                IF @.state \in {"pending", "processing"} THEN [NoDelivery EXCEPT !.state = "cancelled"] ELSE @]]
           /\ becomes("cancelled") /\ UNCHANGED eventFaults
        \/ /\ EventFault /\ becomes(IF op = "register" THEN "refused" ELSE "failed")
           /\ UNCHANGED <<subs, deliveries>>
  /\ UNCHANGED <<published, audience, handlers, attached, dispatchers, eventProcs>>

(* Its continuation: attach or detach the handler, and abort its runs.     *)
ChangeDone(p, s) ==
  /\ changes[p][s] # << >> /\ Head(changes[p][s]) \notin {"register", "cancel"}
  /\ changes' = [changes EXCEPT ![p][s] = Tail(@)]
  /\ LET op == Head(changes[p][s])
     IN /\ handlers' = [handlers EXCEPT ![p] = CASE op = "registered" /\ IsOpen(p) -> @ \cup {s}
                                                 [] op = "cancelled" -> @ \ {s}
                                                 [] OTHER -> @]
        /\ attached' = [attached EXCEPT ![p] = IF op \in {"refused", "cancelled"} THEN @ \ {s} ELSE @]
        /\ dispatchers' = IF op = "cancelled" THEN Aborts(p, {s}) ELSE dispatchers
  /\ UNCHANGED <<stored, eventProcs, eventFaults>>

-----------------------------------------------------------------------------
(***************************************************************************)
(* dispatch()                                                              *)
(***************************************************************************)
Dispatch(d) == /\ IsOpen(ProcOf(d)) /\ DAt(d, "idle") /\ handlers[ProcOf(d)] # {}
               /\ dispatchers' = [dispatchers EXCEPT ![d].pc = "claim"]
               /\ UNCHANGED <<stored, handlers, attached, changes, eventProcs, eventFaults>>

(* The claim carries the handlers of the moment it is sent.                *)
ClaimSent(d) == /\ DAt(d, "claim")
                /\ dispatchers' = [dispatchers EXCEPT ![d].pc = "claiming", ![d].ids = handlers[ProcOf(d)]]
                /\ UNCHANGED <<stored, handlers, attached, changes, eventProcs, eventFaults>>

Claimable(e, s) == /\ deliveries[e][s].state \in {"pending", "processing"}
                   /\ deliveries[e][s].left = 0 /\ subs[s] = "active"

(* store.claim: one delivery that is due or whose lease has expired.       *)
Claim(d) ==
  /\ DAt(d, "claiming")
  /\ \/ \E e \in EventIds, s \in dispatchers[d].ids :
          /\ Claimable(e, s)
          /\ deliveries' = [deliveries EXCEPT ![e][s] = [state |-> "processing", token |-> d, left |-> EventLease]]
          /\ dispatchers' = [dispatchers EXCEPT ![d] = [NoDispatch EXCEPT !.pc = "claimed", !.e = e, !.s = s]]
     \/ /\ \A e \in EventIds, s \in dispatchers[d].ids : ~Claimable(e, s)
        /\ dispatchers' = [dispatchers EXCEPT ![d] = NoDispatch] /\ UNCHANGED deliveries
  /\ UNCHANGED <<subs, published, audience, handlers, attached, changes, eventProcs, eventFaults>>

(* Slip: what was attached when the claim was sent is still attached.      *)
MayHandleClaimed(d) == TRUE

(* The claim may return after close() or unsubscribe().                    *)
MayHandle(d) == IsOpen(ProcOf(d)) /\ dispatchers[d].s \in handlers[ProcOf(d)]

(* The next iteration, or the end of the pass.                             *)
NextTurn(d) == \E pc \in {"claim", "idle"} :
                 /\ pc = "claim" => IsOpen(ProcOf(d))
                 /\ dispatchers' = [dispatchers EXCEPT ![d] = [NoDispatch EXCEPT !.pc = pc]]

Claimed(d) == /\ DAt(d, "claimed")
              /\ \/ MayHandle(d) /\ dispatchers' = [dispatchers EXCEPT ![d].pc = "handle"]
                 \/ ~MayHandle(d) /\ NextTurn(d)
              /\ UNCHANGED <<stored, handlers, attached, changes, eventProcs, eventFaults>>

(* The handler returns or throws, and the delivery is acknowledged or      *)
(* retried, if the claim is still valid.                                   *)
Handled(d) ==
  /\ DAt(d, "handle")
  /\ \/ dispatchers' = [dispatchers EXCEPT ![d].pc = "acknowledge"] /\ UNCHANGED eventFaults
     \/ EventFault /\ dispatchers' = [dispatchers EXCEPT ![d].pc = "retry"]
  /\ UNCHANGED <<stored, handlers, attached, changes, eventProcs>>

Answer(d) ==
  /\ dispatchers[d].pc \in {"acknowledge", "retry"}
  /\ LET e == dispatchers[d].e
         s == dispatchers[d].s
         valid == deliveries[e][s].state = "processing" /\ deliveries[e][s].token = d /\ deliveries[e][s].left > 0
         next == IF DAt(d, "retry") THEN [NoDelivery EXCEPT !.state = "pending", !.left = RetryDelay]
                                    ELSE [NoDelivery EXCEPT !.state = "delivered"]
     IN deliveries' = IF valid THEN [deliveries EXCEPT ![e][s] = next] ELSE deliveries
  /\ NextTurn(d)
  /\ UNCHANGED <<subs, published, audience, handlers, attached, changes, eventProcs, eventFaults>>

-----------------------------------------------------------------------------
Close(p) == /\ IsOpen(p)
            /\ eventProcs' = [eventProcs EXCEPT ![p] = "closing"]
            /\ dispatchers' = Aborts(p, Subs)
            /\ UNCHANGED <<stored, handlers, attached, changes, eventFaults>>

(* close() resolves when every operation has.                              *)
Closed(p) == /\ eventProcs[p] = "closing"
             /\ \A d \in DispatchersOf[p] : DAt(d, "idle")
             /\ \A s \in Subs : changes[p][s] = << >>
             /\ eventProcs' = [eventProcs EXCEPT ![p] = "closed"]
             /\ handlers' = [handlers EXCEPT ![p] = {}] /\ attached' = [attached EXCEPT ![p] = {}]
             /\ UNCHANGED <<stored, changes, dispatchers, eventFaults>>

Crash(p) == /\ eventProcs[p] \in {"open", "closing"} /\ EventFault
            /\ eventProcs' = [eventProcs EXCEPT ![p] = "crashed"]
            /\ handlers' = [handlers EXCEPT ![p] = {}] /\ attached' = [attached EXCEPT ![p] = {}]
            /\ changes' = [changes EXCEPT ![p] = [s \in Subs |-> << >>]]
            /\ dispatchers' = [d \in Dispatchers |-> IF d \in DispatchersOf[p] THEN NoDispatch ELSE dispatchers[d]]
            /\ UNCHANGED stored

-----------------------------------------------------------------------------
DispatchStep(d) == Dispatch(d) \/ ClaimSent(d) \/ Claim(d) \/ Claimed(d) \/ Handled(d) \/ Answer(d)

EventNext == \/ EventTick
             \/ \E e \in EventIds : Publish(e)
             \/ \E p \in EventProcs : \/ Close(p) \/ Closed(p) \/ Crash(p)
                                      \/ \E s \in Subs : \/ Subscribe(p, s) \/ Unsubscribe(p, s)
                                                         \/ ChangeStored(p, s) \/ ChangeDone(p, s)
             \/ \E d \in Dispatchers : DispatchStep(d)

EventSpec == EventInit /\ [][EventNext]_eventVars

-----------------------------------------------------------------------------
(* An event has a delivery for exactly the subscriptions that were active  *)
(* when it was first published: a producer's repetition adds none, and a   *)
(* cancellation keeps the record (publish: changes() = 1, in one batch).   *)
FanOutIsExact ==
  \A e \in EventIds : {s \in Subs : deliveries[e][s].state # "none"} = audience[e]

(* A handler that should not run has been told: once a subscription is     *)
(* detached or the service closes, every handler still running for it has  *)
(* its signal aborted, and none is started by a claim that was under way   *)
(* (dispatch after claim, unsubscribe, close).                             *)
AbortReachesHandlers ==
  \A d \in Dispatchers : LET p == ProcOf(d) IN
    /\ DAt(d, "handle") /\ (~IsOpen(p) \/ dispatchers[d].s \notin handlers[p]) => dispatchers[d].aborted
    /\ eventProcs[p] = "closed" => DAt(d, "idle")

(* Every delivery ends, although processes crash and claims are lost, as   *)
(* long as an open process handles its subscription.                       *)
DeliveriesEnd ==
  \A e \in EventIds, s \in Subs :
    deliveries[e][s].state = "pending" ~>
      \/ deliveries[e][s].state \in {"delivered", "cancelled"}
      \/ \A p \in EventProcs : s \notin handlers[p] \/ ~IsOpen(p)

(* Both: what is fanned out is exact and what runs may run.                *)
EventsAreSound == FanOutIsExact /\ AbortReachesHandlers
=============================================================================
