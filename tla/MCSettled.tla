------------------------------ MODULE MCSettled ------------------------------
(***************************************************************************)
(* The two components whose records must settle, the scheduler's           *)
(* occurrences and a payment with a refund, checked for liveness in one    *)
(* run.  They share no state: each behavior is of one of them, chosen at   *)
(* the start.  Constants that both have mean the same in both.             *)
(***************************************************************************)
EXTENDS MCScheduler

CONSTANTS pay, Refunds, Amount, MaxRefunds, Runs, NoRun, ReplayWindow, Retention, Latency, Reported

VARIABLES part,    \* the component that this behavior is of
          payClock, items, lease, parked, inbox, runs, flights, provider, refusing, payFaults

Payment == INSTANCE Payments WITH Pay <- pay, RefundAmount <- [k \in Refunds |-> Amount],
                                  clock <- payClock, faults <- payFaults

payVars == <<payClock, items, lease, parked, inbox, runs, flights, provider, refusing, payFaults>>

SettledInit == part \in {"scheduler", "payment"} /\ Init /\ Payment!Init

SettledNext == \/ part = "scheduler" /\ Next /\ UNCHANGED <<part, payVars>>
               \/ part = "payment" /\ Payment!Next /\ UNCHANGED <<part, vars>>

(* Time passes and some host keeps ticking; its calls end (Scheduler's     *)
(* FairSpec).  Time passes, writes arrive, and drain() keeps being called  *)
(* (Payments' FairSpec).                                                   *)
SettledFairness ==
  /\ WF_vars(part = "scheduler" /\ Tick)
  /\ \A h \in Hosts : WF_vars(part = "scheduler" /\ HostStep(h))
  /\ WF_payVars(part = "payment" /\ Payment!Tick) /\ WF_payVars(part = "payment" /\ Payment!Deliver)
  /\ \A e \in Refunds \cup {pay} : WF_payVars(part = "payment" /\ Payment!Attach(e))
  /\ \A r \in Runs : WF_payVars(part = "payment" /\ Payment!RunStep(r))

SettledSpec == SettledInit /\ [][SettledNext]_<<part, vars, payVars>> /\ SettledFairness

(* The outcome that the provider reports is recorded at last, whatever was *)
(* lost (Payments' Reconciled).                                            *)
Reconciled == Payment!Reconciled
=============================================================================
