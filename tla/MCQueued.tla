------------------------------ MODULE MCQueued ------------------------------
(***************************************************************************)
(* The two components that hand work to the task queue, the scheduler and  *)
(* media, checked in one run.  They share no state: each behavior is one   *)
(* of one of them, chosen at the start.                                    *)
(***************************************************************************)
EXTENDS MCScheduler, Media

VARIABLE part    \* the component that this behavior is of

QueuedInit == /\ part \in {"scheduler", "media"}
              /\ Init /\ MediaInit
              /\ part = "scheduler" => task.max = 1    \* media idles: one start is enough

QueuedNext == \/ part = "scheduler" /\ Next /\ UNCHANGED <<part, mediaVars>>
              \/ part = "media" /\ MediaNext /\ UNCHANGED <<part, vars>>

QueuedSpec == QueuedInit /\ [][QueuedNext]_<<part, vars, mediaVars>>
=============================================================================
