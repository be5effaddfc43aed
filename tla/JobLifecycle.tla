---------------------------- MODULE JobLifecycle ----------------------------
(***************************************************************************)
(* What a task queue promises about each of its jobs, whatever provider    *)
(* keeps them: the states of JobStatus (packages/tasks/src/contracts.ts),  *)
(* the moves between them, a finite budget of attempts, and a cancellation *)
(* request that can no longer be outrun by any other terminal state.       *)
(* Nothing is said of leases, clocks, workers or storage.                  *)
(*                                                                         *)
(* Jobs move independently and several may move in one step, because one   *)
(* provider call may recover many jobs at once.                            *)
(***************************************************************************)
EXTENDS Naturals

CONSTANT JobIds          \* every job identifier the queue may hand out

VARIABLES status,        \* status[j]: where job j is in its life
          attempt,       \* attempt[j]: how many attempts were claimed
          budget,        \* budget[j]: how many attempts j may use
          cancelled      \* cancelled[j]: cancellation was requested

vars == <<status, attempt, budget, cancelled>>

Init == /\ status = [j \in JobIds |-> "absent"]
        /\ attempt = [j \in JobIds |-> 0]
        /\ budget = [j \in JobIds |-> 0]
        /\ cancelled = [j \in JobIds |-> FALSE]

Becomes(j, s) == status'[j] = s

Keeps(j) == attempt'[j] = attempt[j] /\ budget'[j] = budget[j]

(* A producer's job is accepted with at least one attempt to spend.        *)
Accept(j) == /\ status[j] = "absent"
             /\ Becomes(j, "pending")
             /\ attempt'[j] = attempt[j]
             /\ budget'[j] > attempt[j]
             /\ cancelled'[j] = FALSE

(* An attempt starts: only an uncancelled pending job with budget left.    *)
Claim(j) == /\ status[j] = "pending"
            /\ ~cancelled[j]
            /\ attempt[j] < budget[j]
            /\ Becomes(j, "running")
            /\ attempt'[j] = attempt[j] + 1
            /\ budget'[j] = budget[j]
            /\ cancelled'[j] = FALSE

(* The running attempt succeeds, unless cancellation was requested first.  *)
Succeed(j) == /\ status[j] = "running"
              /\ ~cancelled[j]
              /\ Becomes(j, "succeeded")
              /\ Keeps(j)
              /\ cancelled'[j] = FALSE

(* The running attempt ends without success: the job waits for its next    *)
(* attempt while it has one, and fails otherwise.                          *)
EndAttempt(j) == /\ status[j] = "running"
                 /\ ~cancelled[j]
                 /\ Becomes(j, IF attempt[j] < budget[j] THEN "pending" ELSE "failed")
                 /\ Keeps(j)
                 /\ cancelled'[j] = FALSE

(* An attempt is taken over: it ends and the next one starts in one step.  *)
TakeOver(j) == /\ status[j] = "running"
               /\ ~cancelled[j]
               /\ attempt[j] < budget[j]
               /\ Becomes(j, "running")
               /\ attempt'[j] = attempt[j] + 1
               /\ budget'[j] = budget[j]
               /\ cancelled'[j] = FALSE

(* Cancellation is immediate for waiting work, a request for running work. *)
RequestCancel(j) == /\ status[j] \in {"pending", "running"}
                    /\ Becomes(j, IF status[j] = "pending" THEN "cancelled" ELSE "running")
                    /\ Keeps(j)
                    /\ cancelled'[j] = TRUE

(* The end of a running attempt whose cancellation was requested.          *)
ConfirmCancel(j) == /\ status[j] = "running"
                    /\ cancelled[j]
                    /\ Becomes(j, "cancelled")
                    /\ Keeps(j)
                    /\ cancelled'[j] = TRUE

(* An operator grants a failed job exactly one more attempt.               *)
Retry(j) == /\ status[j] = "failed"
            /\ Becomes(j, "pending")
            /\ attempt'[j] = attempt[j]
            /\ budget'[j] = budget[j] + 1
            /\ cancelled'[j] = FALSE

Move(j) == \/ Accept(j) \/ Claim(j) \/ Succeed(j) \/ EndAttempt(j)
           \/ TakeOver(j) \/ RequestCancel(j) \/ ConfirmCancel(j) \/ Retry(j)

Rest(j) == /\ Becomes(j, status[j])
           /\ Keeps(j)
           /\ cancelled'[j] = cancelled[j]

Next == \A j \in JobIds : Move(j) \/ Rest(j)

Spec == Init /\ [][Next]_vars
=============================================================================
