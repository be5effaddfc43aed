---------------------------- MODULE MCTaskWorker ----------------------------
(***************************************************************************)
(* Small fleets of workers for TLC.                                        *)
(***************************************************************************)
EXTENDS TaskWorker

MCOneJob == {1}
MCTwoJobs == {1, 2}
MCShiftLeft(n) == 2 ^ n

(* Two lanes of one worker, and two workers of one lane each.              *)
OneWorker == [l \in {"l1", "l2"} |-> "w1"]
TwoWorkers == [l \in {"l1", "l2"} |-> IF l = "l1" THEN "w1" ELSE "w2"]
=============================================================================
