---------------------------- MODULE MCScheduler ----------------------------
(***************************************************************************)
(* One schedule, hosts that race for it and an editor, for TLC.            *)
(***************************************************************************)
EXTENDS Scheduler, TLC

MCSchedules == {1}

Cron == [kind |-> "cron", at |-> 0, misfire |-> "coalesce", graceMs |-> 0]
Once == [kind |-> "once", at |-> 1, misfire |-> "skip", graceMs |-> 0]

(* Hosts are interchangeable.                                              *)
HostSymmetry == Permutations(Hosts)

MCCron == {Cron}
MCBoth == {Cron, Once}
=============================================================================
