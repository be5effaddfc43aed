---------------------------- MODULE MCTaskStore ----------------------------
(***************************************************************************)
(* A small job table for TLC: two jobs, one deduplication key, two inputs, *)
(* exponential retry delays, and host clocks that disagree.                *)
(***************************************************************************)
EXTENDS TaskStore, TLC

MCJobIds == {1, 2}
MCShiftLeft(n) == 2 ^ n
=============================================================================
