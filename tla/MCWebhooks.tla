----------------------------- MODULE MCWebhooks -----------------------------
(***************************************************************************)
(* Webhook deliveries for TLC.                                             *)
(***************************************************************************)
EXTENDS Webhooks, TLC

MCSymmetry == Permutations(Deliveries) \cup Permutations(Execs)
=============================================================================
