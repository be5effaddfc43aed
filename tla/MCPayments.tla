----------------------------- MODULE MCPayments -----------------------------
(***************************************************************************)
(* One payment and competing refunds for TLC.                              *)
(***************************************************************************)
EXTENDS Payments, TLC

(* Every refund asks for the whole charge, so any two of them compete.     *)
MCWhole == [k \in Refunds |-> Amount]

MCSymmetry == Permutations(Runs) \cup Permutations(Refunds)
=============================================================================
