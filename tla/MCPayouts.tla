------------------------------ MODULE MCPayouts ------------------------------
(* Instances of Payouts for TLC.                                           *)
EXTENDS Payouts, TLC

Interchangeable == Permutations(Workers) \cup Permutations(Payouts)
=============================================================================
