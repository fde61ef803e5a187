----------------------------- MODULE MCPayments -----------------------------
(* Payments on small instances: the workers are interchangeable.           *)
EXTENDS Payments, TLC

Interchangeable == Permutations(Workers)
=============================================================================
