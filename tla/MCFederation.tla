---------------------------- MODULE MCFederation ----------------------------
(* Instances of Federation for TLC.                                        *)
EXTENDS Federation, TLC

CONSTANTS d1, d2, a1, a2

(* Two mentioned accounts of one instance, and another instance.           *)
TwoOnOne == a1 :> d1 @@ a2 :> d1

(* One account.                                                            *)
OneOnOne == a1 :> d1

Interchangeable == Permutations(Workers)
=============================================================================
