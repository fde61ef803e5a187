------------------------------ MODULE MCGroups ------------------------------
(* A group of its owner and two users, for TLC.                            *)
EXTENDS Groups, TLC
CONSTANTS k1, k2, k3, c1, c2, u1, u2
GroupSymmetry ==
    Permutations({k1, k2, k3}) \cup Permutations({c1, c2}) \cup Permutations({u1, u2})
=============================================================================
