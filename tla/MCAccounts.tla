----------------------------- MODULE MCAccounts -----------------------------
(* Instances of Accounts for TLC.                                          *)
EXTENDS Accounts, TLC

CONSTANTS u1, u2, u3

(* A cent and a half in, half a cent or a whole cent out.                  *)
HalfCents == {3, -1, -2}

(* One account that two others follow, block and mute, and that follows    *)
(* one of them.                                                            *)
Triangle == {<<u1, u2>>, <<u1, u3>>, <<u2, u1>>}

(* Strangers, friends, and an account that has blocked both others.        *)
Beginnings ==
    {{}, {Follows(u1, u2), Follows(u1, u3), Follows(u2, u1)}, {Blocks(u1, u2), Blocks(u1, u3)}}

Interchangeable == Permutations(Workers)
=============================================================================
