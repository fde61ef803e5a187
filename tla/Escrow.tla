------------------------------- MODULE Escrow -------------------------------
(***************************************************************************)
(* What the payouts of server/src/payments promise, whoever acts on them:  *)
(* the amount of a payout is in one place at a time.  It leaves the wallet *)
(* once, is held until somebody decides, and is then sent through Stripe,  *)
(* handed over by hand, or returned to the wallet.  A transfer that fails  *)
(* is held again; what was handed over or returned stays where it is.      *)
(*                                                                         *)
(* A payout may also become void: the code makes no promise about it any   *)
(* more.  Module Payouts names the two windows in which that happens.      *)
(***************************************************************************)
CONSTANT Payouts

VARIABLE place  \* place[p]: where the amount of payout p is

Places == {"none", "held", "sent", "handed", "returned", "void"}

Init == place = [p \in Payouts |-> "none"]

Move(p, from, to) == place[p] = from /\ place' = [place EXCEPT ![p] = to]

Take(p) == Move(p, "none", "held")
Send(p) == Move(p, "held", "sent")
Bounce(p) == Move(p, "sent", "held")
HandOver(p) == Move(p, "held", "handed")
GiveBack(p) == Move(p, "held", "returned")
Void(p) == place' = [place EXCEPT ![p] = "void"]

Next ==
    \E p \in Payouts :
        Take(p) \/ Send(p) \/ Bounce(p) \/ HandOver(p) \/ GiveBack(p) \/ Void(p)

Spec == Init /\ [][Next]_place
=============================================================================
