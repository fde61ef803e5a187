--------------------------- MODULE MCMarketplace ----------------------------
EXTENDS Marketplace, TLC

(* One tip for the fan, two stickers or payouts for the creator.           *)
FirstWallets == [fan |-> 10, creator |-> 18]

(* A negative quantity, none, and one unit.                                *)
SomeSizes == {-1, 0, 1}

Symmetry == Permutations(Requests) \cup Permutations(Reservations) \cup Permutations(Sessions)
==============================================================================
