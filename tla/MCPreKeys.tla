----------------------------- MODULE MCPreKeys -----------------------------
EXTENDS PreKeys, TLC

CONSTANTS d1, d2, h1, h2

(* Two hooks on one device, or one hook on each of two devices.            *)
OneDevice == [h \in Hooks |-> d1]
TwoDevices == [h \in Hooks |-> IF h = h1 THEN d1 ELSE d2]
Interchangeable == Permutations(Peers)
==============================================================================
