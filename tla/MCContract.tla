----------------------------- MODULE MCContract -----------------------------
(* Small instances of Contract: integers of two bits, two signers.         *)
EXTENDS Contract, TLC
CONSTANTS n1, s1, s2, b1, b2
OneNode == {n1}
TwoSigners == {s1, s2}
TwoBatches == {b1, b2}
SmallAmounts == {0, 1, 3}
=============================================================================
