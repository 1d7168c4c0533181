----------------------------- MODULE MCWithdraw -----------------------------
(* Small instances of Withdraw.                                            *)
EXTENDS Withdraw, TLC
CONSTANTS w1, w2, r1, c1, c2, live, live2, test

MCSymmetry == Permutations(Coins)
=============================================================================
