---------------------------- MODULE MCWalletSync ----------------------------
(* Small instances of WalletSync.                                          *)
EXTENDS WalletSync, TLC
CONSTANTS a, b, w1, w2

\* A restored seed with a payment beyond the gap.
TheHistories == {{<<1, "in">>}}
MCSymmetry == Permutations(Callers) \union Permutations(Wollets)
=============================================================================
