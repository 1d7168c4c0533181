---------------------------- MODULE MCBoltzSwaps ----------------------------
(* Small instances of BoltzSwaps.                                          *)
EXTENDS BoltzSwaps, TLC
CONSTANTS s1, r1, t1, t2
=============================================================================
