---------------------------- MODULE MCLifecycle ----------------------------
(* Two processes, ids that are used again, one of them unable to tell its   *)
(* boot.                                                                    *)
EXTENDS Lifecycle, TLC
CONSTANTS p1, p2, s1, s2, a, b

ThePids == 1..2
TheSandboxed == {p2}
TheRuns == [p \in Procs |-> IF p = p1 THEN {"serve", "init", "backup"} ELSE {"init", "restore"}]
Symmetry == Permutations({s1, s2}) \union Permutations({a, b})
=============================================================================
