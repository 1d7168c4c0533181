--------------------------- MODULE MCGuardrails ---------------------------
(* Guardrails on two callers: limits of three and two cents, a window of  *)
(* two ticks, amounts from an invalid 0 to one above the per-tx limit.    *)
EXTENDS Guardrails, TLC

MCSymmetry == Permutations(Callers)
===========================================================================
