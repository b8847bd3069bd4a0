----------------------------- MODULE MCToolLedger -----------------------------
(* Instance of ToolLedger for TLC: three callers race for two keys. *)
EXTENDS ToolLedger, TLC

CONSTANTS c1, c2, c3, k1, k2

MCCallers  == {c1, c2, c3}
MCKeys     == {k1, k2}

\* Callers and keys are interchangeable in EffectAtMostOnce.
Symmetry == Permutations(MCCallers) \cup Permutations(MCKeys)
===============================================================================
