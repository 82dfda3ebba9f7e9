----------------------------- MODULE MCTokenCache -----------------------------
(* TokenCache with the callers and bounds of the cfg files.                *)
EXTENDS TokenCache, TLC

Symmetry == Permutations(Caller)
=============================================================================
