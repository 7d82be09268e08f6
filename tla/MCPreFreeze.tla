--------------------------- MODULE MCPreFreeze ---------------------------
(* The lane before the freeze, its blocking findings interchangeable. *)
EXTENDS PreFreeze, TLC

BlockersAreAlike == Permutations(Blockers)
=============================================================================
