-------------------------- MODULE MCVerdictLoop --------------------------
(* The verdict stage with one kind of finding per triage; the review adds its *)
(* own, so that the ladder also meets two kinds at once.                     *)
EXTENDS VerdictLoop

OneOfEachKind == {{}, {"code"}, {"intent"}, {"env"}}
=============================================================================
