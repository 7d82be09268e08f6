----------------------------- MODULE MCReconcile -----------------------------
(* The records and reconcile stages over two records: an instance spends its *)
(* bounds on the birth, on the runs that come back, on crashes and answers,  *)
(* or on corrective rounds.  The last start behind a birth of one record.    *)
EXTENDS Reconcile

CONSTANTS Instances, BornBefore

Births == {"story", "ticket"}
Mode(instance) == IF instance = "ticket" THEN "records" ELSE IF instance \in {"records", "advisory"} THEN instance ELSE "code"
Used(instance) == [crashes |-> IF instance \in {"returns", "rounds"} THEN MaxCrashes ELSE 0,
                   answers |-> IF instance \in {"returns", "rounds"} THEN MaxAnswers ELSE 0,
                   trouble |-> IF instance = "story" THEN MaxTrouble ELSE IF instance \in {"rounds", "all"} THEN 0 ELSE 1,
                   returns |-> IF instance \in {"returns", "all"} THEN 0 ELSE MaxReturns]
Finished == at.pc \in {"left", "parked", "closed"} /\ UNCHANGED stageVars
MCInit == \E instance \in Instances :
             ReconcileStart(Mode(instance), Used(instance), IF instance \in Births THEN <<>> ELSE <<RecordsCommitted("", BornBefore)>>)
MCSpec == MCInit /\ [][ReconcileNext \/ Finished]_stageVars /\ WF_stageVars(Handler)
=============================================================================
