---------------------------- MODULE MCGateLayers ----------------------------
(* A frozen suite of two parts, which the base never certifies; beside it a  *)
(* layer the base certifies, whose ground half of the diffs leave alone; and *)
(* one that needs the suite.  Then updates that bring an inert file, a       *)
(* record, a suite file, one nobody claims, or one of the story's.           *)
EXTENDS FastPath

Table == <<"unit", "lint", "e2e">>
TableNeeds == [l \in {"unit", "lint", "e2e"} |-> IF l = "e2e" THEN {"unit"} ELSE {}]
TableGroup == [l \in {"unit", "lint", "e2e"} |-> IF l = "e2e" THEN 0 ELSE 1]
TableParts == [l \in {"unit", "lint", "e2e"} |->
                  CASE l = "unit" -> {"u1", "u2"} [] l = "lint" -> {"l1"} [] l = "e2e" -> {"e1"}]
TableGround == [p \in {"u1", "u2", "l1", "e1"} |->
                   CASE p = "u1" -> {"f1"} [] p = "u2" -> {"f2"} [] p = "l1" -> {"f2"} [] p = "e1" -> {"f1"}]
FindingGrounds == {{}, {{"notes"}}}
Incoming == {{"notes"}, {"minutes", "adr"}, {"f1"}, {"spec"}, {"odd", "adr"}}
AllButUnit == {{"lint", "e2e"}}
=============================================================================
