--------------------------- MODULE MCRunEngine ---------------------------
(* The two instances TLC checks the run engine on, chosen at the start: one  *)
(* run with a child, through three builds; or two runs of one project under  *)
(* one slot, with neither and no hold of the instance, where a wait frees the *)
(* slot and no stage is refused.                                             *)
EXTENDS RunEngine

VARIABLE instance

(* Three harness builds of one lane: the second dropped b for c, the third   *)
(* dropped c as well and keeps a line for each.                              *)
Old == [stages |-> {"a", "b"}, first |-> "a", retired |-> <<>>]
Mid == [stages |-> {"a", "c"}, first |-> "a", retired |-> [s \in {"b"} |-> "c"]]
New == [stages |-> {"a", "d"}, first |-> "a", retired |-> [s \in {"b", "c"} |-> "d"]]

ThreeBuilds == {Old, Mid, New}
Forward == {<<Old, Old>>, <<Mid, Mid>>, <<New, New>>, <<Old, Mid>>, <<Mid, New>>, <<Old, New>>}

OneProject == [r \in Runs |-> "p"]
CapOne == [p \in Projects |-> 1]

First == CHOOSE r \in Runs : TRUE
Within ==
  CASE instance = "builds" -> \A r \in Runs \ {First} : led[r].phase = "absent"
    [] instance = "slots" -> /\ build = Old /\ starts < MaxStarts /\ Instance \notin scopes
                             /\ \A r \in Runs : /\ mem[r].seats = 0 /\ led[r].pin = AnyBlob
                                             /\ led[r].wait # "keeps" /\ led[r].viol = 0

MCInit == Init /\ instance \in {"builds", "slots"} /\ Within
MCSpec == MCInit /\ [][Next /\ UNCHANGED instance /\ Within']_<<vars, instance>> /\ Fairness
===========================================================================
