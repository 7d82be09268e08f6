----------------------------- MODULE MCShipLane -----------------------------
(* Five instances in one, each with faults of its own: a moving base and a   *)
(* crash; a moving base and two crashes, where no certification fails; red   *)
(* checks and a request the forge drops; the operator's answers to the parks *)
(* a watch ends in; a red check and a crash.                                 *)
EXTENDS ShipLane
CONSTANTS Instances
Leaves(moves, reds, arms, hands, answers, crashes, repairs) ==
    [moves |-> MaxMoves - moves, reds |-> MaxReds - reds, arms |-> MaxArms - arms,
     hand |-> ~hands, answers |-> MaxAnswers - answers, crashes |-> MaxCrashes - crashes,
     repairs |-> MaxRepairs - repairs]
AnInstance ==
    [moving |-> Leaves(1, 0, 0, FALSE, 0, 1, 1), cut |-> Leaves(1, 0, 0, FALSE, 0, 2, 0), checks |-> Leaves(0, 2, 1, TRUE, 0, 0, 1),
     answered |-> Leaves(0, 0, 1, FALSE, 1, 0, 1), crashed |-> Leaves(0, 1, 0, TRUE, 0, 1, 1)]
Init == \E i \in Instances : ShipStart(AnInstance[i])
Finished == /\ at.pc \in {"parked", "closed"} \/ (stage = "close-out" /\ at.pc = "enter")
            /\ UNCHANGED laneVars
Next == ShipNext \/ Finished
Spec == Init /\ [][Next]_laneVars
=============================================================================
