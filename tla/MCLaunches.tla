------------------------------ MODULE MCLaunches ------------------------------
(* Instances of Launches for TLC: "race" has one card left and the operator   *)
(* at work, "trouble" one card left and every fault, "graph" a whole graph.  *)
EXTENDS Launches

CONSTANT Instances

BAfterA == [c \in Cards |-> IF c = "b" THEN {"a"} ELSE {}]

OneCardLeft == [i \in Ids |-> IF i = 3 THEN [card |-> "a", by |-> "frontier", st |-> "shipped", keyed |-> TRUE] ELSE NoRun]
WholeGraph == [i \in Ids |-> NoRun]
Left(commands, faults, downs) ==
    [commands |-> MaxCommands - commands, faults |-> MaxFaults - faults, downs |-> MaxDowns - downs]
Histories == [race |-> [runs |-> OneCardLeft, spent |-> Left(2, 0, 0)],
              trouble |-> [runs |-> OneCardLeft, spent |-> Left(1, 1, 1)],
              graph |-> [runs |-> WholeGraph, spent |-> Left(0, 0, 0)]]

MCInit == /\ up = "down" /\ disk = {} /\ leftovers = {} /\ releases = {} /\ orphans = IdleOrphans
          /\ sweep = IdleSweep /\ queued = FALSE
          /\ desk \in {[armed |-> armed, starved |-> FALSE] : armed \in BOOLEAN}
          /\ \E h \in Instances : runs = Histories[h].runs /\ spent = Histories[h].spent
MCSpec == MCInit /\ [][Next]_vars /\ Fairness
=============================================================================
