---------------------------- MODULE MCSeatSlots ----------------------------
(* The instances TLC checks the seat slots on: a fan-out of two seats in one *)
(* run and a seat of another, over a capped model and its fallback.          *)
EXTENDS SeatSlots

CONSTANTS r1, r2, s1, s2, s3

Whose == [s \in {s1, s2, s3} |-> IF s = s3 THEN r2 ELSE r1]
Few == [s \in {s1, s2, s3} |-> IF s = s3 THEN 1 ELSE 2]

(* The key of the spine is taken away and given back under its waiters. *)
Edits == {[m \in Models |-> 1], [m \in Models |-> IF m = Fallback THEN 1 ELSE NoCap]}
===========================================================================
