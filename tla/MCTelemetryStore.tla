------------------------- MODULE MCTelemetryStore -------------------------
(* The values TLC gives the constants of TelemetryStore. *)
EXTENDS TelemetryStore
Run == {"run"}
Both == {"run", "instance"}
Few == [l \in Both |-> IF l = "run" THEN 4 ELSE 1]
===========================================================================
