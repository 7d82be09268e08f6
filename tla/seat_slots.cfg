SPECIFICATION FairSpec
CONSTANTS
  r1 = r1
  r2 = r2
  s1 = s1
  s2 = s2
  s3 = s3
  Runs = {r1, r2}
  Seats = {s1, s2, s3}
  RunOf <- Whose
  Models = {"spine", "fallback"}
  Fallback = "fallback"
  Configs <- Edits
  MaxDispatches <- Few
INVARIANTS NoLostWakeUp
PROPERTIES TheQueueIsServed
CHECK_DEADLOCK FALSE
