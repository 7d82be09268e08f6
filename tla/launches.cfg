SPECIFICATION MCSpec
CONSTANTS
  Instances = {"race", "trouble", "graph"}
  Cards = {"a", "b"}
  BlockedBy <- BAfterA
  SlotCap = 1
  Ids = {1, 2, 3}
  MaxCommands = 2
  MaxFaults = 1
  MaxDowns = 1
INVARIANTS NoHeldWorkspaceIsReleased AQuietFactoryIsExplained
PROPERTIES OnlyACommandDoublesACard LeftoversTellTheTruth
CHECK_DEADLOCK FALSE
