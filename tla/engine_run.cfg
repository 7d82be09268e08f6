SPECIFICATION MCSpec
CONSTANTS
  Runs = {r1, r2}
  Projects = {"p"}
  ProjectOf <- OneProject
  Instance = "*"
  Stages = {"a", "b", "c", "d"}
  NoStage = "-"
  Builds <- ThreeBuilds
  Upgrades <- Forward
  Blobs = {"k1", "k2"}
  SlotCap <- CapOne
  MaxSeats = 1
  MaxStarts = 3
INVARIANTS MemoryAgrees NoRetiredName
PROPERTIES HoldsAreHonoured OnlyAnOrphanSeatLeavesARunInert OnlyAReturningRunGoesOverTheCap NothingStandsForGood
CHECK_DEADLOCK FALSE
