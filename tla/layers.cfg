SPECIFICATION FastSpec
CONSTANTS
  Layers <- Table
  Needs <- TableNeeds
  Group <- TableGroup
  Parts <- TableParts
  Ground <- TableGround
  Setup = {"unit"}
  Transient = {"unit"}
  Bases <- AllButUnit
  Files = {"f1", "f2"}
  LadderSteps = 1
  MaxCycles = 2
  MaxStops = 1
  Changes <- Incoming
  Suites = {"spec"}
  Sources = {"table"}
  Inert = {"notes", "minutes", "f1"}
  Unreadable = {}
  RecordFiles = {"adr"}
  Neighbourhood = {"adr"}
  Lenses <- FindingGrounds
INVARIANTS GreenIsProven AttemptsAreClosed CarriedGreenIsProven
CHECK_DEADLOCK FALSE
