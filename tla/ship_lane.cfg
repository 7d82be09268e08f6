SPECIFICATION Spec
CONSTANTS
    Instances = {"moving", "cut", "checks", "answered", "crashed"}
    MaxAnswers = 1
    MaxCrashes = 2
    MaxReds = 2
    MaxArms = 1
    RecordsOwed = TRUE
    FastPath = TRUE
    UpdateCap = 1
    MaxMoves = 1
    MaxRepairs = 1
INVARIANT ReRunsAreGranted
PROPERTIES RequestCarriesAJudgedTree NoRoundTripWithoutAJudgment
