SPECIFICATION MCSpec
CONSTANTS
    Records = {"a", "b"}
    BornBefore = {"a"}
    Cap = 1
    MaxReturns = 1
    MaxTrouble = 2
    MaxAnswers = 1
    MaxCrashes = 1
    Instances = {"story", "ticket", "returns", "crashes", "rounds", "advisory"}
INVARIANTS AuthorStartsClean RoundsAreSpentOnce
PROPERTIES AGreenIsEarned StageEnds
