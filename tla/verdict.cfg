SPECIFICATION VerdictSpec
CONSTANTS
  MaxAnswers = 1
  MaxCrashes = 1
  Cap = 1
  Judgments <- OneOfEachKind
  MaxCycles = 2
  MaxRounds = 2
INVARIANTS NothingJudgedUncommitted RulingsBackTheSuite TheLadderIsBounded
CHECK_DEADLOCK FALSE
