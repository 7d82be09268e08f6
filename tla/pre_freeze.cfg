SPECIFICATION PreSpec
CONSTANTS
  MaxAnswers = 1
  MaxCrashes = 1
  Blockers = {f1, f2}
SYMMETRY BlockersAreAlike
INVARIANTS ConvergesOrAsks
PROPERTIES RulingsAreCarriedOut
CHECK_DEADLOCK FALSE
