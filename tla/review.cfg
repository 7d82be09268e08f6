SPECIFICATION ReviewSpec
CONSTANTS
  MaxAnswers = 1
  MaxCrashes = 1
  Panel <- TwoSeats
  Raises <- FewReports
  ProbeRounds = 1
PROPERTIES JudgedAsRaised RoundEnds
CHECK_DEADLOCK FALSE
