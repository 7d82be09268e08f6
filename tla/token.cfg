SPECIFICATION FairSpec
CONSTANTS
  Runs = {1, 2}
  NoRun = 0
  Clock = {1, 2}
  ClockMayStepBack = FALSE
  MaxSlips = 2
INVARIANTS OpenRequestHolds
PROPERTIES ReleasedRunIsJudgedFirst BehavesAsALock TheQueueIsServed
CHECK_DEADLOCK FALSE
