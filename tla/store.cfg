SPECIFICATION Spec
CONSTANTS
  Ledgers <- Both
  RunLedgers <- Run
  LedgerTears = {"part"}
  MaxSeq <- Few
  MaxCrashes = 2
INVARIANTS CrashesCostEntriesOnly
PROPERTIES BehavesAsALog
CHECK_DEADLOCK FALSE
