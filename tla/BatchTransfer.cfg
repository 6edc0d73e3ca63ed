CONSTANTS
  MaxTxns = 2
  MaxFiles = 2
  MaxBreaks = 1
  MaxClock = 1
  MaxRestarts = 1
SPECIFICATION Spec
INVARIANTS DiscardedIsApplied AppliedInOrder RepeatsNeedBreaks
CHECK_DEADLOCK FALSE
