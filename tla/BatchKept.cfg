CONSTANTS
  MaxTxns = 2
  MaxFiles = 2
  MaxBreaks = 0
  MaxClock = 0
  MaxRestarts = 1
SPECIFICATION Spec
INVARIANT PublishedIsKept
CHECK_DEADLOCK FALSE
