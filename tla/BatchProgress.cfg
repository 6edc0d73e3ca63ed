CONSTANTS
  MaxTxns = 1
  MaxFiles = 2
  MaxBreaks = 1
  MaxClock = 0
  MaxRestarts = 1
SPECIFICATION Spec
PROPERTY WaitingIsApplied
CHECK_DEADLOCK FALSE
