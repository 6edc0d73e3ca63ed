CONSTANTS
  Count = 4
  MaxPush = 7
  Builds = {TRUE, FALSE}
SPECIFICATION Spec
INVARIANTS PagesIntact SleepersWillWake
PROPERTIES WriterProceeds ImplementsPageQueue
CHECK_DEADLOCK FALSE
