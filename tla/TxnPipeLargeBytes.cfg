CONSTANTS
  Count = 3
  PageSize = 3
  IdSize = 1
  Payloads = {7}
  Block = 2
  PipeQOS = {TRUE}
  CommitMethod = {TRUE}
  MaxStatements = 1
  MaxEnds = 1
SPECIFICATION Spec
INVARIANT DeliveredAsCommitted
CHECK_DEADLOCK FALSE
