CONSTANTS
  Count = 3
  PageSize = 3
  IdSize = 1
  Payloads = {0, 3}
  Block = 2
  PipeQOS = {TRUE, FALSE}
  CommitMethod = {TRUE, FALSE}
  MaxStatements = 3
  MaxEnds = 2
SPECIFICATION Spec
INVARIANT MarkedPageUnread
PROPERTIES OperationsEnd ImplementsTxnChannel
CHECK_DEADLOCK FALSE
