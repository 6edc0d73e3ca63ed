SPECIFICATION Spec
CONSTANTS
  Clients = {c1, c2}
  Fds = {1, 2}
  Timers = {t1}
  Eids = {1, 2}
  Parts <- TwoPartsAndUnit
  Limits = {1, 2}
  MaxConns = 2
  MaxCalls = 2
CHECK_DEADLOCK FALSE
INVARIANTS
  HandlersLive
  OwnReply
PROPERTIES
  CalledBack
  TimersRun
