CONSTANTS
  t1 = t1  t2 = t2  t3 = t3
  i1 = i1  i2 = i2  i3 = i3
  Threads = {t1, t2, t3}
  Tids = {i1, i2, i3}
  TidChoices <- EitherChoice
  MaxConnections = 3
  MaxHogs = 2
SPECIFICATION Spec
INVARIANTS OneReader ReadyWhenRead
PROPERTY AnnouncedIsRead
CHECK_DEADLOCK FALSE
