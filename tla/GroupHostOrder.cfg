CONSTANTS
  t1 = t1  t2 = t2  t3 = t3
  i1 = i1  i2 = i2  i3 = i3
  Threads = {t1, t2, t3}
  Tids = {i1, i2, i3}
  TidChoices <- OnlyDistinct
  MaxConnections = 3
  MaxHogs = 1
SPECIFICATION Spec
PROPERTY AnyStartOrder
CHECK_DEADLOCK FALSE
