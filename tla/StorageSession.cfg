SPECIFICATION Spec
CONSTANTS
  HeadSize = 2
  LinkSize = 1
  PageSize = 8
  MinFree = 2
  MaxRemembered = 2
  MapPages = 2
  batchSize = 2
  Clients = {"auto", "manual", "series"}
  Stmts = 2
  MaxTxn = 2
  MaxTurns = 3
  MaxValues = 4
  MaxKills = 2
  OtherSize = 19
INVARIANTS TypeOK RegionsDisjoint ImageOnDisk ReaderSeesBindings SeriesWhole LogRefersToValues HeldIsMapped
CHECK_DEADLOCK FALSE
