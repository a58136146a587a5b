SPECIFICATION RestartingSpec
CONSTANTS
  mine = mine
  again = again
  theirs = theirs
  shelf = shelf
  auto = auto
  None = None
  Tasks = {shelf}
  Commands = {mine}
  OwnLots = {shelf}
  Elsewhere = {}
  Runs = {panel}
  PanelRun = panel
  Preparers = {p1}
  ActiveLimit = 100
  LotLimit = 150
  TaskOf <- MCTaskOf
  UrgencyOf <- MCUrgencyOf
  MaxBatch <- MCMaxBatch
  Closers = {mine}
  SameAction <- SameActions
PROPERTY SyncingEnds
