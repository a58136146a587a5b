SPECIFICATION BoundedLivingSpec
CONSTANTS
  mine = mine
  again = again
  theirs = theirs
  shelf = shelf
  auto = auto
  None = None
  Tasks = {shelf}
  Commands = {mine, theirs}
  OwnLots = {shelf}
  Elsewhere = {theirs}
  Runs = {panel, auto}
  PanelRun = panel
  Preparers = {p1}
  ActiveLimit = 100
  LotLimit = 150
  TaskOf <- MCTaskOf
  UrgencyOf <- MCUrgencyOf
  MaxBatch <- MCMaxBatch
  Closers = {mine, theirs}
  SameAction = {}
INVARIANTS TypeOK SyncedWasAcked DiscardedNeverApplied
PROPERTIES SyncingEnds HidesClosedOrUnseen
