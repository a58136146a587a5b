SPECIFICATION BoundedSpec
CONSTANTS
  theLot = theLot
  expired = expired
  mine = mine
  theirs = theirs
  auto = auto
  None = None
  Nobody = Nobody
  Lots = {theLot}
  Tasks = {expired}
  Commands = {mine, theirs}
  OwnLots = {expired}
  Elsewhere = {theirs}
  Handlers = {h1}
  Projectors = {j1}
  Runs = {thePanel}
  PanelRun = thePanel
  Preparers = {}
  LotOf <- MCLotOf
  Required <- MCRequired
  TaskOf <- MCTaskOf
  ActionOf <- MCActionOf
  DestOf <- MCDestOf
  EvidenceOf <- MCEvidenceOf
  UrgencyOf <- MCUrgencyOf
  MaxBatch <- MCMaxBatch
  ActiveLimit = 100
  LotLimit = 150
  Observations <- NoObservations
  MaxVersion = 2
  MaxFaults = 1
INVARIANTS
  SyncedIsClosed
  ReviewedIsStored
PROPERTY KeepsPhone
