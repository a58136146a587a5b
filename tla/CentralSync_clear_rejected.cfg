SPECIFICATION FaultFreeSpec
CONSTANTS
  theLot = theLot
  expired = expired
  uncertain = uncertain
  withdraw = withdraw
  lose = lose
  withdraw2 = withdraw2
  notFound = notFound
  present = present
  None = None
  Lots = {theLot}
  Tasks = {expired, uncertain}
  Commands = {}
  Handlers = {}
  Projectors = {p1}
  LotOf <- MCLotOf
  Required <- MCRequired
  TaskOf <- MCTaskOf
  ActionOf <- MCActionOf
  DestOf <- MCDestOf
  EvidenceOf <- MCEvidenceOf
  Observations <- NoObservations
  MaxVersion = 1
INVARIANT ClearNeverRejected
