SPECIFICATION Spec
CONSTANTS
  theLot = theLot
  expired = expired
  uncertain = uncertain
  withdraw = withdraw
  lose = lose
  withdraw2 = withdraw2
  notFound = notFound
  present = present
  None = None
  Lots = {theLot}
  Tasks = {expired}
  Commands = {withdraw, withdraw2}
  Handlers = {h1, h2, h3}
  Projectors = {p1}
  LotOf <- MCLotOf
  Required <- MCRequired
  TaskOf <- MCTaskOf
  ActionOf <- MCActionOf
  DestOf <- MCDestOf
  EvidenceOf <- MCEvidenceOf
  Observations <- NoObservations
  MaxVersion = 1
PROPERTY AckedStaysAcked
