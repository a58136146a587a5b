SPECIFICATION LotSpec
CONSTANTS
  r1 = r1
  r2 = r2
  LotRuns = {r1}
  MaxMoments = 3
  MaxCalls = 2
INVARIANTS NewestPendingShown AnsweredIsRecorded
PROPERTIES WaitingSettles
CHECK_DEADLOCK FALSE
