SPECIFICATION LotSpec
CONSTANTS
  r1 = r1
  r2 = r2
  LotRuns = {r1}
  MaxMoments = 2
  MaxCalls = 1
PROPERTIES WithdrawalsAreKept
\* with SPECIFICATION FairLotSpec: PROPERTIES EverythingArrives
CHECK_DEADLOCK FALSE
