SPECIFICATION Spec
CONSTANTS
  r1 = r1
  r2 = r2
  a1 = a1
  a2 = a2
  Runs = {r1, r2}
  Ids = {a1, a2}
  Retention = 1
  MaxDay = 1
  MaxCalls = 2
INVARIANT RevokedStays
\* INVARIANT SentStaysReadable
\* PROPERTY RetentionFromAcknowledgement
\* PROPERTY ExpiredWhenGone
CHECK_DEADLOCK FALSE
