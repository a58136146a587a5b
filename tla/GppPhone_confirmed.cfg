SPECIFICATION Spec
CONSTANTS
  Avarias = {a}
  Purchases = {p}
  DeskLimit = 2
  Slots = {1, 2}
  Runs = {r}
  Form = form
  Desks = {gpp}
  Nobody = nobody
  NoKey = nokey
  Exceptional = {"cancelado"}
  Attendances = {"atendido"}
  Callers <- MCCallers
  MaxFaults = 1
INVARIANT ConfirmedTookEffect
\* INVARIANT DiscardedNotRecorded
CHECK_DEADLOCK FALSE
