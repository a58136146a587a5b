SPECIFICATION LiveSpec
CONSTANTS
  Avarias = {a}
  Purchases = {p}
  DeskLimit = 2
  Slots = {1, 2}
  Runs = {r}
  Form = form
  Desks = {gpp}
  Nobody = nobody
  NoKey = nokey
  Exceptional = {"cancelado"}
  Attendances = {"atendido"}
  Callers <- MCCallers
  MaxFaults = 1
INVARIANTS SentIsRecorded DivergentNotTakenOut
PROPERTIES NeverRecreated PendingSettles
CHECK_DEADLOCK FALSE
