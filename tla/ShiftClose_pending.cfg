SPECIFICATION Spec
CONSTANTS
  p1 = p1
  p2 = p2
  task = task
  product = product
  k1 = k1
  Phones = {p1, p2}
  Blockers = {task, product}
  ClientKeys = {k1}
  MaxRequests = 2
  MaxTime = 1
  NoKey = NoKey
  NoPhone = NoPhone

INVARIANTS PendingStaysVisible
