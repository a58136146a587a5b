SPECIFICATION Spec
CONSTANTS
  w1 = w1
  w2 = w2
  w3 = w3
  s1 = s1
  s2 = s2
  c1 = c1
  c2 = c2
  Workflows = {w1, w2, w3}
  Screens = {s1, s2}
  Calls = {c1, c2}
SYMMETRY Symmetric
INVARIANTS OpenStageHasTask
\* INVARIANTS OneOpenWorkflow
CHECK_DEADLOCK FALSE
