SPECIFICATION Spec
CONSTANTS
  Subjects = {ana}
  Founder = ana
  Roles = {admin, leadership}
  Admin = admin
  MaxRows = 3
  MaxVersion = 1
  Slots = {1, 2}
  MaxFaults = 1
  NoKey = nokey
INVARIANTS OneActiveRole DecisionsAreNotReplaced AnswersAreTrue
PROPERTIES RevocationIsFinal
CHECK_DEADLOCK FALSE
