SPECIFICATION Spec
CONSTANTS
  Subjects = {ana, bia}
  Founder = ana
  Roles = {admin, leadership}
  Admin = admin
  MaxRows = 2
  MaxVersion = 1
  Slots = {1, 2}
  MaxFaults = 1
  NoKey = nokey
INVARIANTS SavedAndAudited
CHECK_DEADLOCK FALSE
