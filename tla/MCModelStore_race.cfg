CONSTANTS
  Trainers = {w1, w2}
  Handlers = {h}
  Restorable = {0}
  MaxName = 2
  MaxState = 2
  None = None
SPECIFICATION FairSpec
CHECK_DEADLOCK FALSE
INVARIANTS
  LinkNeverDangles
  SwitchIsPending
PROPERTIES
  CurrentAgain
