CONSTANTS
  Trainers = {w1}
  Handlers = {h}
  Restorable = {0}
  MaxName = 3
  MaxState = 3
  None = None
SPECIFICATION SerialSpec
CHECK_DEADLOCK FALSE
INVARIANTS
  EveryTrainingKept
