CONSTANTS
  Trainers = {w1}
  Handlers = {h}
  Restorable = {}
  MaxName = 4
  MaxState = 4
  None = None
SPECIFICATION SerialCrashSpec
CHECK_DEADLOCK FALSE
INVARIANTS
  EveryTrainingKept
