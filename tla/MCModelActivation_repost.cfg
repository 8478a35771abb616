CONSTANTS
  Models = {m1}
  UserJobs = {u}
  Patchable = {}
  Configured = {}
  Options = {o1}
  Intervals = {1, 2}
  MaxState = 3
  MaxTimers = 2
  MaxRestarts = 0
  None = None
SPECIFICATION QuietSpec
CHECK_DEADLOCK FALSE
INVARIANTS
  OneTimerPerJob
