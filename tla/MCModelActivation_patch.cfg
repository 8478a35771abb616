CONSTANTS
  Models = {m1}
  UserJobs = {}
  Patchable = {m1}
  Configured = {}
  Options = {o1}
  Intervals = {1, 2}
  MaxState = 3
  MaxTimers = 2
  MaxRestarts = 2
  None = None
SPECIFICATION QuietSpec
CHECK_DEADLOCK FALSE
INVARIANTS
  StartedIsScheduled
