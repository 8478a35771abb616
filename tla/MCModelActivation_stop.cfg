CONSTANTS
  Models = {m1}
  UserJobs = {}
  Patchable = {}
  Configured = {}
  Options = {o1}
  Intervals = {1, 2}
  MaxState = 3
  MaxTimers = 2
  MaxRestarts = 2
  None = None
SPECIFICATION Spec
CHECK_DEADLOCK FALSE
INVARIANTS
  StoppedStaysStopped
