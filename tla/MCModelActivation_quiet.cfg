CONSTANTS
  Models = {m1, m2}
  UserJobs = {u}
  Patchable = {m1}
  Configured = {u}
  Options = {o1, o2}
  Intervals = {1, 2}
  MaxState = 2
  MaxTimers = 2
  MaxRestarts = 2
  None = None
SPECIFICATION QuietSpec
CHECK_DEADLOCK FALSE
INVARIANTS
  StoppedStaysStopped
  StartedStaysScheduled
  DeletedIsUnscheduled
  ScheduledAtInterval
  OneTimerPerModel
