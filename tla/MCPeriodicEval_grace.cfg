CONSTANTS
  NbHooks = 1
  Annotators = {}
  Failing = {}
  Grace = 2
  Ranges <- MCPeriodic
  Outputs = {None}
  Buckets = {"default", "output"}
  DefaultBucket = "default"
  MaxTime = 4
  MaxEvals = 2
  None = None
SPECIFICATION ScheduledSpec
CHECK_DEADLOCK FALSE
INVARIANTS
  GraceRespected
