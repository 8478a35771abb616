CONSTANTS
  NbHooks = 2
  Annotators = {}
  Failing = {1}
  Grace = 0
  Ranges <- MCLong
  Outputs = {None}
  Buckets = {"default", "output"}
  DefaultBucket = "default"
  MaxTime = 5
  MaxEvals = 1
  None = None
SPECIFICATION ScheduledSpec
CHECK_DEADLOCK FALSE
INVARIANTS
  HooksAgree
