CONSTANTS
  quick = quick
  slow = slow
  Names = {quick, slow}
  Configured = {quick}
  Hourly = hourly
  Period <- MCPeriod
  Limit = 1
  Telemetry = 1
  MaxTimers = 2
  Listen = 1
  MayFail = TRUE
  None = None
SPECIFICATION Spec
CHECK_DEADLOCK FALSE
PROPERTY FailedStartExits
