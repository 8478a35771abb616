CONSTANTS
  quick = quick
  slow = slow
  Names = {quick, slow}
  Configured = {quick}
  Hourly = hourly
  Period <- MCPeriod
  Limit = 1
  Telemetry = None
  MaxTimers = 2
  Listen = 1
  MayFail = FALSE
  None = None
SPECIFICATION Spec
CHECK_DEADLOCK FALSE
PROPERTY EventsKeepRunning
