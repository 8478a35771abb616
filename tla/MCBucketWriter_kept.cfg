CONSTANTS
  NbRequests = 5
  BulkSize = 3
  Stores = {"influx"}
SPECIFICATION Spec
CHECK_DEADLOCK FALSE
INVARIANTS
  FlagsAreRight
