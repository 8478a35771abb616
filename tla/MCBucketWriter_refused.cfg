CONSTANTS
  NbRequests = 5
  BulkSize = 3
  Stores = {"opentsdb"}
SPECIFICATION Spec
CHECK_DEADLOCK FALSE
INVARIANTS
  AllStored
