CONSTANTS
  NbRequests = 5
  BulkSize = 3
  Stores = {"influx", "elastic", "mongo", "opentsdb"}
SPECIFICATION Spec
CHECK_DEADLOCK FALSE
INVARIANTS
  WrittenOnceInOrder
  PendingBounded
  CopiedFlagsAreRight
