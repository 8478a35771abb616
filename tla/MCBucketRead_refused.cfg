CONSTANTS
  Interval = 2
  NbFeatures = 2
  Stores = {"opentsdb"}
  Refusable = {1}
  Bulk = 1
  MaxTime = 3
SPECIFICATION Spec
INVARIANTS
  ValuesOfTheFeature
