CONSTANTS
  Interval = 2
  NbFeatures = 2
  Stores = {"mem", "influx", "elastic", "opentsdb", "prometheus", "mongo", "warp10"}
  Refusable = {1, 2}
  Bulk = 2
  MaxTime = 4
SPECIFICATION Spec
INVARIANTS
  RowsFitTheRange
  ValuesUnderTheirFeature
  RowsExact
