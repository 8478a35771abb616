CONSTANTS
  Interval = 2
  NbFeatures = 1
  Stores = {"mem", "influx", "prometheus", "mongo", "warp10"}
  PointTimes = {1, 2, 5, 7, 11}
  Spans = {0, 1, 2}
  MinSpan = 1
  MaxSpan = 3
  RangeTimes = {0, 7, 8, 18}
  WindowTimes = {1, 4, 9, 14}
SPECIFICATION SeriesSpec
INVARIANTS
  PredictionAligned
  WholeRange
  MaskIsTheWindows
