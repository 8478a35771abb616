CONSTANTS
  Interval = 2
  NbFeatures = 1
  Stores = {"influx"}
  PointTimes = {1, 2, 5, 7, 11}
  Spans = {0}
  MinSpan = 1
  MaxSpan = 3
  RangeTimes = {0, 4, 7, 12}
  WindowTimes = {1, 4, 9, 14}
SPECIFICATION SeriesSpec
INVARIANTS
  WidthIsTrained
