CONSTANTS
  NbHooks = 2
  Annotators = {1, 2}
  Failing = {1, 2}
  Grace = 2
  Ranges <- MCOverlapping
  Outputs = {None, "output"}
  Buckets = {"default", "output"}
  DefaultBucket = "default"
  MaxTime = 4
  MaxEvals = 2
  None = None
SPECIFICATION Spec
CHECK_DEADLOCK FALSE
INVARIANTS
  AnnotationsClosed
  OneAnomalyAtATime
  AnomaliesFollowScores
PROPERTIES
  AnnotationsFinal
