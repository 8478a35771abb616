CONSTANTS
  Training = {t1}
  Background = {}
  m1 = m1
  Models = {m1}
  Target <- MCTarget
  Workers = 1
  MaxEval = 1
  NoJob = NoJob
SPECIFICATION Spec
CHECK_DEADLOCK FALSE
PROPERTIES
  StoppedIsNotCanceling
