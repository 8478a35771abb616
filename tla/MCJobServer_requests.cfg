CONSTANTS
  Training = {}
  Background = {b1, b2}
  m1 = m1
  Models = {m1}
  Target <- MCTarget
  Workers = 1
  MaxEval = 1
  NoJob = NoJob
SPECIFICATION FairSpec
CHECK_DEADLOCK FALSE
INVARIANTS
  BlockedRequestNotCanceled
PROPERTIES
  EveryJobSettles
  ServerAnswers
