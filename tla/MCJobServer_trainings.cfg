CONSTANTS
  Training = {t1, t2}
  Background = {}
  m1 = m1
  Models = {m1}
  Target <- MCTarget
  Workers = 1
  MaxEval = 1
  NoJob = NoJob
SPECIFICATION FairSpec
CHECK_DEADLOCK FALSE
INVARIANTS
  VerdictMatchesOutcome
  StoppedHasEndDate
  LiveJobIsListed
PROPERTIES
  ProgressMonotone
  ImplementsFairLedger
