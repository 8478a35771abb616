CONSTANTS
  Kinds = {"models", "templates", "jobs", "buckets", "scheduled", "hooks"}
  Names = {1, 2}
  Values = {1, 2}
  PerPage = 1
  MaxChanges = 4
SPECIFICATION Spec
INVARIANTS OnlyOvertaken PromiseKept
PROPERTIES SteadyAnswered ExpiredForgotten
CHECK_DEADLOCK FALSE
