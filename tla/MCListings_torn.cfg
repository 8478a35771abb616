CONSTANTS
  Kinds = {"jobs"}
  Names = {1, 2}
  Values = {1, 2}
  PerPage = 1
  MaxChanges = 4
SPECIFICATION Spec
INVARIANT ListingOfOneMoment
CHECK_DEADLOCK FALSE
