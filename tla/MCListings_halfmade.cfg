CONSTANTS
  Kinds = {"models"}
  Names = {1, 2}
  Values = {1, 2}
  PerPage = 1
  MaxChanges = 4
SPECIFICATION Spec
PROPERTY ListingAnswers
CHECK_DEADLOCK FALSE
