\* A COMMIT that fails because the connection was closed.
SPECIFICATION Spec
CONSTANTS
  Units = {1}
  MaxWrites = 2
  NoUnit = NoUnit
  BareFailures = FALSE
  Closes = TRUE
  EndFailures = FALSE
PROPERTY FailedCommitRanInside
CHECK_DEADLOCK FALSE
