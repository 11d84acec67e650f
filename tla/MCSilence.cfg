\* A failure on the bare connection, then one a backend sees.
SPECIFICATION Spec
CONSTANTS
  Units = {1}
  MaxWrites = 2
  NoUnit = NoUnit
  BareFailures = TRUE
  Closes = FALSE
  EndFailures = FALSE
PROPERTY SilenceMeansUndone
CHECK_DEADLOCK FALSE
