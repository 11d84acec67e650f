\* Three units and two writes, with every kind of failure.
SPECIFICATION Spec
CONSTANTS
  Units = {1, 2, 3}
  MaxWrites = 2
  NoUnit = NoUnit
  BareFailures = TRUE
  Closes = TRUE
  EndFailures = TRUE
INVARIANTS
  TypeOK
  TransactionIsCurrents
  NoStaleUnit
  KeptIsCounted
PROPERTIES
  CommitKeepsAll
  AllOrNothing
  NotesCoverEscapes
CHECK_DEADLOCK FALSE
