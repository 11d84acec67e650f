\* Calls interrupted at every step, inside units of the caller's, one in another.
SPECIFICATION Spec
CONSTANTS
  world = world
  s1 = s1
  b1 = b1
  p1 = p1
  World = world
  Scopes = {world, s1}
  Beliefs = {b1}
  Payloads = {p1}
  Events = {1}
  StateIds = {1, 2, 3}
  EdgeTypes = {"DEPENDS_ON"}
  Handles = {1}
  MaxGap = 1
  MaxUserUnits = 2
INVARIANT IndexIsExact
PROPERTIES
  CallsAreAtomic
  ExceptionRestoresEntry
CHECK_DEADLOCK FALSE
