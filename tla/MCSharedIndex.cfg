\* A belief id that is a UUID string, passed to add_edge.
SPECIFICATION Spec
CONSTANTS
  world = world
  s1 = s1
  b1 = b1
  p1 = p1
  World = world
  Scopes = {world, s1}
  Beliefs = {9}
  Payloads = {p1}
  Events = {1, 2}
  StateIds = {1, 2}
  EdgeTypes = {"DEPENDS_ON"}
  Handles = {1, 9}
  MaxGap = 1
  MaxUserUnits = 0
INVARIANT EdgesJoinStates
CHECK_DEADLOCK FALSE
