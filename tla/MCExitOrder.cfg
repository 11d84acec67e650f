\* Two units entered by hand, the outer one exited first.
SPECIFICATION Spec
CONSTANTS
  world = world
  s1 = s1
  b1 = b1
  p1 = p1
  World = world
  Scopes = {world, s1}
  Beliefs = {b1}
  Payloads = {p1}
  Events = {1}
  StateIds = {1}
  EdgeTypes = {}
  Handles = {1}
  MaxGap = 1
  MaxUserUnits = 2
PROPERTY UndoneStaysUndone
CHECK_DEADLOCK FALSE
