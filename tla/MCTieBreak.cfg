\* The clock is set back across a restart and two writes share an event.
SPECIFICATION Spec
CONSTANTS
  world = world
  s1 = s1
  b1 = b1
  b2 = b2
  p1 = p1
  World = world
  Scopes = {world, s1}
  Beliefs = {b1}
  Payloads = {p1}
  Events = {1, 2}
  StateIds = {1, 2, 3, 4}
  EdgeTypes = {}
  MaxGap = 2
  MaxRestarts = 1
VIEW StoreView
PROPERTY TieGoesToLaterWrite
