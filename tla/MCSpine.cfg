\* One process, every write in order: the spine of a belief retracted and revised.
SPECIFICATION Spec
CONSTANTS
  world = world
  s1 = s1
  b1 = b1
  b2 = b2
  p1 = p1
  World = world
  Scopes = {world, s1}
  Beliefs = {b1}
  Payloads = {p1}
  Events = {1}
  StateIds = {1, 2, 3, 4}
  EdgeTypes = {}
  MaxGap = 1
  MaxRestarts = 0
VIEW StoreView
INVARIANT SpineReachesFirst
