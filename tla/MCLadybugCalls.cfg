\* Two connections, two writes, every statement failing and one crash, after
\* which a mint may sort before what is stored.
SPECIFICATION CallsSpec
CONSTANTS
  world = world
  s1 = s1
  b1 = b1
  p1 = p1
  c1 = c1
  c2 = c2
  World = world
  Scopes = {world, s1}
  Beliefs = {b1}
  Payloads = {p1}
  Events = {1}
  StateIds = {1, 2}
  EdgeTypes = {"DEPENDS_ON"}
  MaxGap = 2
  MaxRestarts = 1
  Conns = {c1, c2}
  NoConn = NoConn
VIEW StoreView
SYMMETRY ConnSymmetry
PROPERTY EngineSpec
CHECK_DEADLOCK FALSE
