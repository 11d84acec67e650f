\* Every graph of one edge type on the states of up to three writes.
SPECIFICATION WalkSpec
CONSTANTS
  world = world
  s1 = s1
  b1 = b1
  p1 = p1
  World = world
  Scopes = {world}
  Beliefs = {b1}
  Payloads = {p1}
  Events = {1}
  StateIds = {1, 2, 3}
  EdgeTypes = {"DERIVED_FROM"}
  MaxGap = 1
  MaxRestarts = 0
  Depths <- SomeDepths
  NoBound = NoBound
  DepthCeiling = 2
INVARIANTS
  BackendsAgree
  RefusesOnlyDeep
  FrontierResumes
PROPERTIES
  ImpactStable
  WalkEnds
