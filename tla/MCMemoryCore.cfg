\* Three writes in any event order, one restart with the clock set back.
SPECIFICATION Spec
CONSTANTS
  world = world
  s1 = s1
  b1 = b1
  b2 = b2
  p1 = p1
  World = world
  Scopes = {world, s1}
  Beliefs = {b1, b2}
  Payloads = {p1}
  Events = {1, 2, 3}
  StateIds = {1, 2, 3}
  EdgeTypes = {}
  MaxGap = 2
  MaxRestarts = 1
VIEW StoreView
SYMMETRY BeliefSymmetry
INVARIANTS
  TypeOK
  Anchored
  RetractionHasSource
  SpineShape
  LatestCutIsNow
  FilterShowsOnlyTails
  ChainAgrees
  OneSuccessor
  SpineAcyclic
PROPERTIES
  HistoryStable
  InOrderWriteWins
  WorldOnlyLearns
  BeliefBaseSpec
