CONSTANTS
  c1 = c1
  c2 = c2
  c3 = c3
  Clients <- ThreeClients
  Measurements <- Figures
  MaxTests <- Tests
  Limit = 1
SPECIFICATION Spec
INVARIANTS TypeOK TearCostsOneEntry LatestAreShown GradesFollowFigures RateFollowsThroughput
PROPERTIES SavedStaysReadable
CHECK_DEADLOCK FALSE
