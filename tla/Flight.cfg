SPECIFICATION Spec
CONSTANTS
  Ship = {"scout", "hauler", "probe"}
  Star = {"A", "B"}
  Planet = {"a1", "b1"}
  Race = {"p", "q"}
  None = "none"
  Owner <- MCOwner
  Allied <- MCAllied
  Design <- MCDesign
  Rank <- MCRank
  Sun <- MCSun
  Site <- MCSite
  SYSTEMSIZE = 40
  PLORBITSIZE = 10
  DIST_TO_LAND = 2
  Reach <- MCReach
  FollowRange = 30
  HYPER_DIST = 50
  READY = 1
  SEGMENTS = 2
  Lift = 1
  Tank = 12
  Depot = 4
  Start <- MCStart
  Turns = {0, 2}
  Throttle = {0, 2}
  MaxOrders = 3
  MaxTrip = 16
INVARIANTS LogsAreTrue
PROPERTIES ForecastKept JumpEnds
