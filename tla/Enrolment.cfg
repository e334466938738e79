SPECIFICATION EnrolmentSpec
CONSTANTS
  None = None
  PlanetType <- MCPlanetType
  SectorType <- MCSectorType
  Jovian = "jovian"
  Gas = "gas"
  Plated = "plated"
  Common <- MCCommon
  Likes <- MCLikes
  Best <- MCBest
  Archetype <- MCArchetype
  Vigor <- MCVigor
  VigorCost <- MCVigorCost
  PlanetCost <- MCPlanetCost
  Multiplier <- MCMultiplier
  FlagCost = 200
  CollectiveCost <- MCCollectiveCost
  StartingPoints = 1400
  Star <- MCStar
  Planet <- MCPlanet
  StarOf <- MCStarOf
  TypeOf <- MCTypeOf
  Site <- MCSite
  Ground <- MCGround
  Handmade <- MCHandmade
  Budgets <- MCBudgets
INVARIANTS FoundedInOrder LawfulGalaxy
CHECK_DEADLOCK FALSE
