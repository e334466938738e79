SPECIFICATION EmpireSpec
CONSTANTS
  a = a
  b = b
  Race <- MCRace
  Ship <- MCShip
  None = None
  Home <- MCHome
  Raw = {2}
  Worth = {1}
  Gift <- MCGift
  Limit = 2
  CapitalCost = 1
  GiveCost = 2
  Excess = 1
  Contender <- MCRace
  Planets = 4
  Percent = 50
  Updates = 2
  Enabled = TRUE
  MaxCount = 9
  MaxClock = 4
  Party <- MCRace
  System <- MCSystem
  Empires <- MCEmpires
  Envoys <- MCEnvoys
  NoMaster = NoMaster
  Wealth = 2
INVARIANTS CapitalStands VictoryCounts BlocksCoherent
PROPERTIES PointsInBounds SpoilsAccounted
