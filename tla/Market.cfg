SPECIFICATION FairSpec
CONSTANTS
  r = r  s = s  p = p  q = q
  None = None
  Race <- MCRace
  Planet <- MCPlanet
  Governor <- MCGovernor
  Port <- MCPort
  Fee <- MCFee
  Goods = 1
  Money = 2
  MaxAP = 1
  MaxLots = 2
INVARIANTS BooksBalance HoldersActive
PROPERTIES BidsAreResolved
