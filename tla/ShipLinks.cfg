SPECIFICATION Spec
CONSTANTS
  Ship <- MCShip
  None = None
  Fits <- MCFits
INVARIANTS LinksAreLive MooredInPairs HangarQueryIsExact
PROPERTIES DestructionCascade
