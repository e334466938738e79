CONSTANTS
  Ship = {1, 2, 3}
  Nil = Nil
  Start <- MCStart
  Template <- MCTemplate
  Amount = {1}
  Setting = {2}
  MaxCost = 3
  TOXMAX = 1
  Riches = 4
  Pollution = 1
  MaxDays = 6
SPECIFICATION CarriersSpec
INVARIANTS HangarsSound MassBooks
PROPERTIES NothingFromNothing
CHECK_DEADLOCK FALSE
