SPECIFICATION DispatchSpec
CONSTANTS
  l = l
  g = g
  x = x
  People <- MCPeople
  Leader <- MCLeader
  NoOne = NoOne
  Costs = {0, 2}
  Fees = {1}
  StartAP = 3
  MaxNotices = 2
  MaxCrashes = 1
INVARIANTS NoticesAccounted APAccounted
