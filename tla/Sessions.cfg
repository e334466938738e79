SPECIFICATION SessionsFairSpec
CONSTANTS
  leader = leader
  gov = gov
  deity = deity
  NoOne = NoOne
  Conn = {c1, c2}
  Governor <- MCGovernor
  Leader <- MCLeader
  Deity <- deity
  MaxInput = 1
  Burst = 1
  MaxWrite = 1
INVARIANTS LoginsSound
PROPERTIES SessionsProgress
CHECK_DEADLOCK FALSE
