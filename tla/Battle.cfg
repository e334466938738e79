SPECIFICATION Spec
CONSTANTS
  NShips = 3
  Player = {"p", "q", "r"}
  None = None
  Ground = Ground
  Start <- MCStart
  Allied <- MCAllied
  Safe = 1
  Strength = {1, 2}
INVARIANTS EveryShotPaid DamageSound
PROPERTIES EscortsAnswer AbmsFirst PeopleAccounted
CHECK_DEADLOCK FALSE
