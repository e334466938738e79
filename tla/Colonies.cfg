\* Two races on three sectors, three people at most.
SPECIFICATION Spec
CONSTANTS
  a = a  b = b  s1 = s1  s2 = s2  s3 = s3
  Nobody = Nobody
  Players <- MCPlayers
  Sectors <- MCSectors
  Sexes <- MCSexes
  Absorb <- MCAbsorb
  Crew <- MCCrew
  RevoltScale = 2
  MaxPeople = 3
  MaxDrift = 1
SYMMETRY MCSymmetry
INVARIANTS SettledIffOwned BooksExact DefeatedHoldNothing
PROPERTIES PeopleAccounted
