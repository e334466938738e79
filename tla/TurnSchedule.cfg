SPECIFICATION FairSpec
CONSTANTS
  Races = {r1}
  Interval = 6
  SegmentChoices = {2, 3}
  ForcedSegments = {0, 5}
  Delays = {0}
  Far = 1000
  StartTime = 20
  MaxTime = 33
  MaxTurns = 2
  MaxCrashes = 1
INVARIANTS UpdatesAccounted NoDrift
PROPERTIES CadenceKept DueUpdateHappens
