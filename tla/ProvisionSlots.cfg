CONSTANTS
  Slots = {s1, s2}
  Caches = 2
  Occupants <- AnyOccupant
  Attempts = 2
  Faults = 1
  Deaths = 1
  Own = Own
  Other = Other
SPECIFICATION FairSpec
INVARIANTS LaunchesOnWholeSlot SkipMeansRefreshed
PROPERTIES BuildEnds
