CONSTANTS
  Images = {i1}
  Sizes = {1, 2}
  Broken = Broken
  Writes = 2
  Faults = 2
  Releases = 2
  Commands = 2
SPECIFICATION HostSpec
INVARIANTS ComponentsAgree RestartedMeansNew
PROPERTIES ServiceSettles
CHECK_DEADLOCK FALSE
