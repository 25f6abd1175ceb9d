CONSTANTS
  w = w
  x = x
  Free = Free
  Workers = {w, x}
  Bases = {b1, b2}
  Goldens <- AnyGolden
  Counts = {1, 2}
  Faults = 2
  Restarts = 1
  None = None
SPECIFICATION MCSpec
INVARIANTS TokenAccepted HomesApart RunnerKept
PROPERTIES OnlyProvenGoesLive ReplacementReady ComesIntoService IdleNameFreed
CHECK_DEADLOCK FALSE
