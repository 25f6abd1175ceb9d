CONSTANTS
  w1 = w1
  w2 = w2
  Workers = {w1, w2}
  Bases = {b1}
  Goldens <- LiveGolden
  Faults = 0
  Restarts = 0
  None = None
SPECIFICATION GoldenSpec
PROPERTIES ReplacementAlwaysReady
CHECK_DEADLOCK FALSE
