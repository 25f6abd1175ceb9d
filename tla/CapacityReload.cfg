CONSTANTS
  Images = {i1, i2}
  Sizes = {1, 2}
  Broken = Broken
  Writes = 2
  Faults = 1
SPECIFICATION Spec
INVARIANTS CapacityTellsImage
