CONSTANTS
  Runs = {1, 2, 3}
  Jobs = {1, 2, 3}
  RunOf <- OneEach
  Hosted = {1}
  HeadRuns = {1, 2, 3}
  Closers = {c1}
  PageSize = 1
SPECIFICATION Spec
INVARIANTS HeadListingComplete QuietSweepExact
