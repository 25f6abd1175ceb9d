CONSTANTS
  Workers = {w1, w2}
  VMs = {v1, v2, v3}
  Deliveries = {d1}
  JobID <- DistinctJobs
  SlotCounts = {1}
  Requests = {}
  Restarts = 1
  Strays = 1
  Hygiene = TRUE
  None = None
SPECIFICATION Spec
SYMMETRY PairSymmetry
INVARIANTS VMOwnership
CHECK_DEADLOCK FALSE
