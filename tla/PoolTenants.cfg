CONSTANTS
  Workers = {w1}
  VMs = {v1, v2}
  Deliveries = {d1, d2}
  JobID <- DistinctJobs
  SlotCounts = {2}
  Requests = {}
  Restarts = 1
  Strays = 0
  Hygiene = TRUE
  None = None
SPECIFICATION Spec
SYMMETRY Symmetry
INVARIANTS TypeOK IdleMeansUsable BindingConsistent
PROPERTIES NoHealthyJobTornDown DetachOnlyAtShutdown ImplementsJobQueue
CHECK_DEADLOCK FALSE
