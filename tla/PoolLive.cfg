CONSTANTS
  Workers = {w1}
  VMs = {v1, v2}
  Deliveries = {d1}
  JobID <- DistinctJobs
  SlotCounts = {1, 2}
  Requests = {0, 2}
  Restarts = 0
  Strays = 0
  Hygiene = FALSE
  None = None
SPECIFICATION FairSpec
PROPERTIES QueueIsServed ResizeSettles WorkerComesBack TeardownEnds
CHECK_DEADLOCK FALSE
