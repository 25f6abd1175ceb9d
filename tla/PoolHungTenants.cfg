CONSTANTS
  Workers = {w1}
  VMs = {v1}
  Deliveries = {d1, d2}
  JobID <- DistinctJobs
  SlotCounts = {2}
  Requests = {}
  Restarts = 0
  Strays = 0
  Hygiene = FALSE
  None = None
SPECIFICATION HungSpec
PROPERTIES MaxBindFreesSlot
CHECK_DEADLOCK FALSE
