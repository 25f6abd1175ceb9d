CONSTANTS
  c1 = c1
  c2 = c2
  c3 = c3
  i1 = i1
  i2 = i2
  Calls = {c1, c2, c3}
  Ids = {i1, i2}
  Slots = {0, 1}
  IdOf <- SplitIds
  SlotOf <- SplitSlots
  Pids = {11, 12}
  None = None
SPECIFICATION FairSpec
INVARIANTS TablesAgree NoWipeUnderRunner NoOrphans DrainedExact ExitGoesToOwner TerminalAfterOutput
PROPERTIES KeepsPromise CancelEnds
CHECK_DEADLOCK FALSE
