CONSTANTS
  Sizes = {1, 2}
  Cap = 3
  Codes <- ExitCodes
  MaxCode = 3
  MaxEvents = 4
  Drops = 2
  Restarts = 1
SPECIFICATION FairSpec
INVARIANTS LogCapExact TerminalIsLast MirrorExact EndCarriesTerminal ExitCodeKept
PROPERTIES DrainReturns
CHECK_DEADLOCK FALSE
