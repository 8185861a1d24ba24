CONSTANTS
  x = x
  y = y
  Ids = {"p", "q"}
  Blocks = {x, y}
  Artifacts <- ShortAndUnhashed
  Chunks <- SingleBlocks
  Budget = 1
  MaxCalls = 2
  MaxFaults = 1
  MaxCrashes = 0
  LateSeals = TRUE
SPECIFICATION FairSpec
INVARIANT NoCallerDropped
PROPERTY CallersAnswered
CHECK_DEADLOCK FALSE
