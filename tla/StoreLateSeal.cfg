CONSTANTS
  x = x
  y = y
  Ids = {"p", "q"}
  Blocks = {x, y}
  Artifacts <- ShortOnly
  Chunks <- SingleBlocks
  Budget = 2
  MaxCalls = 2
  MaxFaults = 0
  MaxCrashes = 0
  LateSeals = TRUE
SPECIFICATION Spec
PROPERTY AnsweredByVerifiedFile
CHECK_DEADLOCK FALSE
