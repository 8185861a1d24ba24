CONSTANTS
  x = x
  y = y
  Ids = {"p", "q"}
  Blocks = {x, y}
  Artifacts <- TwoArtifacts
  Chunks <- SingleBlocks
  Budget = 2
  MaxCalls = 2
  MaxFaults = 1
  MaxCrashes = 1
  LateSeals = FALSE
SPECIFICATION Spec
INVARIANTS TypeOK TotalIsReceived CompleteIsVerified ResumeWithinFile PendingHasSeal
PROPERTY AnsweredByVerifiedFile
CHECK_DEADLOCK FALSE
