CONSTANTS
  Sizes = {2, 4}
  Windows = {1, 2}
  Cap = 3
SPECIFICATION FairSpec
INVARIANTS TypeOK NoProgressMissed NoAckMissed WindowHeld NothingLeaks
PROPERTIES PullReturns PushEnds
CHECK_DEADLOCK FALSE
