CONSTANTS
  CmdCap = 2
  EvCap = 2
  Replies = 2
SPECIFICATION FairSpec
INVARIANT TypeOK
PROPERTIES FlowsStartFresh DisconnectHeeded EndIsTold FloodEnds
CHECK_DEADLOCK FALSE
