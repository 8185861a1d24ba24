CONSTANTS
  CmdCap = 2
  EvCap = 2
  Replies = 2
SPECIFICATION Spec
INVARIANT NoStaleSend
CHECK_DEADLOCK FALSE
