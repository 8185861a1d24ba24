CONSTANTS
  r1 = r1
  r2 = r2
  m1 = m1
  m2 = m2
  Request = {r1, r2}
  Message = {m1, m2}
  LaneOf <- NormalAndBulk
  Unencodable = {m1}
  CmdCap = 1
  MaxLane = 1
  ErrorLimit = 2
SPECIFICATION FairSpec
INVARIANTS TypeOK PendingAwaited EventsAreLate WaitsForSomeone
PROPERTIES RequestsReturn MessagesReturn
CHECK_DEADLOCK FALSE
