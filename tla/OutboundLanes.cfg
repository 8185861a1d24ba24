CONSTANTS
  a = a
  b = b
  MaxBatch = 4
  Reserve <- LaneReserve
  Lengths = {1, 5}
  QueueBound = 0
  Sender = {a, b}
  UsedLanes = {1, 3}
  MaxLane = 2
SPECIFICATION FairLanes
INVARIANT PermitsBalance
PROPERTIES SendReturns FeedEnds
CHECK_DEADLOCK FALSE
