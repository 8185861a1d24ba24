CONSTANTS
  MaxBatch = 10
  Reserve <- LaneReserve
  Lengths = {1, 4, 8, 12}
  QueueBound = 2
SPECIFICATION Spec
INVARIANTS TypeOK BoundedWait
PROPERTIES BatchFull ShareHeld
