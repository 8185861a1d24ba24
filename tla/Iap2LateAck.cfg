CONSTANTS
  Modulus = 8
  Window <- Window3
  InitialPsn <- LatePsn
  Submissions <- Host6Device1
  MaxChunks = 2
  ChanBound = 3
  LossBound = 1
SPECIFICATION Spec
INVARIANT AckedWasDelivered
CHECK_DEADLOCK FALSE
