CONSTANTS
  Modulus = 10
  Window <- Window5
  InitialPsn <- LatePsn
  Submissions <- Host4
  MaxChunks = 2
  ChanBound = 6
  LossBound = 2
SPECIFICATION Spec
PROPERTY EakListsEveryGap
CHECK_DEADLOCK FALSE
