CONSTANTS
  Modulus = 8
  Window <- Window3
  InitialPsn <- LatePsn
  Submissions <- Host4
  MaxChunks = 2
  ChanBound = 3
  LossBound = 2
SPECIFICATION FairSpec
INVARIANTS TypeOK TimerGuardsUnacked WindowHeld BufferedAhead AckedWasDelivered
PROPERTIES StreamSpec Delivery
CHECK_DEADLOCK FALSE
