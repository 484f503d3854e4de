SPECIFICATION FairSpec
CONSTANTS
  FirstWords = {2}
  Kinds = {"ram","bios","ext"}
  MaxWait = 1
  FifoSize = 4
  FifoReserve = 2
  FallThrough2 = TRUE
  ResetHold = 1
  MaxOps = 2
  ResetAgain = FALSE
  PeekAnyTime = FALSE
PROPERTIES
  ReadsAnswered
  OperationsPerformed
