SPECIFICATION Spec
CONSTANTS
  FirstWords = {3}
  Kinds = {"fetch","ram","bios"}
  MaxWait = 1
  FifoSize = 4
  FifoReserve = 2
  FallThrough2 = TRUE
  ResetHold = 2
  MaxOps = 2
  ResetAgain = FALSE
  PeekAnyTime = TRUE
INVARIANTS
  PeekNeverRaces
