SPECIFICATION Spec
CONSTANTS
  FirstWords = {2}
  Kinds = {"fetch", "ram", "bios", "bus", "ext"}
  MaxWait = 1
  FifoSize = 3
  FifoReserve = 2
  FallThrough2 = TRUE
  ResetHold = 2
  MaxOps = 3
  ResetAgain = FALSE
  PeekAnyTime = FALSE
INVARIANTS
  TypeOK
  OneCpuAccess
  LineComplete
  
  
  FifoGuarded
