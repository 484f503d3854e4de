SPECIFICATION Spec
CONSTANTS
  FirstWords = {3}
  Kinds = {"fetch","ram","bios"}
  MaxWait = 1
  FifoSize = 4
  FifoReserve = 2
  FallThrough2 = TRUE
  ResetHold = 2
  MaxOps = 2
  ResetAgain = TRUE
  PeekAnyTime = FALSE
INVARIANTS
  OwnCompletions
  NoRequestDropped
PROPERTIES
  PortContract
