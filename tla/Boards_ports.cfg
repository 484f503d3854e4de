SPECIFICATION BoardsSpec
CONSTANTS
  Plugged = {"gs", "ee", "probe", "iop", "dma", "rpc", "ram"}
  None = None
  Burst = 2
  Chunk = 2
  Chunks = 2
  Sessions = 2
  Aborts = 1
  Period = 8
  Lead = 2
  Quads = 2
  Reads = 2
  Work = 1
  Display = TRUE
  EeLines = {0, 1}
  Accesses = 2
  Regs = 2
  Park = 3
  HbmBeats = 2
  HbmSlow = 2
  ProbeLead = 3
  Size = 4
  Part = 2
  Gap = 8
  Slips = 2
  PeekSlow = 1
INVARIANTS
  StatusWhole
  
  StagedInPlace
  BurstsWhole
  CallsMatched
  MemoryCurrent
PROPERTIES
  PortRefined
  HostEnds
CHECK_DEADLOCK FALSE
