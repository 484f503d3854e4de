SPECIFICATION Spec
CONSTANTS
  Channels = {3,4,6,9,10}
  AddrSpace = 16
  CountSpace = 16
  HalfSpace = 3
  LenSpace = 8
  SifWord <- McSifWord
  RamWord <- McRamWord
  Scenarios <- McScenarios
  MaxStarts = 2
  AddrVals = {1}
  CountVals <- McCounts
  Sif0Depth = 1
INVARIANTS SifDelivered RunComplete
PROPERTIES Sif0Complete CompletionFlagged
