SPECIFICATION FairSpec
CONSTANTS
  Channels = {3,4,6,9,10}
  AddrSpace = 16
  CountSpace = 16
  HalfSpace = 3
  LenSpace = 8
  SifWord <- McSifWord
  RamWord <- McRamWord
  Scenarios <- McKicked
  MaxStarts = 2
  AddrVals = {1}
  CountVals <- McCounts
  Sif0Depth = 1
PROPERTIES Sif0Ends Sif1Moves
