SPECIFICATION FairSpec
CONSTANTS
  Channels = {3,6,9,10}
  AddrSpace = 16
  CountSpace = 16
  HalfSpace = 4
  LenSpace = 8
  SifWord <- McSifWord
  RamWord <- McRamWord
  Scenarios <- McTwoEngines
  MaxStarts = 2
  AddrVals = {12}
  CountVals <- McOneCount
  Sif0Depth = 2
PROPERTIES StartHonoured
