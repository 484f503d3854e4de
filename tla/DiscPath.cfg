SPECIFICATION FairSpec
CONSTANTS
  SectorWords = 4
  LbaSpace = 4
  NcmdDelay = 2
  Word = {0, 1, 2, 3, 4, 5, 6, 7, 8, 9, 10, 11, 12, 13, 14, 15, 16}
  NoWord = 0
  Beats = 2
  BeatWords = 2
  Burst = 1
  Throttle = 8
  DrainTicks = 64
  HostGap = 24
  MaxCommands = 2
  LbaVals = {1, 2}
  CountVals = {2}
  Fillers = {TRUE, FALSE}
  ResetAgain = TRUE
INVARIANTS SectorsDelivered ReadEndsDelivered
PROPERTIES DeviceContract ReadCompletes
