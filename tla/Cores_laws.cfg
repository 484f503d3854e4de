SPECIFICATION Spec
CONSTANTS
  Units = {"ee", "vu", "gs", "disc", "rom", "scan", "boot", "asm"}
  EePrograms <- MC_EePrograms
  VuPrograms <- MC_VuPrograms
  GsPrograms <- MC_GsPrograms
  Discs <- MC_Discs
  Images <- MC_Images
  Roms <- MC_Roms
  Boots <- MC_Boots
  Sources <- MC_Sources
  HalfBits = 1
  Register = {0, 1, 2}
  Saved = {1}
  Results = {2}
  Args = {2}
  Device = {1}
  Unknown = {1}
INVARIANTS
  ResumeReachesVictim
  
  SlotsSimultaneous
  ProgramsReturn
  CoverageExact
  OrderFree
  TexelsFound
  FormsAgree
  
  
PROPERTIES
  IndexSurvives
CHECK_DEADLOCK FALSE
