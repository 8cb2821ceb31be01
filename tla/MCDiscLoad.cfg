SPECIFICATION Spec
CONSTANTS
  SectorUnits = 4
  MaxTrack = 3
  Word = 1073741824
  Drives = {d1, d2}
  NoDrive = NoDrive
  Discs <- MCDiscs
  MaxSwaps = 1
  MaxLoads = 3
INVARIANTS
  TypeOK
  CueFits
  CueReadWhole
  CleanLoadIsExact
  FailedLoadKeeps
PROPERTIES
  ImplementsTable
CHECK_DEADLOCK FALSE
