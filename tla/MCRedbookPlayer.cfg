SPECIFICATION FairSpec
CONSTANTS
  SectorUnits = 4
  FrameUnits = 5
  MaxTrack = 4
  Word = 1000
  StrayUnits = 5
  MaxLost = 1
  Discs <- MCDiscs
  Inputs <- MCInputs
  MaxLoads = 2
INVARIANTS
  TypeOK
  OpenTrackKnown
  ShownWithinOne
PROPERTIES
  AdvanceInOrder
  PauseHolds
  PlaysEveryTrack
