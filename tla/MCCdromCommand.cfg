SPECIFICATION FairSpec
CONSTANTS
  SectorUnits = 2
  MaxRetries = 2
  MaxSwaps = 2
  SenseKeys <- MCSenseKeys
  Commands <- MCCommands
  Reads <- MCReads
INVARIANTS
  TypeOK
  NoOverrun
  CacheLabel
  CleanReadIsExact
  DeliveredInOrder
  MediaOrder
  AttemptBound
PROPERTIES
  CallReturns
