SPECIFICATION FileSpec
CONSTANTS
  SectorUnits = 2
  MaxRetries = 1
  MaxSwaps = 1
  SenseKeys <- MCSenseKeys
  Commands <- MCCommands
  Reads <- MCReads
  Toc <- MCToc
  ReadLens <- MCReadLens
  SeekOffsets <- MCSeekOffsets
  MaxPos = 4
  Word = 1463296
INVARIANTS
  FileTypeOK
  PositionsAgree
  ReadWithinTrack
PROPERTIES
  ImplementsReader
