SPECIFICATION MCSpec
CONSTANTS
  Empty = Empty
  Absent = Absent
  Builds <- MCBuilds
  Numbers <- MCNumbers
  MachineOf <- MCMachineOf
  RecordSize = 2
  SectorSize = 2
  BlockSize = 4
  EntrySize = 1
  BlocksPerExtent = 3
  Tracks = 7
  SectorsPerTrack = 5
  Unnameable <- MCUnnameable
  Unreadable <- MCUnreadable
  Top = 64
  ScreenBase = 0
  InterpreterOrigin = 2
  DatabaseOrigin = 8
  PictureData = 16
  InterpreterSize <- MCSizes
  StubSize = 4
  FontSize = 2
  FontTrailer = 1
  FontHeader = 1
  CacheAt = 52
  CallSize = 1
  CPCOrigin = 2
  CPCDatabase = 8
  CPCCeiling = 30
  CPCGraphics = 4
  CPCFontOffset = 1
  ReleaseNames <- MCReleaseNames
  MaxWorn = 2
  Bits = 2
  Screens <- MCScreens
INVARIANTS
  WrittenIsRead
  StreamReadsBack
  BlocksAreOwned
  FilesReadBack
  TapeLoadsWhole
  EveryPictureAccounted
CHECK_DEADLOCK FALSE
