SPECIFICATION Spec
CONSTANTS
  SECTOR_SIZE = 4
  ENTRY_SIZE = 1
  WORD = 65536
  ReservedSectors = 1
  SectorsPerFat = 5
  FatCount = 2
  RootEntryCount = 4
  SectorsPerCluster = 2
  TotalSectors = 40
  Names <- SomeNames
  RootDir <- PairRoot
  Dirs <- PairDirs
  Chain <- PairChain
  MAX_FILE_HANDLES = 2
  FAT_CACHE_SIZE = 2
  NullHandle = 83
  Paths <- PairPaths
  ReadSizes = {5}
  SeekTargets = {0, 9}
  MaxSectorFaults = 2
  MaxFatFaults = 0
INVARIANTS
  TypeOK HandlesOnTrack OwnBytesOnly SeekRepairs OpensTheRightFile HandlesAccounted
PROPERTIES
  CallsReturn
CHECK_DEADLOCK FALSE
