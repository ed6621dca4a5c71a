SPECIFICATION Spec
CONSTANTS
  SECTOR_SIZE = 4
  ENTRY_SIZE = 1
  WORD = 65536
  ReservedSectors = 1
  SectorsPerFat = 5
  FatCount = 2
  RootEntryCount = 4
  SectorsPerCluster = 1
  TotalSectors = 40
  Names <- SomeNames
  RootDir <- SmallRoot
  Dirs <- SmallDirs
  Chain <- SmallChain
  MAX_FILE_HANDLES = 2
  FAT_CACHE_SIZE = 2
  NullHandle = 83
  Paths <- SmallPaths
  ReadSizes = {5}
  SeekTargets = {0, 8, 11}
  MaxSectorFaults = 0
  MaxFatFaults = 0
PROPERTY ImplementsFileStore
CHECK_DEADLOCK FALSE
