SPECIFICATION Spec
CONSTANTS
  Fan = 4
  Frames <- AllFrames
  BootMem <- LargeImage
  BootPml4 = 1
  KernelFrame = 16
  KernelPages = 12
  HeapFirst = 2
  HeapTables = 10
  SmallRuns <- MapRuns
  UnmapRuns <- SinglePages
  LargeRuns <- OneLarge
  Rsdps <- SomeRsdps
  Touched <- SomePages
INVARIANT PagingIsSetUp
CHECK_DEADLOCK FALSE
