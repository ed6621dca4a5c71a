SPECIFICATION Spec
CONSTANTS
  Fan = 4
  Frames <- AllFrames
  BootMem <- SmallImage
  BootPml4 = 1
  KernelFrame = 16
  KernelPages = 12
  HeapFirst = 2
  HeapTables = 10
  SmallRuns <- MapRuns
  UnmapRuns <- SinglePages
  LargeRuns <- OneLarge
  Rsdps <- SomeRsdps
  Touched <- SomePages
INVARIANTS TypeOK TlbCoherent TablesOwned KernelMapped
PROPERTY ImplementsAddressSpace
CHECK_DEADLOCK FALSE
