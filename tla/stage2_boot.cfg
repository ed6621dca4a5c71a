SPECIFICATION Spec
CONSTANTS
  Firmwares <- SomeFirmwares
  Media <- MediaOf
  MAP_ENTRIES = 2
  EBDA_SCAN = 4
  BIOS_AREA <- BiosArea
  HALF = 16
  W = 65536
  HeapBase = 16
  HeapSize = 11
  Requests <- HeapRequests
  Fan = 16
  PAGE = 2
  LOW_PAGES = 14
  Page_table_l4 = 1
  Pml4 = 4
  MEGABYTE = 28
  FS_SIZE = 1
  KERNEL_BASE <- Base
  Missing = Missing
  MaxFaults = 1
  Strays <- StrayHeaders
  ENTRY_SIZE = 32
  LIMIT = 20
  WORD = 4096
INVARIANTS
  TypeOK InfoComplete GateOpen KernelRegionUsable
  HeapTypeOK BlocksDisjoint BlocksInHeap
  MountsFat12 IdentityKept KernelInPlace OnlyNamedMemory HandoverAgrees FaultsExplained
PROPERTY BootEnds
CHECK_DEADLOCK FALSE
