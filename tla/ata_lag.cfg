SPECIFICATION Spec
CONSTANTS
  Machines <- LaggingDisk
  Requests <- SomeRequests
  LBA_LIMIT = 4
  MAX_WAIT = 2
INVARIANT ReadsTheSectors
CHECK_DEADLOCK FALSE
