SPECIFICATION Spec
CONSTANTS
  Machines <- SomeMachines
  Requests <- SomeRequests
  LBA_LIMIT = 4
  MAX_WAIT = 2
INVARIANTS TypeOK FoundIsADisk
PROPERTIES CommandsAreTaken ImplementsBlockDevice CallsReturn
CHECK_DEADLOCK FALSE
