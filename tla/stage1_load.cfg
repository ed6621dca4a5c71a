SPECIFICATION Spec
CONSTANTS
  Disks <- SomeDisks
  Bpb <- SmallBpb
  RETRIES = 3
  InfoAt = 1
  Location = 2
  Size = 5
  Load = 3
  MemorySize = 9
INVARIANTS TypeOK JumpsIntoStage2 InfoFound GivesUpLate
PROPERTY BootEnds
CHECK_DEADLOCK FALSE
