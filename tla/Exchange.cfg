SPECIFICATION FairSpec
CONSTANTS
  Window = 3
  Faults = TRUE
  MaxRequest = 6
  Block = 3
  MaxSize = 4
  PipeMax = 2
  Asks <- MCAsks
  MaxAsks = 2
  MaxAddrs = 2
  MaxFds = 4
  ClientBlock = 2
  Heap <- MCHeap
CHECK_DEADLOCK FALSE
INVARIANTS TypeOK BuffersHold AsksForBytes RequestArrives DeliveredInOrder Delivered
INVARIANTS FailureReleases DialsPort
PROPERTY GurlEnds
