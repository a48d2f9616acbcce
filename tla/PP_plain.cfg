SPECIFICATION FairSpec
CONSTANTS
  NumBytes   = 8
  Parts      = 2
  SkidDepth  = 2
  PipeDepth  = 2
  FifoDepth  = 2
  Width     <- Widths
  Workloads <- GoodWorkloads
INVARIANTS
  TypeOK
  ResetBetweenPages
  TypesQueuedOnce
PROPERTIES
  StreamSpec
  EveryChunkDelivered
