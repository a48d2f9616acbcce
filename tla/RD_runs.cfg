SPECIFICATION FairSpec
CONSTANTS
  NumBytes    = 64
  NumElements = 16
  OrderDepth  = 2
  RleDepth    = 1
  BpeDepth    = 1
  Workloads  <- GoodWorkloads
INVARIANTS
  TypeOK
  WindowFollows
PROPERTIES
  StreamSpec
  EveryPageDecoded
