SPECIFICATION FairSpec
CONSTANTS
  Workloads <- HandledWorkloads
  NumBytes  = 8
  SizeMod   = 65536
INVARIANTS
  TypeOK
PROPERTIES
  ConfHeld
  StreamSpec
  EveryPageOut
