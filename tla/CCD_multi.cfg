SPECIFICATION FairSpec
CONSTANTS
  Workloads <- MultiBeatWorkloads
  Types     <- MCTypes
  Width     <- MCWidth
  BeatBytes = 2
  SkidDepth = 2
  PipeDepth = 2
  SizeMod   = 256
INVARIANTS
  PageConfsConsumed
  NumValuesConsumed
  BeatsMeetTheirPage
  TypesMatchTransfers
  DictionaryReset
PROPERTIES
  StreamSpec
  Delivered
