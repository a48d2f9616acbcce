SPECIFICATION FairSpec
CONSTANTS
  NumBytes   = 64
  Workloads <- GoodWorkloads
INVARIANTS
  TypeOK
  RunsFound
  PagesApart
PROPERTIES
  StreamSpec
  EveryPageDecoded
