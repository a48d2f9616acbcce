SPECIFICATION FairSpec
CONSTANTS
  Workloads <- Int64Workloads
  NumBytes  = 8
  SizeMod   = 65536
PROPERTY StreamSpec
