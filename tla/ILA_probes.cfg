SPECIFICATION Spec
CONSTANTS
  Sources  <- Folders
  TokensOf <- TextTokens
  Orders   <- ListOrders
  MaxRuns   = 2
INVARIANTS
  ScriptFitsProbes
  EveryBitProbed
CHECK_DEADLOCK FALSE
