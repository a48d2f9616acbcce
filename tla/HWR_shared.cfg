SPECIFICATION FairSpec
CONSTANTS
  Readers    = {"A", "B"}
  NumChunks  = 3
  Window     = 2
  Transfers  = 2
  MaxConfigs = 5
INVARIANTS
  InStep
  BuffersAlive
  ConfigsCounted
PROPERTIES
  ReaderSpec
  EveryChunkReturned
