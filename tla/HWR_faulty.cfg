SPECIFICATION FaultySpec
CONSTANTS
  Readers    = {"A", "B"}
  NumChunks  = 2
  Window     = 2
  Transfers  = 1
  MaxConfigs = 5
PROPERTY
  ReaderSpec
CHECK_DEADLOCK FALSE
