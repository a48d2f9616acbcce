SPECIFICATION FairSpec
CONSTANTS
  Decoders <- TwoDecoders
  Costs <- CheapOrDear
  NumChunks = 4
INVARIANTS
  HeapWhole
  Balanced
  HandlesMatch
PROPERTIES
  ReaderSpec
  EveryChunkReturned
