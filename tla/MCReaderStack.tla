---------------------------- MODULE MCReaderStack ----------------------------
EXTENDS ReaderStack

\* Two decoders, so that a chunk can overtake another, and costs that differ.
TwoDecoders == {"d0", "d1"}
CheapOrDear == {1, 3}
=============================================================================
