------------------------ MODULE MCColumnChunkDecoder ------------------------
EXTENDS ColumnChunkDecoder

MCTypes     == {"int32", "int64"}
MCWidth     == [t \in MCTypes |-> IF t = "int32" THEN 1 ELSE 2]

Hyb(n, beats, pad) == [kind |-> "HYBRID", n |-> n, beats |-> beats, pad |-> pad, upto |-> 0]
Dict(beats)        == [kind |-> "DICT", n |-> 1, beats |-> beats, pad |-> 0, upto |-> 0]
Plain(t, n)        == [kind |-> "PLAIN", n |-> n, pad |-> 0, upto |-> 0,
                       beats |-> (n * MCWidth[t] + 1) \div 2]

MkChunk(t, pages) ==
  LET upto[i \in 0..Len(pages)] ==
        IF i = 0 THEN 0
        ELSE upto[i - 1] + (IF pages[i].kind = "DICT" THEN 0 ELSE pages[i].n)
  IN  [typ |-> t, num_values |-> upto[Len(pages)],
       pages |-> [i \in DOMAIN pages |-> [pages[i] EXCEPT !.upto = upto[i]]]]

\* Chunks whose output spans at least two databeats.
MultiBeat ==
  {MkChunk("int32", <<Dict(2), Hyb(2, 1, 0), Hyb(1, 2, 1)>>),
   MkChunk("int64", <<Dict(1), Hyb(2, 1, 0), Plain("int64", 1)>>),
   MkChunk("int64", <<Plain("int64", 2)>>),
   MkChunk("int32", <<Dict(1), Hyb(3, 2, 1)>>)}
\* A chunk that fits one databeat.
SingleBeat == MkChunk("int32", <<Dict(1), Hyb(1, 1, 0)>>)

PairsOf(S)   == {<<a, b>> : a \in S, b \in S}
MultiBeatWorkloads == PairsOf(MultiBeat) \cup {<<SingleBeat, b>> : b \in MultiBeat}

=============================================================================
