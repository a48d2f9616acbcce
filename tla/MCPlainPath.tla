----------------------------- MODULE MCPlainPath -----------------------------
EXTENDS PlainPath, SequencesExt

Widths == [BYTE_T |-> 1, INT32_T |-> 4, INT64_T |-> 8]
CeilDiv(n, d) == (n + d - 1) \div d

\* A page [levels, n, snappy, ghost] of a chunk [typ, pages].
Raw(levels, n) == [levels |-> levels, n |-> n, snappy |-> FALSE, ghost |-> FALSE]
Snappy(levels, n, ghost) == [levels |-> levels, n |-> n, snappy |-> TRUE, ghost |-> ghost]
ChunkOf(typ, ps) == [typ |-> typ, pages |-> ps]

BytesOf(c, p) == 4 + p.levels + p.n * Widths[c.typ]
\* Compressed, a page is some databeats and a part of one.
PageOf(c, p) ==
  LET outs == CeilDiv(BytesOf(c, p), NumBytes)
  IN  [compression |-> IF p.snappy THEN "SNAPPY" ELSE "RAW",
       beats |-> IF p.snappy THEN CeilDiv(outs, 2) ELSE outs,
       parts |-> 1 + (outs % Parts), outs |-> outs, ghost |-> p.ghost]
ContentOf(c, p) == [levels |-> p.levels, bytes |-> BytesOf(c, p), typ |-> c.typ]

Of(Op(_, _), cs) ==
  FlattenSeq([i \in DOMAIN cs |-> [j \in DOMAIN cs[i].pages |-> Op(cs[i], cs[i].pages[j])]])
Total(Op(_), ps) == FoldLeft(LAMBDA s, p : s + Op(p), 0, ps)
Values(p) == p.n

\* The sums before page j of chunk i.
LayoutOf(cs) ==
  LET prior(i, j, Op(_, _)) ==
        Total(LAMBDA c : Total(LAMBDA p : Op(c, p), c.pages), SubSeq(cs, 1, i - 1))
          + Total(LAMBDA p : Op(cs[i], p), SubSeq(cs[i].pages, 1, j - 1))
  IN  FlattenSeq([i \in DOMAIN cs |-> [j \in DOMAIN cs[i].pages |->
        [chunk |-> i, values |-> cs[i].pages[j].n, upto |-> Total(Values, SubSeq(cs[i].pages, 1, j)),
         before |-> prior(i, j, LAMBDA c, p : CeilDiv(BytesOf(c, p), NumBytes)),
         plains |-> prior(i, j, LAMBDA c, p : CeilDiv(p.n * Widths[c.typ], NumBytes))]]])

Work(cs) == [chunks |-> cs, pages |-> Of(PageOf, cs), contents |-> Of(ContentOf, cs), layout |-> LayoutOf(cs),
             sizes |-> [i \in DOMAIN cs |-> Total(Values, cs[i].pages)]]

\* Levels that end before, at and behind the end of a databeat, or of two.
Lengths == {0, 1, 3, 4, 5, 11, 12}

OneChunk ==
  {<<ChunkOf(t, <<p>>)>> : t \in DOMAIN Widths,
     p \in {Raw(l, n) : l \in Lengths, n \in {1, 3}} \cup {Snappy(l, 2, g) : l \in Lengths, g \in BOOLEAN}}

\* Pages behind one another, raw and compressed.
Sequences ==
  {<<ChunkOf("INT32_T", <<p, q>>)>> : p \in {Raw(4, 1), Snappy(2, 2, TRUE), Snappy(0, 3, FALSE)},
                                      q \in {Raw(1, 3), Snappy(4, 1, TRUE), Snappy(5, 2, FALSE)}}

\* Chunks of several types that fit a databeat each.  A chunk behind another has more
\* databeats than the skid buffer takes before the chunk is configured.
Short(typ) == ChunkOf(typ, <<Raw(4, 1), Raw(0, 1), Raw(2, 1)>>)
Chunks ==
  {<<ChunkOf("INT64_T", <<p>>), ChunkOf("BYTE_T", <<Raw(4, 1), Raw(0, 1), Raw(3, 2)>>),
     ChunkOf("BYTE_T", <<Raw(4, 1), Raw(0, 3), Raw(0, 1)>>)>> : p \in {Raw(0, 1), Snappy(4, 1, TRUE)}}
  \cup {<<Short("INT32_T"), Short("INT64_T")>>, <<Short("INT64_T"), Short("BYTE_T")>>}

GoodWorkloads == {Work(cs) : cs \in OneChunk \cup Sequences \cup Chunks}

-----------------------------------------------------------------------------
\* The values of a chunk without the levels of its pages, in databeats that are full but
\* for the last, which has `last`.
BeatsOf(w) ==
  LET first(i) == FoldLeft(LAMBDA s, c : s + Len(c.pages), 0, SubSeq(w.chunks, 1, i - 1))
      values(i) == FlattenSeq([j \in DOMAIN w.chunks[i].pages |->
                     LET p == w.contents[first(i) + j]
                     IN  [b \in 1..(p.bytes - 4 - p.levels) |-> [page |-> first(i) + j, at |-> 3 + p.levels + b]]])
      beats(i) == LET v == values(i)
                      k == CeilDiv(Len(v), NumBytes)
                  IN  [b \in 1..k |->
                        [typ |-> w.chunks[i].typ, last |-> b = k,
                         bytes |-> SubSeq(v, (b - 1) * NumBytes + 1, IF b = k THEN Len(v) ELSE b * NumBytes)]]
  IN  FlattenSeq([i \in DOMAIN w.chunks |-> beats(i)])

\* Every chunk comes out to its end.
EveryChunkDelivered == <>(Delivered /\ out = BeatsOf(work))
=============================================================================
