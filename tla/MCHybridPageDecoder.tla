------------------------ MODULE MCHybridPageDecoder ------------------------
EXTENDS HybridPageDecoder, SequencesExt

\* The databeat of a page's first run: 4 bytes of length, the levels and the bit width
\* come before it.
FirstBeat(levels) == (5 + levels) \div NumBytes + 1

\* A page with these levels whose RunDecoder puts out outs[k] values after k - 1 databeats
\* beyond the first; `padding` databeats behind those it needs.
PageWith(levels, outs, padding) ==
  [levels |-> levels,
   beats  |-> FirstBeat(levels) + Len(outs) - 1 + padding,
   outs   |-> [k \in DOMAIN outs |-> [upto |-> FoldLeft(+, 0, SubSeq(outs, 1, k)),
                                   need |-> FirstBeat(levels) + k - 1]]]

Keep(page, last) == [keep |-> TRUE, last |-> last, page |-> page]
DictReset        == [keep |-> FALSE, last |-> FALSE]

\* Around the boundary of a databeat, of two, and the largest levels an offset_t takes.
Around == {0, 2, 57, 58, 59, 60, 121, 122, 123}

Outs == {<<3>>, <<16, 5>>, <<16, 16, 1>>}
Pages(levels) == {PageWith(l, o, pad) : l \in levels, o \in Outs, pad \in 0..2}

\* One page and more, with and without the end of the group, a dictionary reset between.
GoodWorkloads ==
  {<<Keep(p, TRUE)>> : p \in Pages(Around)}
    \cup {<<Keep(p, FALSE), Keep(q, TRUE)>> : p \in Pages({2, 58, 59, 122}), q \in Pages({2, 59})}
    \cup {<<Keep(p, TRUE), DictReset, Keep(q, TRUE)>> : p \in Pages({59}), q \in Pages({0, 122})}

-----------------------------------------------------------------------------
\* All that comes out of a workload.
BeatsOf(w) ==
  FlattenSeq([i \in DOMAIN w |->
    [k \in 1..(IF w[i].keep THEN Len(w[i].page.outs) ELSE 1) |-> OutOf(w, i, k)]])

\* Every page is decoded, and its padding does not stop the next one.
EveryPageDecoded == <>(state = "IDLE" /\ taken = Len(work) /\ ~Valid /\ out = BeatsOf(work))
=============================================================================
