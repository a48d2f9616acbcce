---------------------------- MODULE MCRunDecoder ----------------------------
EXTENDS RunDecoder, SequencesExt

Rle(c) == [enc |-> "RLE", count |-> c,
               hlen |-> IF c < 64 THEN 1 ELSE IF c < 8192 THEN 2 ELSE 3]
Bpe(c) == [enc |-> "BPE", count |-> c, hlen |-> IF c < 512 THEN 1 ELSE 2]

Values(runs) == FoldLeft(LAMBDA n, r : n + r.count, 0, runs)

\* A page of these runs; pad: values its last BPE run has too many.
MkPage(bw, o, runs, pad) ==
  [bit_width |-> bw, offset |-> o, runs |-> runs, num_values |-> Values(runs) - pad]

\* The databeats of a run whose payload is at a, which holds n values.
UnpackedRun(p, r, a, n) ==
  LET k == CeilDiv(n, NumElements)
  IN  [j \in 1..k |->
        [enc |-> r.enc,
         at |-> IF CeilDiv(p.bit_width, 8) = 0 THEN 0
                ELSE IF r.enc = "RLE" THEN a ELSE a + (j - 1) * ((NumElements * p.bit_width) \div 8),
         values |-> IF j < k THEN NumElements ELSE n - (k - 1) * NumElements]]

PageBeats(p) ==
  LET before(i) == Values(SubSeq(p.runs, 1, i - 1))
      n(i) == IF i = Len(p.runs) THEN p.num_values - before(i) ELSE p.runs[i].count
  IN  FlattenSeq([i \in DOMAIN p.runs |->
        UnpackedRun(p, p.runs[i], HeaderAt(p, i) + p.runs[i].hlen, n(i))])

BeatsOf(ps) == FlattenSeq([i \in DOMAIN ps |-> PageBeats(ps[i])])

Runs == {Rle(5), Rle(70), Bpe(8), Bpe(24), Bpe(64), Bpe(512)}
RunSeqs == {<<a, b>> : a \in Runs, b \in Runs} \cup {<<a, b, c>> : a \in {Rle(5), Bpe(24)}, b \in Runs, c \in Runs}
Pads(runs) == IF runs[Len(runs)].enc = "BPE" THEN {0, 5} ELSE {0}
Pages(bws, offsets, seqs) ==
  UNION {{MkPage(bw, o, rs, pad) : bw \in bws, o \in offsets, pad \in Pads(rs)} : rs \in seqs}

OnePage == {<<p>> : p \in {q \in Pages({1, 8, 19}, {0, 8, 61, 63}, RunSeqs) : Decodable(q)}}
TwoPages == {<<a, b>> : a \in {q \in Pages({3}, {7}, {<<Rle(5), Bpe(24)>>}) : Decodable(q)},
                        b \in {q \in Pages({3, 12}, {60}, {<<Bpe(8), Rle(70)>>}) : Decodable(q)}}
GoodWorkloads == OnePage \cup TwoPages

LateWorkloads == {<<p>> : p \in {q \in Pages({9, 19}, {60}, {<<Rle(8192), Rle(5)>>, <<Rle(70), Rle(5)>>}) : LateHeader(q)}}

-----------------------------------------------------------------------------
\* Every page is decoded to its end and all of its values are put out.
EveryPageDecoded == <>(Finished /\ out = BeatsOf(pages))
=============================================================================
