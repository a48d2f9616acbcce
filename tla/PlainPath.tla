------------------------------ MODULE PlainPath ------------------------------
(***************************************************************************)
(* The way of a plain page through the decoder:                            *)
(*                                                                         *)
(*   Decompressor -> StripLevels -> its type -> TypedNormalizeUntil        *)
(*                                                                         *)
(* as column_chunk_decoder.sv connects them, for chunks that have plain    *)
(* pages only.                                                             *)
(***************************************************************************)
EXTENDS Integers, Sequences, FiniteSets

\* A workload is what each stage is told of the chunks: [pages, contents, sizes].  Its
\* layout is for the assumptions and the properties.  It has of each page the chunk, the
\* values, the values of the chunk up to its end (upto), and how many databeats come out
\* of the Decompressor (before) and of StripLevels (plains) before the page does.
CONSTANTS
  Workloads,   \* [pages, contents, sizes, layout]
  NumBytes, Parts, SkidDepth, PipeDepth, FifoDepth, Width

\* A databeat holds whole values, and the FIFO has the type of every transfer that is in
\* transit (normalize_until.sv, line 110).
ASSUME PathSizes ==
  /\ {Parts, SkidDepth, PipeDepth, FifoDepth} \subseteq Nat \ {0} /\ PipeDepth <= FifoDepth
  /\ NumBytes \in Nat /\ NumBytes >= 4
  /\ \A typ \in DOMAIN Width : Width[typ] \in 1..NumBytes /\ NumBytes % Width[typ] = 0

VARIABLES
  work,
  input, conf, demuxing, muxing, bypass, unzipped,
  in_data, unzip, inner, tmp, input_paused, reset_counter,
  decompressed,
  strip_state, remaining_offset, shift_offset, register, stripped,
  plain,
  chunk, remaining, in_typ, fifo_typ, fifo, skid, packed, pipe,
  out

dec_vars   == <<input, conf, demuxing, muxing, bypass, unzipped,
                in_data, unzip, inner, tmp, input_paused, reset_counter>>
strip_vars == <<strip_state, remaining_offset, shift_offset, register, stripped>>
norm_vars  == <<chunk, remaining, in_typ, fifo_typ, fifo, skid, packed, pipe>>
vars == <<work, dec_vars, decompressed, strip_vars, plain, norm_vars, out>>

Dec   == INSTANCE Decompressor WITH pages <- work.pages
Strip == INSTANCE StripLevels WITH contents <- work.contents
Norm  == INSTANCE TypedNormalizeUntil WITH sizes <- work.sizes

ASSUME NoTypeAssumption == Norm!NoType \notin DOMAIN Width

\* Databeats that n bytes need.
BeatsFor(n) == (n + NumBytes - 1) \div NumBytes

\* A page is levels and at least one value, in as many databeats as its bytes need.
PageWhole(w, p) ==
  LET page == w.pages[p]  content == w.contents[p]  layout == w.layout[p]
  IN  /\ {content.levels, layout.before, layout.plains} \subseteq Nat
      /\ {layout.values, layout.upto, page.beats} \subseteq Nat \ {0}
      /\ content.typ \in DOMAIN Width
      /\ content.bytes = 4 + content.levels + layout.values * Width[content.typ]
      /\ page.compression \in {"RAW", "SNAPPY"} /\ page.ghost \in BOOLEAN
      /\ IF page.compression = "RAW" THEN page.beats = BeatsFor(content.bytes)
         ELSE page.outs = BeatsFor(content.bytes)

\* The first page of the chunk of page p.
Starts(w, p) == p = 1 \/ w.layout[p].chunk # w.layout[p - 1].chunk

\* The pages of a chunk are of one type and hold the chunk's values; a chunk behind
\* another has more databeats than fit the skid buffer before the chunk is configured.
PagesInRow(w) ==
  LET N == Len(w.pages)
  IN  /\ \A p \in 1..N : w.layout[p].upto = w.layout[p].values + (IF Starts(w, p) THEN 0 ELSE w.layout[p - 1].upto)
      /\ \A p \in 1..(N - 1) :
           LET l == w.layout[p]  m == w.layout[p + 1]
           IN  /\ m.before = l.before + BeatsFor(w.contents[p].bytes)
               /\ m.plains = l.plains + BeatsFor(l.values * Width[w.contents[p].typ])
               /\ m.chunk = IF l.upto = w.sizes[l.chunk] THEN l.chunk + 1 ELSE l.chunk
               /\ m.chunk = l.chunk => w.contents[p + 1].typ = w.contents[p].typ /\ l.upto < w.sizes[l.chunk]
      /\ \A p, q \in 1..N : p > 1 /\ Starts(w, p) /\ w.layout[p].chunk < w.layout[q].chunk
                              => w.layout[q].plains >= w.layout[p].plains + SkidDepth

WellFormed(w) ==
  /\ {Len(w.pages), Len(w.sizes)} \subseteq Nat \ {0}
  /\ \A i \in 1..Len(w.sizes) : w.sizes[i] \in Nat \ {0}
  /\ \A p \in 1..Len(w.pages) : PageWhole(w, p) /\ w.layout[p].chunk \in 1..Len(w.sizes)
  /\ w.layout[1].chunk = 1 /\ w.layout[1].before = 0 /\ w.layout[1].plains = 0
  /\ LET l == w.layout[Len(w.pages)] IN l.chunk = Len(w.sizes) /\ l.upto = w.sizes[l.chunk]
  /\ PagesInRow(w)

ASSUME WorkloadsAssumption == \A w \in Workloads : WellFormed(w)

-----------------------------------------------------------------------------
Init == work \in Workloads /\ Dec!Init /\ Strip!Init /\ Norm!Init

Decompress == UNCHANGED work /\ Dec!Next /\ UNCHANGED <<strip_vars, plain, norm_vars, out>>
StripStep  == UNCHANGED work /\ Strip!Next /\ UNCHANGED <<dec_vars, norm_vars, out>>
Normalize  ==
  /\ UNCHANGED work
  /\ \E normalizer_ready, out_ready \in BOOLEAN : Norm!Clock(normalizer_ready, out_ready)
  /\ UNCHANGED <<dec_vars, decompressed, strip_vars>>

Delivered == chunk = Len(work.sizes) /\ plain = <<>> /\ skid = <<>> /\ pipe = <<>> /\ remaining = 0
Done == Delivered /\ input = <<>> /\ UNCHANGED vars

Step == Decompress \/ StripStep \/ Normalize
Next == Step \/ Done
Spec == Init /\ [][Next]_vars

\* Every stage is clocked, input arrives and output is taken.
FairSpec == Spec /\ WF_vars(Step)

-----------------------------------------------------------------------------
(* Properties.                                                             *)

TypeOK ==
  /\ strip_state \in {"WAIT", "CONSUME", "PIPE"} /\ reset_counter \in 0..2
  /\ strip_state = "CONSUME" => remaining_offset >= NumBytes
  /\ strip_state = "PIPE" => remaining_offset < NumBytes
  /\ remaining \in Nat /\ Len(skid) <= SkidDepth /\ Len(pipe) <= PipeDepth /\ Len(fifo) <= FifoDepth

\* vhsnunzip_wrapper.sv resets vhsnunzip between two pages: while it does, nothing of the
\* next page is in the wrapper to be lost, and what comes out is of the page of the selector.
ResetBetweenPages == Dec!ResetBetweenPages

\* normalize_until.sv queues the type of a chunk once, although fifo_typ.valid is cleared
\* only while there is something to count: queued and waiting types are those of the
\* chunks that have been taken and have not left.
TypesQueuedOnce ==
  Len(fifo) + (IF fifo_typ = Norm!NoType THEN 0 ELSE 1)
    = chunk - Cardinality({i \in DOMAIN out : out[i].last})

-----------------------------------------------------------------------------
(* What comes out, as RunStream has it.                                    *)

\* Byte x of the values of chunk c is in the page that has it, behind its levels.
ValuesFrom(w, p) == (w.layout[p].upto - w.layout[p].values) * Width[w.contents[p].typ]
Holds(w, p, c, x) ==
  w.layout[p].chunk = c /\ ValuesFrom(w, p) <= x /\ x < w.layout[p].upto * Width[w.contents[p].typ]
ByteOf(w, c, x) ==
  LET p == CHOOSE p \in 1..Len(w.pages) : Holds(w, p, c, x)
  IN  [page |-> p, at |-> 4 + w.contents[p].levels + (x - ValuesFrom(w, p))]

TypeOf(w, c) == w.contents[CHOOSE p \in 1..Len(w.pages) : w.layout[p].chunk = c].typ
ChunkBytes(w, c) == w.sizes[c] * Width[TypeOf(w, c)]

\* Databeat k of chunk c: full but for the last, which has `last`.
BeatOf(w, c, k) ==
  LET last == k = BeatsFor(ChunkBytes(w, c))
      n    == IF last THEN ChunkBytes(w, c) - (k - 1) * NumBytes ELSE NumBytes
  IN  [typ |-> TypeOf(w, c), last |-> last,
       bytes |-> [b \in 1..n |-> ByteOf(w, c, (k - 1) * NumBytes + b - 1)]]

\* The databeat behind those that are out; Begun are those of a chunk that has not ended.
Ended(o) == {i \in DOMAIN o : o[i].last}
Begun(o) == {i \in DOMAIN o : \A j \in i..Len(o) : ~o[j].last}
NextBeats(w, o) ==
  {BeatOf(w, c, Cardinality(Begun(o)) + 1) : c \in {Cardinality(Ended(o)) + 1} \cap 1..Len(w.sizes)}

Stream == INSTANCE RunStream WITH pages <- work

\* What comes out of the plain path are the values of the chunks and nothing of their
\* levels, packed without a gap over the ends of pages, each chunk under its type and with
\* one `last`: column_chunk_decoder.sv implements RunStream.
StreamSpec == Stream!Spec
=============================================================================
