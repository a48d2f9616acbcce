----------------------------- MODULE RunDecoder -----------------------------
(***************************************************************************)
(* The RunDecoder: it walks the RLE and bit-packed (BPE) runs of a hybrid  *)
(* page.  A window of two databeats slides over the page; `offset` and     *)
(* `varint_offset` point into it; a run's header is decoded ahead, while   *)
(* the run before it is still being unpacked.  ExpandRLE and ExpandBPE     *)
(* unpack, and an order queue merges what they put out.                    *)
(*                                                                         *)
(* A byte of the page is its position: databeat b brings the positions     *)
(* (b-1)*NumBytes .. b*NumBytes-1, position 0 being the first byte of the  *)
(* databeat that holds the first run.  What a decoder put out is right     *)
(* when it was read where the page has it.  A step is a clock edge at      *)
(* which a handshake happens or a decoded header is used.                  *)
(*                                                                         *)
(* A page is [bit_width, offset, runs, num_values]; a run is               *)
(* [enc, count, hlen], count being the one of its header (padded to whole  *)
(* groups of eight for a BPE run) and hlen the header's length.            *)
(***************************************************************************)
EXTENDS Integers, Sequences, FiniteSets

CONSTANTS
  NumBytes,      \* bytes of a databeat
  NumElements,   \* values of an output databeat
  Workloads,     \* sequences of pages to decode
  OrderDepth,    \* of the order queue
  RleDepth,      \* RLE runs ExpandRLE holds
  BpeDepth       \* inputs ExpandBPE holds

ASSUME DecoderSizes ==
  /\ {NumBytes, NumElements, OrderDepth, RleDepth, BpeDepth} \subseteq Nat \ {0}
  /\ NumElements % 8 = 0

VARIABLES
  pages, taken,    \* the workload, and how many configurations have been taken
  beats,           \* databeats of it taken
  lo, hi,          \* databeat in each half of `data`; 0: its `keep` is zero
  store_in_second_half, last_received,
  state, offset, varint_offset,
  varint,          \* varint_in: where its bytes were read, and how many in a row
  remaining_values,
  count,           \* rle_count or bpe_count
  bpe_remaining_inputs,
  order, rle, bpe, \* order queue, and what ExpandRLE and ExpandBPE hold
  out              \* databeats put out

input_vars == <<pages, taken, beats>>
window     == <<lo, hi, store_in_second_half, last_received>>
output_vars == <<order, rle, bpe, out>>
run_vars   == <<state, offset, varint_offset, varint, remaining_values, count, bpe_remaining_inputs>>
vars == <<input_vars, window, run_vars, output_vars>>

-----------------------------------------------------------------------------
(* The page.                                                               *)

page == pages[taken]
CeilDiv(n, d) == (n + d - 1) \div d
RleWidth == CeilDiv(page.bit_width, 8)
\* packed_databeat_bytes.
Packed == (NumElements * page.bit_width) \div 8

RunBytes(p, i) ==
  p.runs[i].hlen + (IF p.runs[i].enc = "RLE" THEN CeilDiv(p.bit_width, 8)
                    ELSE (p.runs[i].count * p.bit_width) \div 8)

\* The partial sums of the sequence s, from a on.
Sums(a, s) ==
  LET f[k \in 1..(Len(s) + 1)] == IF k = 1 THEN a ELSE f[k - 1] + s[k - 1]
  IN  f

\* Where run i starts; run Len(runs) + 1 is the end of the page.
HeaderAt(p, i) == Sums(p.offset, [k \in DOMAIN p.runs |-> RunBytes(p, k)])[i]
PageBytes(p) == HeaderAt(p, Len(p.runs) + 1)
NumBeats(p)  == CeilDiv(PageBytes(p), NumBytes)

\* The values of the runs before run i.
ValuesBefore(p, i) == Sums(0, [k \in DOMAIN p.runs |-> p.runs[k].count])[i]

\* The header of a run reaches the varint decoder with three bytes more.  When an RLE
\* run's value ends beyond them, it can be the value that brings the next header in,
\* and nothing looks at that header then.
LateHeader(p) == \E i \in 1..(Len(p.runs) - 1) :
  p.runs[i].enc = "RLE" /\ p.runs[i].hlen + CeilDiv(p.bit_width, 8) > 4

\* A BPE run of one input that begins in the databeat of its header and ends beyond it:
\* when the next databeat is there already, the header after the run is decoded before
\* the window moves, and its offset is taken for one in the first half.
UnmovedHeader(p) == \E i \in 1..(Len(p.runs) - 1) :
  LET o == HeaderAt(p, i) % NumBytes
  IN  /\ p.runs[i].enc = "BPE" /\ p.runs[i].count <= NumElements
      /\ o + p.runs[i].hlen < NumBytes /\ o + RunBytes(p, i) >= NumBytes

\* A page as Parquet has it, of indices that fit the decoder: 24 of them fit a databeat (those
\* of 19 bits do, the most that common.sv wants supported).
Run  == [enc : {"RLE", "BPE"}, count : Nat \ {0}, hlen : 1..4]
Page == [bit_width : 1..32, offset : 0..(NumBytes - 1), runs : Seq(Run), num_values : Nat]
Decodable(p) ==
  /\ p \in Page /\ 3 * p.bit_width <= NumBytes
  /\ \A i \in DOMAIN p.runs : p.runs[i].enc = "BPE" => p.runs[i].count % 8 = 0
  /\ LET n == Len(p.runs)
     IN  /\ n >= 1 /\ p.num_values \in (ValuesBefore(p, n) + 1)..ValuesBefore(p, n + 1)
         /\ p.runs[n].enc = "RLE" => p.num_values = ValuesBefore(p, n + 1)
  /\ ~LateHeader(p) /\ ~UnmovedHeader(p)

-----------------------------------------------------------------------------
(* The window.                                                             *)

Window == 2 * NumBytes
Trim(o) == o % NumBytes
Offset(o) == o % Window         \* an offset_t
None == -1                      \* no byte of the page

\* The position of byte o of a window with databeats l and h.
Pos(l, h, o) ==
  LET b == IF o < NumBytes THEN l ELSE h
  IN  IF o >= Window \/ b = 0 THEN None ELSE (b - 1) * NumBytes + Trim(o)

\* keep[o]; a select beyond the window finds zeros.
Keep(p, l, h, o) == Pos(l, h, o) # None /\ Pos(l, h, o) < PageBytes(p)

\* n bytes from o on are n bytes of the page in a row.
Slice(l, h, o, n) ==
  IF n = 0 THEN 0
  ELSE IF Pos(l, h, o) # None /\ Pos(l, h, o + n - 1) = Pos(l, h, o) + n - 1
       THEN Pos(l, h, o) ELSE None

\* update_varint_data and next_varint_valid.
ReadVarint(p, l, h, lst, o) ==
  [at    |-> Pos(l, h, o),
   row   |-> IF Slice(l, h, o, 4) # None THEN 4 ELSE NumBytes - Trim(o),
   valid |-> Keep(p, l, h, o) /\ (lst \/ \A i \in 1..3 : Keep(p, l, h, o + i))]
NoVarint == [at |-> None, row |-> 0, valid |-> FALSE]

\* store_input: the window with the databeat that arrives.
NextLo == IF store_in_second_half THEN lo ELSE beats + 1
NextHi == IF store_in_second_half THEN beats + 1 ELSE hi
NextLast == beats + 1 = NumBeats(page)
StoreInput ==
  /\ beats < NumBeats(page) /\ beats' = beats + 1
  /\ lo' = NextLo /\ hi' = NextHi /\ last_received' = NextLast
  /\ store_in_second_half' = ~store_in_second_half
  /\ UNCHANGED <<pages, taken>>

\* Slip: the half to store in next is not moved with the halves.
ShiftKeepingHalf(o) ==
  /\ IF o >= NumBytes
     THEN lo' = hi /\ hi' = 0
     ELSE UNCHANGED <<lo, hi>>
  /\ offset' = Trim(o)
  /\ UNCHANGED <<input_vars, last_received, store_in_second_half>>

\* update_offset, but for what it does to varint_offset.
UpdateOffset(o) ==
  /\ IF o >= NumBytes
     THEN lo' = hi /\ hi' = 0 /\ store_in_second_half' = ~store_in_second_half
     ELSE UNCHANGED <<lo, hi, store_in_second_half>>
  /\ offset' = Trim(o)
  /\ UNCHANGED <<input_vars, last_received>>

-----------------------------------------------------------------------------
(* From a header to the run's decoding.                                    *)

\* The run whose header the varint decoder has got whole, if any.
Header == {i \in DOMAIN page.runs :
             HeaderAt(page, i) = varint.at /\ page.runs[i].hlen <= varint.row}

AfterVarint(i) == Offset(varint_offset + page.runs[i].hlen)

GotoDecodeRle(i) ==
  LET o == Offset(AfterVarint(i) + RleWidth)
  IN  /\ state' = "DECODE_RLE" /\ count' = page.runs[i].count
      /\ varint_offset' = Offset(Trim(AfterVarint(i)) + RleWidth)
      /\ varint' = ReadVarint(page, lo, hi, last_received, o)
      /\ UNCHANGED bpe_remaining_inputs

\* Slip: the group of eight beyond the whole inputs is left out.
BpeBytesWhole(padded) == (padded \div NumElements) * Packed

BpeBytes(padded) ==
  ((padded \div NumElements) * Packed) + (IF padded % NumElements > 0 THEN page.bit_width ELSE 0)

GotoDecodeBpe(i, remaining) ==
  LET padded == page.runs[i].count
      inputs == padded \div NumElements
      o      == Offset(AfterVarint(i) + BpeBytes(padded))
  IN  /\ state' = "DECODE_BPE"
      /\ count' = IF remaining < padded THEN remaining ELSE padded
      /\ bpe_remaining_inputs' = inputs
      /\ varint_offset' = Trim(o)
      /\ varint' = IF inputs <= 1 THEN ReadVarint(page, lo, hi, last_received, o)
                   ELSE [varint EXCEPT !.valid = FALSE]

\* goto_decode: bytes that are no header make it decode anything, state LOST.
GotoDecode(remaining) ==
  \/ \E i \in Header :
       /\ UpdateOffset(AfterVarint(i))
       /\ IF page.runs[i].enc = "RLE" THEN GotoDecodeRle(i) ELSE GotoDecodeBpe(i, remaining)
  \/ /\ Header = {} /\ state' = "LOST"
     /\ UNCHANGED <<input_vars, window, offset, varint_offset, varint, count,
                    bpe_remaining_inputs>>

\* reset(): the page is finished; databeats of it that are left go unread.
Reset ==
  /\ state' = "IDLE" /\ lo' = 0 /\ hi' = 0
  /\ store_in_second_half' = FALSE /\ last_received' = FALSE
  /\ offset' = 0 /\ varint_offset' = 0 /\ varint' = NoVarint
  /\ count' = 0 /\ bpe_remaining_inputs' = 0
  /\ UNCHANGED input_vars

Init ==
  /\ pages \in Workloads /\ taken = 0 /\ beats = 0
  /\ lo = 0 /\ hi = 0 /\ store_in_second_half = FALSE /\ last_received = FALSE
  /\ state = "IDLE" /\ offset = 0 /\ varint_offset = 0 /\ varint = NoVarint
  /\ remaining_values = 0 /\ count = 0 /\ bpe_remaining_inputs = 0
  /\ order = <<>> /\ rle = <<>> /\ bpe = <<>> /\ out = <<>>

-----------------------------------------------------------------------------
(* The state machine.                                                      *)

\* ST_IDLE: the configuration arrives, with the first databeat or before it.
Configure(with_input) ==
  /\ state = "IDLE" /\ taken < Len(pages)
  /\ taken' = taken + 1
  /\ LET p == pages[taken + 1]
     IN  /\ offset' = p.offset /\ varint_offset' = p.offset
         /\ remaining_values' = p.num_values
         /\ IF with_input
            THEN /\ state' = "HEADER2" /\ beats' = 1 /\ lo' = 1
                 /\ last_received' = (NumBeats(p) = 1) /\ store_in_second_half' = TRUE
                 /\ varint' = ReadVarint(p, 1, 0, NumBeats(p) = 1, p.offset)
            ELSE /\ state' = "HEADER" /\ beats' = 0
                 /\ UNCHANGED <<lo, last_received, store_in_second_half, varint>>
  /\ UNCHANGED <<pages, hi, count, bpe_remaining_inputs, output_vars>>

\* ST_HEADER, and ST_HEADER2 without a header: one more databeat, and the varint
\* decoder is given the window with it.
HeaderInput ==
  /\ state \in {"HEADER", "HEADER2"} /\ ~varint.valid
  /\ StoreInput
  /\ varint' = ReadVarint(page, NextLo, NextHi, NextLast, varint_offset)
  /\ state' = "HEADER2"
  /\ UNCHANGED <<offset, varint_offset, remaining_values, count, bpe_remaining_inputs,
                 output_vars>>

HeaderDecoded ==
  /\ state = "HEADER2" /\ varint.valid
  /\ GotoDecode(remaining_values)
  /\ UNCHANGED <<remaining_values, output_vars>>

\* ST_DECODE_RLE and ST_DECODE_BPE without the bytes they need.
RleKept == \A i \in 0..(RleWidth - 1) : Keep(page, lo, hi, offset + i)
BpeKept == Keep(page, lo, hi, offset) /\ Keep(page, lo, hi, offset + Packed - 1)

PayloadInput ==
  /\ \/ state = "DECODE_RLE" /\ ~RleKept
     \/ state = "DECODE_BPE" /\ ~BpeKept
  /\ ~last_received
  /\ StoreInput
  /\ UNCHANGED <<run_vars, output_vars>>

\* Slip: a run that ends the page is finished like any other.
FinishRleAlways ==
  LET left == remaining_values - count
  IN  /\ remaining_values' = left
      /\ IF varint.valid THEN GotoDecode(left)
         ELSE /\ state' = "HEADER2"
              /\ UNCHANGED <<input_vars, window, offset, varint_offset, varint, count,
                             bpe_remaining_inputs>>

FinishRle ==
  LET left == remaining_values - count
  IN  /\ remaining_values' = left
      /\ IF left = 0 THEN Reset
         ELSE IF varint.valid THEN GotoDecode(left)
         ELSE /\ state' = "HEADER2"
              /\ UNCHANGED <<input_vars, window, offset, varint_offset, varint, count,
                             bpe_remaining_inputs>>

\* A whole RLE run goes to ExpandRLE.
DecodeRle ==
  /\ state = "DECODE_RLE" /\ RleKept
  /\ Len(order) < OrderDepth /\ Len(rle) < RleDepth
  /\ order' = Append(order, "RLE")
  /\ rle' = Append(rle, [at |-> Slice(lo, hi, offset, RleWidth), count |-> count])
  /\ FinishRle
  /\ UNCHANGED <<bpe, out>>

\* Where the next header is when only the last input of a run is left, which starts at
\* next: before the shift of this step, if there is one.
AheadOf(next) ==
  IF next > varint_offset /\ next + Packed >= NumBytes
  THEN Offset(varint_offset + NumBytes) ELSE varint_offset

AdvanceBpe ==
  LET next == offset + Packed
      o == AheadOf(next)
      v == ReadVarint(page, lo, hi, last_received, o)
  IN  /\ count' = count - NumElements
      /\ remaining_values' = remaining_values - NumElements
      /\ bpe_remaining_inputs' = bpe_remaining_inputs - 1
      /\ UpdateOffset(next)
      /\ IF bpe_remaining_inputs = 1
         THEN /\ varint' = v
              /\ varint_offset' =
                   IF ~v.valid /\ next < NumBytes THEN o
                   ELSE IF next >= NumBytes THEN Trim(varint_offset) ELSE varint_offset
         ELSE /\ varint_offset' = IF next >= NumBytes THEN Trim(varint_offset) ELSE varint_offset
              /\ UNCHANGED varint
      /\ UNCHANGED state

\* Where the next header is when the last input of the run has been handed on.
Wrapped == IF varint_offset <= offset THEN varint_offset + NumBytes ELSE varint_offset

FinishBpe ==
  LET left == remaining_values - count
  IN  /\ remaining_values' = left
      /\ IF left = 0 THEN Reset
         ELSE IF varint.valid THEN GotoDecode(left)
         ELSE /\ varint' = ReadVarint(page, lo, hi, last_received, Wrapped)
              /\ UpdateOffset(Wrapped)
              /\ varint_offset' = IF Wrapped >= NumBytes THEN Trim(varint_offset) ELSE varint_offset
              /\ state' = "HEADER2"
              /\ UNCHANGED <<count, bpe_remaining_inputs>>

OrderBpe == Append(order, "BPE")

\* The values of one output databeat go to ExpandBPE.
DecodeBpe ==
  /\ state = "DECODE_BPE" /\ (BpeKept \/ last_received) /\ count > 0
  /\ Len(order) < OrderDepth /\ Len(bpe) < BpeDepth
  /\ LET n == IF count <= NumElements THEN count ELSE NumElements
     IN  bpe' = Append(bpe, [at    |-> Slice(lo, hi, offset, CeilDiv(n * page.bit_width, 8)),
                             count |-> n])
  /\ order' = OrderBpe
  /\ IF count <= NumElements THEN FinishBpe ELSE AdvanceBpe
  /\ UNCHANGED <<rle, out>>

-----------------------------------------------------------------------------
(* The merged output.                                                      *)

Beat(enc, item, n) == [enc |-> enc, at |-> item.at, values |-> n]

\* Slip: the order queue moves on with every databeat of a run.
OutputRleBeatwise ==
  /\ order # <<>> /\ Head(order) = "RLE" /\ rle # <<>> /\ Head(rle).count > 0
  /\ LET r == Head(rle)
         last == r.count <= NumElements
     IN  /\ out' = Append(out, Beat("RLE", r, IF last THEN r.count ELSE NumElements))
         /\ order' = Tail(order)
         /\ rle' = IF last THEN Tail(rle)
                   ELSE <<[r EXCEPT !.count = @ - NumElements]>> \o Tail(rle)
  /\ UNCHANGED <<input_vars, window, run_vars, bpe>>

\* ExpandRLE repeats its value; its last databeat of a run moves the order queue on.
OutputRle ==
  /\ order # <<>> /\ Head(order) = "RLE" /\ rle # <<>> /\ Head(rle).count > 0
  /\ LET r == Head(rle)
         last == r.count <= NumElements
     IN  /\ out' = Append(out, Beat("RLE", r, IF last THEN r.count ELSE NumElements))
         /\ order' = IF last THEN Tail(order) ELSE order
         /\ rle' = IF last THEN Tail(rle)
                   ELSE <<[r EXCEPT !.count = @ - NumElements]>> \o Tail(rle)
  /\ UNCHANGED <<input_vars, window, run_vars, bpe>>

OutputBpe ==
  /\ order # <<>> /\ Head(order) = "BPE" /\ bpe # <<>>
  /\ out' = Append(out, Beat("BPE", Head(bpe), Head(bpe).count))
  /\ order' = Tail(order) /\ bpe' = Tail(bpe)
  /\ UNCHANGED <<input_vars, window, run_vars, rle>>

-----------------------------------------------------------------------------
Finished == taken = Len(pages) /\ state = "IDLE" /\ order = <<>>
Done == Finished /\ UNCHANGED vars

Step ==
  \/ \E with_input \in BOOLEAN : Configure(with_input)
  \/ HeaderInput \/ HeaderDecoded \/ PayloadInput \/ DecodeRle \/ DecodeBpe
Output == OutputRle \/ OutputBpe

Next == Step \/ Output \/ Done
Spec == Init /\ [][Next]_vars

\* Every stage is clocked, input arrives and output is taken.
FairSpec == Spec /\ WF_vars(Step) /\ WF_vars(Output)

-----------------------------------------------------------------------------
(* Properties.                                                             *)

\* The registers hold what their widths allow, offset pointing into the first half and
\* the read-ahead header into the window, and no bytes that are no header are ever
\* taken for one (state "LOST").
TypeOK ==
  /\ state \in {"IDLE", "HEADER", "HEADER2", "DECODE_RLE", "DECODE_BPE"}
  /\ taken \in 0..Len(pages) /\ beats \in Nat /\ {lo, hi} \subseteq 0..beats
  /\ {store_in_second_half, last_received} \subseteq BOOLEAN
  /\ offset \in 0..(NumBytes - 1) /\ varint_offset \in 0..(Window - 1)
  /\ {varint.at, varint.row} \subseteq -1..(NumBytes * beats) /\ varint.valid \in BOOLEAN
  /\ {remaining_values, count, bpe_remaining_inputs} \subseteq Nat
  /\ Len(order) <= OrderDepth /\ Len(rle) <= RleDepth /\ Len(bpe) <= BpeDepth

\* The databeats of the page are never out of turn in the window: its halves hold two
\* that follow each other, up to the last one taken, and the next goes to a half that
\* is free (data, keep and store_in_second_half are updated by two tasks, possibly for
\* two different reasons in one run).
WindowFollows ==
  state # "IDLE" =>
    IF store_in_second_half THEN lo = beats /\ hi = 0
    ELSE (lo = 0 /\ hi = 0) \/ (hi = beats /\ lo = hi - 1)

-----------------------------------------------------------------------------
(* What the RunDecoder puts out, as RunStream has it: the databeats of a   *)
(* page's runs, each of NumElements values but for the last of its run.    *)

\* The values that run i gives the page: the last run may have more than the page.
RunValues(p, i) ==
  IF i = Len(p.runs) THEN p.num_values - ValuesBefore(p, i) ELSE p.runs[i].count

\* Its databeats, those of the runs before it, and of the pages before page q.
RunBeats(p, i) == CeilDiv(RunValues(p, i), NumElements)
BeatsBefore(p, i)  == Sums(0, [k \in DOMAIN p.runs |-> RunBeats(p, k)])[i]
PagesBefore(ps, q) ==
  Sums(0, [k \in DOMAIN ps |-> BeatsBefore(ps[k], Len(ps[k].runs) + 1)])[q]

\* Databeat j of run i, the first being 0: an RLE run's all have its one value.
BeatAt(p, i, j) ==
  LET at   == HeaderAt(p, i) + p.runs[i].hlen
      left == RunValues(p, i) - NumElements * j
  IN  [enc    |-> p.runs[i].enc,
       at     |-> IF p.runs[i].enc = "RLE" THEN at
                  ELSE at + j * ((NumElements * p.bit_width) \div 8),
       values |-> IF left <= NumElements THEN left ELSE NumElements]

NextBeats(ps, o) ==
  LET beat(q, i) == Len(o) - PagesBefore(ps, q) - BeatsBefore(ps[q], i)
  IN  UNION {{BeatAt(ps[q], i, beat(q, i)) :
                i \in {k \in DOMAIN ps[q].runs : beat(q, k) \in 0..(RunBeats(ps[q], k) - 1)}} :
             q \in DOMAIN ps}
Stream == INSTANCE RunStream

\* The databeats put out are the values of the runs, in the page's order, each unpacked
\* from the bytes the page has for them: run_decoder.sv implements RunStream.
StreamSpec == Stream!Spec

=============================================================================
