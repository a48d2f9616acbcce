-------------------------- MODULE PageHeaderParser --------------------------
(***************************************************************************)
(* The page header parser of page_header_parser.sv, clock by clock: it     *)
(* walks the Thrift-compact page headers of a column chunk one byte a      *)
(* cycle, issues a page configuration for each page and forwards the       *)
(* page's payload as one transfer.                                         *)
(*                                                                         *)
(* The buffer is the sequence of its valid bytes, so remaining_bytes is    *)
(* Len(buffer); bytes behind them are never read (see TypeOK and the       *)
(* guards on Len(buffer)).  An action is one cycle of the FSM, or one      *)
(* handshake of an output register, which may fall in the same cycle.      *)
(***************************************************************************)
EXTENDS Integers, Sequences, SequencesExt

CONSTANTS
  Workloads,  \* sequences of column chunks a host may submit
  NumBytes,   \* NUM_BYTES: bytes of a databeat
  SizeMod     \* 2^32: the width of data32_t

Byte     == 0..255
PageKind == {"HYBRID", "DICT", "PLAIN"}
Page     == [kind : PageKind, n : Nat, header : Seq(Byte), payload : Seq(Byte)]
Chunk    == [num_values : 0..(SizeMod - 1), pages : Seq(Page)]

ASSUME WorkloadsAssumption == Workloads \subseteq Seq(Chunk)
ASSUME SizesAssumption     == NumBytes \in Nat /\ NumBytes >= 4 /\ SizeMod \in Nat \ {0}

VARIABLES
  work,        \* the chunks the host submits (chosen once)
  chunk,       \* number of chunk configurations taken
  input,       \* beats on `in` that were not taken yet
  state,
  next_state,  \* where SKIP_VARINT returns to
  buffer,      \* the valid bytes of buffer_data
  skip,        \* skip_bytes
  depth,       \* struct_depth
  left,        \* remaining_chunk_num_values
  kind,        \* parsed_page_type
  comp,        \* remaining_comp_size
  nvals,       \* parsed_num_values
  conf,        \* page_conf_valid
  payload,     \* the payload register: no beat or one
  confs,       \* page configurations taken
  transfers    \* payload transfers taken

header_vars == <<kind, comp, nvals, depth, next_state>>
host_vars   == <<work, chunk>>
out_vars    == <<confs, transfers>>
vars == <<host_vars, input, state, buffer, skip, header_vars, left, conf, payload, out_vars>>

-----------------------------------------------------------------------------
\* The beats a chunk arrives in: all full but the last.
Beats(ch) ==
  LET bytes == FlattenSeq([i \in DOMAIN ch.pages |-> ch.pages[i].header \o ch.pages[i].payload])
      beats == (Len(bytes) + NumBytes - 1) \div NumBytes
  IN  [b \in 1..beats |-> SubSeq(bytes, (b - 1) * NumBytes + 1,
                                 IF b = beats THEN Len(bytes) ELSE b * NumBytes)]

\* The VarintDecoder: four bytes at the head of the buffer.
Continues(i)  == \A j \in 1..i : buffer[j] >= 128
VarintLength  == 1 + Cardinality({i \in 1..4 : Continues(i)})
VarintByte(i) == IF Continues(i - 1) THEN buffer[i] % 128 ELSE 0
VarintValue   == VarintByte(1) + 128 * VarintByte(2) + 16384 * VarintByte(3)
                 + 2097152 * VarintByte(4)
ZigZag(n)     == IF n % 2 = 0 THEN (n \div 2) % SizeMod
                 ELSE SizeMod - 1 - ((n \div 2) % SizeMod)
CurValue      == ZigZag(VarintValue)

Init ==
  /\ work \in Workloads
  /\ chunk = 0 /\ input = <<>>
  /\ state = "IDLE" /\ next_state = "IDLE"
  /\ buffer = <<>> /\ skip = 0 /\ depth = 0 /\ left = 0
  /\ kind = "HYBRID" /\ comp = 0 /\ nvals = 0
  /\ conf = FALSE /\ payload = <<>>
  /\ confs = <<>> /\ transfers = <<>>

-----------------------------------------------------------------------------
TakeChunkConf ==
  /\ state = "IDLE" /\ chunk < Len(work)
  /\ chunk' = chunk + 1
  /\ input' = input \o Beats(work[chunk'])
  /\ left' = work[chunk'].num_values
  /\ buffer' = <<>> /\ skip' = 1
  /\ state' = "PARSE_TYPE"
  /\ UNCHANGED <<work, header_vars, conf, payload, out_vars>>

-----------------------------------------------------------------------------
(* Header cycles.  With fewer than four bytes the buffer is refilled;      *)
(* otherwise it moves on by one byte and skip_bytes counts down.           *)

Fields       == {"PARSE_TYPE", "SKIP_UNCOMP", "PARSE_COMP", "IS_CRC", "PARSE_NVALS",
                 "PARSE_ENC", "IS_END"}
HeaderStates == Fields \cup {"SKIP_VARINT", "SKIP_BINARY"}

\* SKIP_VARINT looks at the head of the buffer whether or not it moves on.
VarintEnds == state = "SKIP_VARINT" /\ buffer[1] < 128

Refill ==
  /\ state \in HeaderStates /\ Len(buffer) < 4 /\ input # <<>>
  /\ buffer' = buffer \o Head(input)
  /\ input' = Tail(input)
  /\ state' = IF VarintEnds THEN next_state ELSE state
  /\ UNCHANGED <<host_vars, skip, header_vars, left, conf, payload, out_vars>>

\* `in` is not valid yet.
WaitInVarint ==
  /\ Len(buffer) < 4 /\ VarintEnds
  /\ state' = next_state
  /\ UNCHANGED <<host_vars, input, buffer, skip, header_vars, left, conf, payload, out_vars>>

Advance == Len(buffer) >= 4 /\ buffer' = Tail(buffer)

Frame == UNCHANGED <<host_vars, input, payload, out_vars>>

Skip ==
  /\ state \in Fields /\ skip # 0 /\ Advance
  /\ skip' = skip - 1
  /\ UNCHANGED <<state, header_vars, left, conf>> /\ Frame

\* A field is read at the first cycle that has nothing left to skip.
Field(s) == state = s /\ skip = 0 /\ Advance

ParseType ==
  /\ Field("PARSE_TYPE")
  /\ kind' = IF CurValue = 2 THEN "DICT" ELSE "HYBRID"
  /\ skip' = VarintLength
  /\ state' = "SKIP_UNCOMP"
  /\ UNCHANGED <<comp, nvals, depth, next_state, left, conf>> /\ Frame

SkipUncomp ==
  /\ Field("SKIP_UNCOMP")
  /\ skip' = VarintLength
  /\ state' = "PARSE_COMP"
  /\ UNCHANGED <<header_vars, left, conf>> /\ Frame

ParseComp ==
  /\ Field("PARSE_COMP")
  /\ comp' = CurValue
  /\ skip' = VarintLength - 1
  /\ state' = "IS_CRC"
  /\ UNCHANGED <<kind, nvals, depth, next_state, left, conf>> /\ Frame

IsCrc ==
  /\ Field("IS_CRC")
  /\ IF buffer[1] = 21   \* 0x15
     THEN /\ next_state' = "IS_CRC" /\ state' = "SKIP_VARINT"
          /\ UNCHANGED skip
     ELSE /\ state' = "PARSE_NVALS" /\ skip' = 1
          /\ UNCHANGED next_state
  /\ UNCHANGED <<kind, comp, nvals, depth, left, conf>> /\ Frame

ParseNvals ==
  /\ Field("PARSE_NVALS")
  /\ nvals' = CurValue
  /\ skip' = VarintLength
  /\ state' = "PARSE_ENC"
  /\ UNCHANGED <<kind, comp, depth, next_state, left, conf>> /\ Frame

\* Slip: dictionary entries count as values of the chunk.
ParseEncAll ==
  /\ Field("PARSE_ENC")
  /\ kind' = IF kind # "DICT" /\ CurValue = 0 THEN "PLAIN" ELSE kind
  /\ left' = (left + SizeMod - nvals) % SizeMod
  /\ skip' = VarintLength - 1
  /\ depth' = 2
  /\ state' = "IS_END"
  /\ UNCHANGED <<comp, nvals, next_state, conf>> /\ Frame

ParseEnc ==
  /\ Field("PARSE_ENC")
  /\ IF kind = "DICT"
     THEN UNCHANGED <<kind, left>>
     ELSE /\ kind' = IF CurValue = 0 THEN "PLAIN" ELSE kind
          /\ left' = (left + SizeMod - nvals) % SizeMod
  /\ skip' = VarintLength - 1
  /\ depth' = 2
  /\ state' = "IS_END"
  /\ UNCHANGED <<comp, nvals, next_state, conf>> /\ Frame

\* One tag byte of the optional fields: bool values are in the tag, any tag that
\* is not listed is dropped.
IsEnd ==
  /\ Field("IS_END")
  /\ LET type == buffer[1] % 16
         end  == buffer[1] = 0 /\ depth = 1
     IN  /\ state' = CASE type = 5 -> "SKIP_VARINT"
                       [] type = 8 -> "SKIP_BINARY"
                       [] end      -> "PAYLOAD_FLUSH_BUF"
                       [] OTHER    -> "IS_END"
         /\ next_state' = IF type = 5 THEN "IS_END" ELSE next_state
         /\ depth' = CASE type = 12     -> depth + 1
                       [] buffer[1] = 0 -> depth - 1
                       [] OTHER         -> depth
         /\ conf' = (conf \/ end)
  /\ UNCHANGED <<skip, kind, comp, nvals, left>> /\ Frame

SkipVarint ==
  /\ state = "SKIP_VARINT" /\ Advance
  /\ state' = IF VarintEnds THEN next_state ELSE state
  /\ UNCHANGED <<skip, header_vars, left, conf>> /\ Frame

SkipBinary ==
  /\ state = "SKIP_BINARY" /\ Advance
  /\ skip' = VarintValue + VarintLength - 1
  /\ state' = "IS_END"
  /\ UNCHANGED <<header_vars, left, conf>> /\ Frame

-----------------------------------------------------------------------------
(* The payload: first what the buffer holds of it, then `in` itself.       *)

PayloadUnchanged == UNCHANGED <<host_vars, kind, nvals, depth, next_state, left, conf, out_vars>>

\* Slip: the payload register is written whether or not it is free.
EmitAlways(bytes, last) == payload' = Append(payload, [bytes |-> bytes, last |-> last])

\* Fill the payload register, which is free.
Emit(bytes, last) == payload = <<>> /\ payload' = <<[bytes |-> bytes, last |-> last]>>

FlushBuf == state = "PAYLOAD_FLUSH_BUF" /\ buffer # <<>>
Overfull == Len(buffer) > NumBytes /\ comp > NumBytes

FlushOverfull ==
  /\ FlushBuf /\ Overfull
  /\ Emit(SubSeq(buffer, 1, NumBytes), comp <= Len(buffer))
  /\ buffer' = SubSeq(buffer, NumBytes + 1, Len(buffer))
  /\ comp' = comp - NumBytes
  /\ UNCHANGED <<input, state, skip>> /\ PayloadUnchanged

\* Slip: the next page's first tag is not skipped.
FlushPartOnly ==
  /\ FlushBuf /\ ~Overfull /\ comp < Len(buffer)
  /\ Emit(SubSeq(buffer, 1, comp), TRUE)
  /\ comp' = 0
  /\ skip' = comp
  /\ state' = "FLUSH_CONF"
  /\ UNCHANGED <<input, buffer>> /\ PayloadUnchanged

\* The buffer also holds bytes of the next page: skip the payload and the first tag.
FlushPart ==
  /\ FlushBuf /\ ~Overfull /\ comp < Len(buffer)
  /\ Emit(SubSeq(buffer, 1, comp), TRUE)
  /\ comp' = 0
  /\ skip' = comp + 1
  /\ state' = "FLUSH_CONF"
  /\ UNCHANGED <<input, buffer>> /\ PayloadUnchanged

FlushWhole ==
  /\ FlushBuf /\ ~Overfull /\ comp >= Len(buffer)
  /\ Emit(buffer, comp = Len(buffer))
  /\ buffer' = <<>>
  /\ comp' = comp - Len(buffer)
  /\ skip' = 1
  /\ state' = IF comp = Len(buffer) THEN "FLUSH_CONF" ELSE "PAYLOAD_BYPASS"
  /\ UNCHANGED input /\ PayloadUnchanged

\* The page ends inside the beat: what follows is the next page's header.
BypassEnd ==
  /\ state = "PAYLOAD_BYPASS" /\ input # <<>> /\ comp > 0 /\ comp < NumBytes
  /\ Emit(SubSeq(Head(input), 1, comp), TRUE)
  /\ buffer' = Head(input)
  /\ input' = Tail(input)
  /\ skip' = comp + 1
  /\ comp' = 0
  /\ state' = "FLUSH_CONF"
  /\ PayloadUnchanged

BypassBeat ==
  /\ state = "PAYLOAD_BYPASS" /\ input # <<>> /\ comp >= NumBytes
  /\ Emit(Head(input), comp = NumBytes)
  /\ input' = Tail(input)
  /\ comp' = comp - NumBytes
  /\ state' = IF comp = NumBytes THEN "FLUSH_CONF" ELSE state
  /\ UNCHANGED <<buffer, skip>> /\ PayloadUnchanged

\* Slip: page_conf is not waited for.
FlushConfAnyway ==
  /\ state = "FLUSH_CONF"
  /\ state' = IF left = 0 THEN "IDLE" ELSE "PARSE_TYPE"
  /\ UNCHANGED <<host_vars, input, buffer, skip, header_vars, left, conf, payload, out_vars>>

FlushConf ==
  /\ state = "FLUSH_CONF" /\ ~conf
  /\ state' = IF left = 0 THEN "IDLE" ELSE "PARSE_TYPE"
  /\ UNCHANGED <<host_vars, input, buffer, skip, header_vars, left, conf, payload, out_vars>>

-----------------------------------------------------------------------------
(* The consumers of page_conf and of the payload stream.                   *)

PageConf == [kind |-> kind, n |-> nvals, last |-> left = 0]

AcceptConf ==
  /\ conf /\ conf' = FALSE
  /\ confs' = Append(confs, PageConf)
  /\ UNCHANGED <<host_vars, input, state, buffer, skip, header_vars, left, payload, transfers>>

\* Transfers ts, continued by a beat.
Extend(ts, beat) ==
  IF ts = <<>> \/ Last(ts).closed
  THEN Append(ts, [bytes |-> beat.bytes, closed |-> beat.last])
  ELSE [ts EXCEPT ![Len(ts)] = [bytes |-> @.bytes \o beat.bytes, closed |-> beat.last]]

AcceptPayload ==
  /\ payload # <<>>
  /\ transfers' = Extend(transfers, Head(payload))
  /\ payload' = <<>>
  /\ UNCHANGED <<host_vars, input, state, buffer, skip, header_vars, left, conf, confs>>

Parser ==
  \/ TakeChunkConf
  \/ Refill \/ WaitInVarint \/ Skip
  \/ ParseType \/ SkipUncomp \/ ParseComp \/ IsCrc \/ ParseNvals \/ ParseEnc \/ IsEnd
  \/ SkipVarint \/ SkipBinary
  \/ FlushOverfull \/ FlushPart \/ FlushWhole \/ BypassEnd \/ BypassBeat \/ FlushConf
  \/ AcceptConf \/ AcceptPayload

\* The pages the host submitted, in order.
Pages == FlattenSeq([k \in DOMAIN work |-> work[k].pages])

AllOut ==
  /\ state = "IDLE" /\ chunk = Len(work) /\ payload = <<>>
  /\ Len(confs) = Len(Pages) /\ Len(transfers) = Len(Pages)

Done == AllOut /\ UNCHANGED vars

Next == Parser \/ Done
Spec == Init /\ [][Next]_vars

\* Every cycle is clocked, the host sends its data, both consumers keep accepting.
FairSpec == Spec /\ WF_vars(Parser)

-----------------------------------------------------------------------------
\* The registers hold what their declarations say, whatever bytes arrive.  buffer_data has
\* room for NUM_BYTES + 4 bytes, and PAYLOAD_FLUSH_BUF moves down only two of those behind
\* the first beat: a header never leaves more, and never leaves nothing.  What bytes are in
\* the payload register is the business of the stream it feeds.
TypeOK ==
  /\ work \in Workloads /\ chunk \in 0..Len(work)
  /\ input \in Seq(Seq(Byte))
  /\ state \in HeaderStates \cup {"IDLE", "PAYLOAD_FLUSH_BUF", "PAYLOAD_BYPASS", "FLUSH_CONF"}
  /\ next_state \in {"IDLE", "IS_CRC", "IS_END"}
  /\ buffer \in Seq(Byte) /\ Len(buffer) <= NumBytes + 4
  /\ state = "PAYLOAD_FLUSH_BUF" => Len(buffer) \in 1..(NumBytes + 2)
  /\ skip \in Nat /\ depth \in Nat
  /\ left \in 0..(SizeMod - 1) /\ comp \in 0..(SizeMod - 1) /\ nvals \in 0..(SizeMod - 1)
  /\ kind \in PageKind /\ conf \in BOOLEAN
  /\ Len(payload) \in 0..1 /\ \A i \in 1..Len(payload) : payload[i].last \in BOOLEAN
  /\ confs \in Seq([kind : PageKind, n : Nat, last : BOOLEAN])

\* page_conf is driven by registers the next header overwrites: while it is
\* offered and not taken, they do not change.
ConfHeld == [][conf /\ conf' => PageConf' = PageConf]_vars

\* Every page the host submitted is announced and forwarded.
EveryPageOut == <>AllOut
=============================================================================
