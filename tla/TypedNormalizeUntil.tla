------------------------- MODULE TypedNormalizeUntil -------------------------
(***************************************************************************)
(* TypedNormalizeUntil, clock by clock: it is told how many values a chunk *)
(* has, takes the type from the databeat that is at its input then, lets   *)
(* values through its gate until they are counted, and packs them.  The    *)
(* chunk's type goes round the pipeline in a FIFO and meets the databeats  *)
(* again at the output.                                                    *)
(***************************************************************************)
EXTENDS Integers, Sequences

CONSTANTS
  NumBytes,    \* DATABEAT_SIZE
  SkidDepth,   \* databeats of the input skid buffer
  PipeDepth,   \* databeats between the gate and the output
  FifoDepth,   \* MAX_IN_TRANSIT
  Width        \* bytes of a value of each type

VARIABLES
  sizes,        \* values of each chunk
  plain,        \* in: databeats [typ, bytes, last]
  chunk,        \* sizes taken
  remaining,
  in_typ,       \* NoType: not valid
  fifo_typ,     \* the register before the FIFO; NoType: not valid
  fifo,         \* the types in it
  skid,
  packed,       \* bytes of a databeat the DataNormalizer has not filled yet
  pipe,         \* databeats from there to the output
  out

normalize_vars == <<sizes, chunk, remaining, in_typ, fifo_typ, fifo, skid, packed, pipe>>

-----------------------------------------------------------------------------
NoType == "no type"

Init ==
  /\ chunk = 0 /\ remaining = 0 /\ in_typ = NoType /\ fifo_typ = NoType
  /\ fifo = <<>> /\ skid = <<>> /\ packed = <<>> /\ pipe = <<>> /\ out = <<>>

Unconfigured == remaining = 0

\* size.ready is unconfigured && in.valid.
Configure == Unconfigured /\ plain # <<>> /\ chunk < Len(sizes)

NumValues == IF in_typ = NoType THEN 0 ELSE Len(Head(skid).bytes) \div Width[in_typ]
NextRemaining == remaining - NumValues

\* Slip: the end of a page ends the transfer.
GateLastOfPage == Head(skid).last
GateLast == Head(skid).last /\ NextRemaining = 0

\* The DataNormalizer: a databeat once it is full, and at the end what is left.
Packed(bytes, last) ==
  LET all  == packed \o bytes
      full == SubSeq(all, 1, IF Len(all) < NumBytes THEN Len(all) ELSE NumBytes)
      rest == SubSeq(all, NumBytes + 1, Len(all))
  IN  IF Len(all) < NumBytes /\ ~last THEN [beats |-> <<>>, rest |-> all]
      ELSE IF rest = <<>> \/ ~last THEN [beats |-> << [bytes |-> full, last |-> last] >>, rest |-> rest]
      ELSE [beats |-> << [bytes |-> full, last |-> FALSE], [bytes |-> rest, last |-> TRUE] >>, rest |-> <<>>]

\* Slip: a FIFO one type too small.
FifoReadyShort == Len(fifo) < FifoDepth - 1
FifoReady == Len(fifo) < FifoDepth

\* A clock edge; normalizer_ready and out_ready are up to the others.
Clock(normalizer_ready, out_ready) ==
  LET take == plain # <<>> /\ Len(skid) < SkidDepth
      pass == ~Unconfigured /\ skid # <<>> /\ normalizer_ready
      give == out_ready /\ pipe # <<>> /\ fifo # <<>>
      made == IF pass THEN Packed(Head(skid).bytes, GateLast) ELSE [beats |-> <<>>, rest |-> packed]
      queued == IF give /\ Head(pipe).last THEN Tail(fifo) ELSE fifo
  IN  /\ take \/ pass \/ give \/ Configure \/ (fifo_typ # NoType /\ FifoReady)
      /\ Len(pipe) + Len(made.beats) <= PipeDepth
      /\ chunk' = IF Configure THEN chunk + 1 ELSE chunk
      /\ remaining' = IF Configure THEN sizes[chunk'] ELSE IF pass THEN NextRemaining ELSE remaining
      /\ in_typ' = IF Configure THEN Head(plain).typ ELSE IF pass /\ GateLast THEN NoType ELSE in_typ
      \* The register is cleared only while there is something to count.
      /\ fifo_typ' = IF Configure THEN Head(plain).typ
                     ELSE IF ~Unconfigured /\ FifoReady THEN NoType ELSE fifo_typ
      /\ fifo' = IF fifo_typ # NoType /\ FifoReady THEN Append(queued, fifo_typ) ELSE queued
      /\ plain' = IF take THEN Tail(plain) ELSE plain
      /\ skid' = (IF pass THEN Tail(skid) ELSE skid) \o (IF take THEN << Head(plain) >> ELSE <<>>)
      /\ packed' = made.rest
      /\ pipe' = (IF give THEN Tail(pipe) ELSE pipe) \o made.beats
      /\ out' = IF give THEN Append(out, [typ |-> Head(fifo), bytes |-> Head(pipe).bytes, last |-> Head(pipe).last]) ELSE out
      /\ UNCHANGED sizes
=============================================================================
