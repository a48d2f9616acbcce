----------------------------- MODULE StripLevels -----------------------------
(***************************************************************************)
(* StripLevels: the levels a plain page starts with are dropped and the    *)
(* rest is moved to the front.  Whole databeats of levels are discarded;   *)
(* the databeat in which they end is masked; then every databeat is        *)
(* rotated by one fixed amount and merged with its neighbour.              *)
(*                                                                         *)
(* A databeat is what is in its lanes, 0..NumBytes-1: a byte of a page, by *)
(* its position, or Nothing.  Rotation carries its amount along with the   *)
(* databeat, as libstf's DataNormalizer changes it with every databeat.    *)
(***************************************************************************)
EXTENDS Integers, Sequences, FiniteSets

CONSTANTS
  NumBytes,    \* NUM_BYTES
  SkidDepth

VARIABLES
  contents,          \* of each page [levels, bytes, typ]
  decompressed,      \* in
  strip_state,
  remaining_offset, shift_offset,
  register,          \* of DataBeatMerge: lanes
  stripped,          \* pages that have left
  plain              \* out, each databeat with its type

strip_vars == <<contents, strip_state, remaining_offset, shift_offset, register, stripped>>

-----------------------------------------------------------------------------
Nothing == [page |-> 0, at |-> 0]
Lanes   == 0..(NumBytes - 1)
NoLanes == [i \in Lanes |-> Nothing]

Beat == Head(decompressed)
LanesOf(beat) ==
  [i \in Lanes |-> LET at == (beat.k - 1) * NumBytes + i
                   IN  IF at < contents[beat.page].bytes THEN [page |-> beat.page, at |-> at] ELSE Nothing]

\* The first four bytes of a databeat, which are the length of the levels if it is the
\* first of its page.
Prefix == IF Beat.k = 1 THEN contents[Beat.page].levels ELSE 0

Init ==
  /\ strip_state = "WAIT" /\ remaining_offset = 0 /\ shift_offset = 0
  /\ register = NoLanes /\ stripped = 0 /\ plain = <<>>

\* ST_WAIT looks at the databeat and leaves it there.
Wait ==
  /\ strip_state = "WAIT" /\ decompressed # <<>>
  /\ LET actual_offset == 4 + Prefix
     IN  /\ remaining_offset' = actual_offset
         /\ shift_offset' = (NumBytes - (actual_offset % NumBytes)) % NumBytes
         /\ strip_state' = IF actual_offset >= NumBytes THEN "CONSUME" ELSE "PIPE"
  /\ UNCHANGED <<contents, decompressed, register, stripped, plain>>

\* Slip: a databeat that is levels to its last byte is kept.
DiscardLess ==
  /\ remaining_offset' = remaining_offset - NumBytes
  /\ strip_state' = IF remaining_offset' <= NumBytes THEN "PIPE" ELSE "CONSUME"
Discard ==
  /\ remaining_offset' = remaining_offset - NumBytes
  /\ strip_state' = IF remaining_offset' < NumBytes THEN "PIPE" ELSE "CONSUME"

Consume ==
  /\ strip_state = "CONSUME" /\ decompressed # <<>>
  /\ decompressed' = Tail(decompressed)
  /\ Discard
  /\ UNCHANGED <<contents, shift_offset, register, stripped, plain>>

-----------------------------------------------------------------------------
\* keep & (ones << remaining_offset), then the barrel shifter.
Masked(lanes) == [i \in Lanes |-> IF i < remaining_offset % NumBytes THEN Nothing ELSE lanes[i]]
Rotated(lanes) == [i \in Lanes |-> lanes[(i + NumBytes - shift_offset) % NumBytes]]

Used(lanes)  == {i \in Lanes : lanes[i] # Nothing}
\* In the order of their lanes.
Bytes(lanes) ==
  [j \in 1..Cardinality(Used(lanes)) |->
     lanes[CHOOSE i \in Used(lanes) : Cardinality({h \in Used(lanes) : h <= i}) = j]]

\* DataBeatMerge: free lanes of the register are filled; a lane it has already begins the
\* next databeat.  What is full is put out, and at the end of a page what is there.
Merge(lanes, last) ==
  LET filled == [i \in Lanes |-> IF register[i] # Nothing THEN register[i] ELSE lanes[i]]
      rest   == [i \in Lanes |-> IF register[i] # Nothing THEN lanes[i] ELSE Nothing]
      typ    == contents[stripped + 1].typ
      beat(l, end) == [typ |-> typ, bytes |-> Bytes(l), last |-> end]
  IN  IF last
      THEN /\ register' = NoLanes /\ stripped' = stripped + 1
           /\ plain' = plain \o (IF Used(rest) = {} THEN << beat(filled, TRUE) >>
                                 ELSE << beat(filled, FALSE), beat(rest, TRUE) >>)
      ELSE /\ UNCHANGED stripped
           /\ IF Used(filled) = Lanes THEN plain' = Append(plain, beat(filled, FALSE)) /\ register' = rest
              ELSE register' = filled /\ UNCHANGED plain

Pipe ==
  /\ strip_state = "PIPE" /\ decompressed # <<>> /\ Len(plain) < SkidDepth
  /\ decompressed' = Tail(decompressed)
  /\ remaining_offset' = 0    \* only the first databeat is masked
  /\ strip_state' = IF Beat.last THEN "WAIT" ELSE "PIPE"
  /\ Merge(Rotated(Masked(LanesOf(Beat))), Beat.last)
  /\ UNCHANGED <<contents, shift_offset>>

Next == Wait \/ Consume \/ Pipe
=============================================================================
