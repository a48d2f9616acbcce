--------------------------- MODULE ReaderInterface ---------------------------
(***************************************************************************)
(* What reader.hpp promises of every Reader: column chunks are submitted   *)
(* with enqueue_column_chunk, and next_column_chunk returns them, whole,   *)
(* in the order they were submitted.                                       *)
(***************************************************************************)
EXTENDS Naturals, Sequences

CONSTANT Chunks

VARIABLES pending, returned

readerVars == <<pending, returned>>

Init == pending = <<>> /\ returned = <<>>

EnqueueColumnChunk(c) ==
  /\ pending' = Append(pending, c)
  /\ UNCHANGED returned

NextColumnChunk ==
  /\ pending # <<>>
  /\ returned' = Append(returned, Head(pending))
  /\ pending' = Tail(pending)

Next == NextColumnChunk \/ \E c \in Chunks : EnqueueColumnChunk(c)

Spec == Init /\ [][Next]_readerVars
=============================================================================
