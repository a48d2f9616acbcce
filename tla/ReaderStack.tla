----------------------------- MODULE ReaderStack -----------------------------
(***************************************************************************)
(* The readers one application thread stacks: a HybridReader that sends a  *)
(* column chunk to the hardware or to a CPUReader by its type; for the     *)
(* hardware, a MultiReader that hands it to the decoder it expects free    *)
(* first; per decoder, an Adaptor around a HardwareReader.  Each level     *)
(* keeps a queue of its own, and next_column_chunk is right only while all *)
(* of them tell the same story.                                            *)
(*                                                                         *)
(* The thread's calls run to their end, so a call is one step; the         *)
(* decoders and the CPUReader's threads work on between them.  Chunk c is  *)
(* the one of the c-th call of enqueue_column_chunk.                       *)
(***************************************************************************)
EXTENDS Integers, Sequences, FiniteSets

CONSTANTS
  Decoders,    \* hardware decoders, one reader each
  Costs,       \* what compute_cost can return
  NumChunks    \* calls of enqueue_column_chunk

ASSUME StackSizes ==
  /\ IsFiniteSet(Decoders) /\ Decoders # {}
  /\ Costs \subseteq Nat \ {0} /\ Costs # {} /\ NumChunks \in Nat

VARIABLES
  calls,           \* calls of enqueue_column_chunk so far
  chosen,          \* HybridReader::chosen_decoder_
  heap,            \* MultiReader::decoder_heap_, a set of [id, available_time]
  scheduled,       \* MultiReader::scheduled_order_
  handle_queue,    \* Adaptor::handle_queue_: chunks, for num_values and type
  output_queue,    \* HardwareReader::output_queue_: chunks, and whether decoded
  threads,         \* CPUReader::queue_: chunks, and whether the thread has ended
  returned         \* what next_column_chunk returned: a chunk's data under a
                   \* chunk's num_values and type

vars == <<calls, chosen, heap, scheduled, handle_queue, output_queue, threads, returned>>

Init ==
  /\ calls = 0 /\ chosen = <<>> /\ scheduled = <<>> /\ threads = <<>> /\ returned = <<>>
  /\ heap = {[id |-> d, available_time |-> 0] : d \in Decoders}
  /\ handle_queue = [d \in Decoders |-> <<>>]
  /\ output_queue = [d \in Decoders |-> <<>>]

Job(c) == [chunk |-> c, done |-> FALSE]

-----------------------------------------------------------------------------
(* enqueue_column_chunk.                                                   *)

\* Slip: std::less where std::greater belongs.
TopLatest == {s \in heap : \A t \in heap : t.available_time <= s.available_time}

\* decoder_heap_.top(): a decoder expected to be free the earliest.
Top == {s \in heap : \A t \in heap : s.available_time <= t.available_time}

\* Slip: the top stays in the heap.
ChargeKeepingTop(s, cost) ==
  heap' = heap \cup {[s EXCEPT !.available_time = @ + cost]}

\* The decoder returns to the heap, later by the chunk's cost.
Charge(s, cost) ==
  heap' = (heap \ {s}) \cup {[s EXCEPT !.available_time = @ + cost]}

\* Record scheduling order.
Schedule(s) == scheduled' = Append(scheduled, s.id)

\* HybridReader, MultiReader, Adaptor and HardwareReader, each in turn.
EnqueueHardware ==
  /\ calls < NumChunks
  /\ calls' = calls + 1
  /\ chosen' = Append(chosen, "HARDWARE")
  /\ \E s \in Top, cost \in Costs :
       /\ output_queue' = [output_queue EXCEPT ![s.id] = Append(@, Job(calls'))]
       /\ handle_queue' = [handle_queue EXCEPT ![s.id] = Append(@, calls')]
       /\ Schedule(s) /\ Charge(s, cost)
  /\ UNCHANGED <<threads, returned>>

\* HybridReader and CPUReader: is_libstf_type does not hold of the chunk's type.
EnqueueSoftware ==
  /\ calls < NumChunks
  /\ calls' = calls + 1
  /\ chosen' = Append(chosen, "SOFTWARE")
  /\ threads' = Append(threads, Job(calls'))
  /\ UNCHANGED <<heap, scheduled, handle_queue, output_queue, returned>>

-----------------------------------------------------------------------------
(* The decoders and the threads.                                           *)

\* A decoder completes the oldest chunk it has not.
Decoded(d) ==
  \E i \in DOMAIN output_queue[d] :
    /\ ~output_queue[d][i].done /\ \A j \in 1..(i - 1) : output_queue[d][j].done
    /\ output_queue' = [output_queue EXCEPT ![d][i].done = TRUE]
    /\ UNCHANGED <<calls, chosen, heap, scheduled, handle_queue, threads, returned>>

\* A thread of the CPUReader ends.
ThreadEnds(i) ==
  /\ i \in DOMAIN threads /\ ~threads[i].done
  /\ threads' = [threads EXCEPT ![i].done = TRUE]
  /\ UNCHANGED <<calls, chosen, heap, scheduled, handle_queue, output_queue, returned>>

-----------------------------------------------------------------------------
(* has_next_column_chunk and next_column_chunk.                            *)

\* The chain of has_next_column_chunk.
HasNext ==
  /\ chosen # <<>>
  /\ CASE Head(chosen) = "HARDWARE" -> scheduled # <<>> /\ output_queue[Head(scheduled)] # <<>>
       [] Head(chosen) = "SOFTWARE" -> threads # <<>>

\* Slip: the Adaptor looks at the front of handle_queue_ and does not pop it.
NextHardwareKeepingHandle ==
  /\ HasNext /\ Head(chosen) = "HARDWARE"
  /\ LET d == Head(scheduled)
     IN  /\ Head(output_queue[d]).done
         /\ output_queue' = [output_queue EXCEPT ![d] = Tail(@)]
         /\ returned' = Append(returned, [chunk  |-> Head(output_queue[d]).chunk,
                                          handle |-> Head(handle_queue[d])])
  /\ chosen' = Tail(chosen) /\ scheduled' = Tail(scheduled)
  /\ UNCHANGED <<calls, heap, handle_queue, threads>>

\* Slip: scheduled_order_ is not popped.
NextHardwareKeepingOrder ==
  /\ HasNext /\ Head(chosen) = "HARDWARE"
  /\ LET d == Head(scheduled)
     IN  /\ Head(output_queue[d]).done
         /\ output_queue' = [output_queue EXCEPT ![d] = Tail(@)]
         /\ handle_queue' = [handle_queue EXCEPT ![d] = Tail(@)]
         /\ returned' = Append(returned, [chunk  |-> Head(output_queue[d]).chunk,
                                          handle |-> Head(handle_queue[d])])
  /\ chosen' = Tail(chosen)
  /\ UNCHANGED <<calls, heap, scheduled, threads>>

\* It blocks until the decoder has completed the chunk.
NextHardware ==
  /\ HasNext /\ Head(chosen) = "HARDWARE"
  /\ LET d == Head(scheduled)
     IN  /\ Head(output_queue[d]).done
         /\ output_queue' = [output_queue EXCEPT ![d] = Tail(@)]
         /\ handle_queue' = [handle_queue EXCEPT ![d] = Tail(@)]
         /\ returned' = Append(returned, [chunk  |-> Head(output_queue[d]).chunk,
                                          handle |-> Head(handle_queue[d])])
  /\ chosen' = Tail(chosen) /\ scheduled' = Tail(scheduled)
  /\ UNCHANGED <<calls, heap, threads>>

\* Slip: the newest thread is joined.
NextSoftwareNewest ==
  /\ HasNext /\ Head(chosen) = "SOFTWARE"
  /\ threads[Len(threads)].done
  /\ threads' = SubSeq(threads, 1, Len(threads) - 1)
  /\ returned' = LET c == threads[Len(threads)].chunk
                 IN  Append(returned, [chunk |-> c, handle |-> c])
  /\ chosen' = Tail(chosen)
  /\ UNCHANGED <<calls, heap, scheduled, handle_queue, output_queue>>

\* It joins the oldest thread.
NextSoftware ==
  /\ HasNext /\ Head(chosen) = "SOFTWARE"
  /\ Head(threads).done
  /\ threads' = Tail(threads)
  /\ returned' = LET c == Head(threads).chunk
                 IN  Append(returned, [chunk |-> c, handle |-> c])
  /\ chosen' = Tail(chosen)
  /\ UNCHANGED <<calls, heap, scheduled, handle_queue, output_queue>>

-----------------------------------------------------------------------------
Enqueue == EnqueueHardware \/ EnqueueSoftware
NextColumnChunk == NextHardware \/ NextSoftware
Works == (\E d \in Decoders : Decoded(d)) \/ (\E i \in 1..NumChunks : ThreadEnds(i))
Done == calls = NumChunks /\ ~HasNext /\ UNCHANGED vars

Next == Enqueue \/ NextColumnChunk \/ Works \/ Done
Spec == Init /\ [][Next]_vars

\* The decoders and the threads finish what they began, the application fetches.
FairSpec == Spec /\ WF_vars(Works) /\ WF_vars(NextColumnChunk)

-----------------------------------------------------------------------------
JobType == [chunk : 1..NumChunks, done : BOOLEAN]

\* Queues hold chunks, and a decoder is charged for the chunks of some calls.
TypeOK ==
  /\ calls \in 0..NumChunks
  /\ chosen \in Seq({"HARDWARE", "SOFTWARE"}) /\ scheduled \in Seq(Decoders)
  /\ heap \subseteq [id : Decoders, available_time : Nat]
  /\ handle_queue \in [Decoders -> Seq(1..NumChunks)]
  /\ output_queue \in [Decoders -> Seq(JobType)]
  /\ threads \in Seq(JobType)
  /\ returned \in Seq([chunk : 1..NumChunks, handle : 1..NumChunks])

\* Between calls the heap holds every decoder once: none is lost, none doubled.
HeapWhole ==
  /\ \A d \in Decoders : \E s \in heap : s.id = d
  /\ \A s, t \in heap : s.id = t.id => s = t

\* No decoder is ever charged more than one chunk ahead of another.
Balanced ==
  \A s, t \in heap : s.available_time # 0 =>
    \E cost \in Costs : s.available_time <= t.available_time + cost

\* An Adaptor's handles are those of its reader's chunks: num_values and type meet the
\* data they belong to (the Adaptor and the HardwareReader pop queues of their own).
HandlesMatch ==
  /\ \A d \in Decoders :
       /\ Len(handle_queue[d]) = Len(output_queue[d])
       /\ \A i \in DOMAIN output_queue[d] : handle_queue[d][i] = output_queue[d][i].chunk
  /\ \A i \in DOMAIN returned : returned[i].handle = returned[i].chunk

\* The calls that were made and not answered yet, oldest first, and the answers; a chunk
\* that comes back as another is none.
Unanswered == [i \in 1..(calls - Len(returned)) |-> Len(returned) + i]
Answers == [i \in DOMAIN returned |->
             IF returned[i].handle = returned[i].chunk THEN returned[i].chunk ELSE 0]

Interface == INSTANCE ReaderInterface WITH
  Chunks <- 1..NumChunks, pending <- Unanswered, returned <- Answers

\* The stack of readers keeps the promise of reader.hpp: chunks, under their own
\* type, in the order they were enqueued, whichever reader decoded them.
ReaderSpec == Interface!Spec

\* The fetching of what is enqueued never gets stuck.
EveryChunkReturned == \A c \in 1..NumChunks :
  calls >= c ~> \E i \in DOMAIN returned : returned[i].chunk = c
=============================================================================
