--------------------------- MODULE HardwareReaders ---------------------------
(***************************************************************************)
(* FileReaders of several threads on one ColumnChunkDecoder (the host side *)
(* of a hardware decoder, column_chunk_decoder.cpp), and that decoder.     *)
(*                                                                         *)
(* A thread enqueues column chunks and fetches them with                   *)
(* next_column_chunk.  Enqueueing takes the decoder's mutex, acquires an   *)
(* output handle, writes the configuration register, reads the chunk from  *)
(* its file, starts the DMA transfers and releases the mutex: an order     *)
(* that hands three queues of the hardware (configurations, transfers,     *)
(* handles) the same chunks in the same order.                             *)
(*                                                                         *)
(* Chunk i of reader r is <<r, i>>.                                        *)
(***************************************************************************)
EXTENDS Integers, Sequences, FiniteSets

CONSTANTS
  Readers,     \* readers, each used by one thread
  NumChunks,   \* chunks a reader enqueues in all
  Window,      \* chunks it has enqueued and not fetched, at most
  Transfers,   \* DMA transfers a chunk takes (MAX_TRANSFER_SIZE bytes each)
  MaxConfigs   \* maximum_num_enqueued_configs of the hardware

\* The assertion of decode_column_chunk leaves it to the callers not to have more
\* chunks under way than the hardware queues configurations for.
ASSUME HostSizes ==
  /\ {NumChunks, Window, Transfers, MaxConfigs} \subseteq Nat \ {0}
  /\ IsFiniteSet(Readers) /\ Window * Cardinality(Readers) < MaxConfigs

Chunks == Readers \X (1..NumChunks)
Nobody == "nobody"
ASSUME NobodyAssumption == Nobody \notin Readers

VARIABLES
  mtx,        \* ColumnChunkDecoder::mtx: the reader whose handle holds it
  enqueued,   \* column_chunk_enqueued_configs_
  pc,         \* what each thread is doing
  tried,      \* chunks it has tried to enqueue
  sent,       \* transfers it has started for the chunk it is enqueueing
  queue,      \* output_queue_ of its HardwareReader
  buffers,    \* buffers_ of its FileReader
  fetching,   \* the chunk it is fetching, if any, with its output so far
  returned,   \* what next_column_chunk has returned to it
  configs,    \* configuration FIFO of the hardware
  dma,        \* transfers the hardware has not read
  handles,    \* output handles it has not completed
  outputs     \* output buffers waiting in each handle

thread_vars == <<pc, tried, sent, queue, buffers, fetching, returned>>
hw_vars     == <<configs, dma, handles, outputs>>
vars == <<mtx, enqueued, thread_vars, hw_vars>>

Init ==
  /\ mtx = Nobody /\ enqueued = 0
  /\ pc = [r \in Readers |-> "ready"]
  /\ tried = [r \in Readers |-> 0] /\ sent = [r \in Readers |-> 0]
  /\ queue = [r \in Readers |-> <<>>] /\ buffers = [r \in Readers |-> <<>>]
  /\ fetching = [r \in Readers |-> <<>>] /\ returned = [r \in Readers |-> <<>>]
  /\ configs = <<>> /\ dma = <<>> /\ handles = <<>>
  /\ outputs = [c \in Chunks |-> <<>>]

Current(r) == <<r, tried[r]>>

-----------------------------------------------------------------------------
(* HardwareReader::enqueue_column_chunk.                                   *)

\* Slip: the mutex is not taken.
LockedIgnored(r) == UNCHANGED mtx

\* The thread takes the mutex when nobody holds it.
Locked(r) == mtx = Nobody /\ mtx' = r

\* decode_column_chunk: the handle it returns holds the mutex.
DecodeColumnChunk(r) ==
  /\ pc[r] = "ready" /\ tried[r] < NumChunks /\ Len(queue[r]) < Window
  /\ Locked(r)
  /\ tried' = [tried EXCEPT ![r] = @ + 1]
  /\ handles' = Append(handles, Current(r)')
  /\ configs' = Append(configs, Current(r)')
  /\ enqueued' = enqueued + 1
  /\ pc' = [pc EXCEPT ![r] = "configured"]
  /\ UNCHANGED <<sent, queue, buffers, fetching, returned, dma, outputs>>

\* get_chunk_data of a FileReader or a MemoryReader.
GetChunkData(r) ==
  /\ pc[r] = "configured"
  /\ buffers' = [buffers EXCEPT ![r] = Append(@, Current(r))]
  /\ pc' = [pc EXCEPT ![r] = "sending"] /\ sent' = [sent EXCEPT ![r] = 0]
  /\ UNCHANGED <<mtx, enqueued, tried, queue, fetching, returned, hw_vars>>

\* It throws: the handle is destroyed and with it the lock, nothing else is undone.
GetChunkDataFails(r) ==
  /\ pc[r] = "configured"
  /\ mtx' = Nobody
  /\ pc' = [pc EXCEPT ![r] = "ready"]
  /\ UNCHANGED <<enqueued, tried, sent, queue, buffers, fetching, returned, hw_vars>>

\* Slip: an off-by-one in the bound of the transfer that is the last.
LastTransferEarly(r) == sent[r] + 2 >= Transfers

\* last_transfer of enqueue_stream_input.
LastTransfer(r) == sent[r] + 1 >= Transfers

\* One LOCAL_READ of enqueue_stream_input.
InvokeTransfer(r) ==
  /\ pc[r] = "sending" /\ sent[r] < Transfers
  /\ sent' = [sent EXCEPT ![r] = @ + 1]
  /\ dma' = Append(dma, [chunk |-> Current(r), last |-> LastTransfer(r)])
  /\ UNCHANGED <<mtx, enqueued, pc, tried, queue, buffers, fetching, returned,
                 configs, handles, outputs>>

\* Slip: the handle outlives the call.
EnqueueDoneHolding(r) ==
  /\ pc[r] = "sending" /\ sent[r] = Transfers
  /\ queue' = [queue EXCEPT ![r] = Append(@, Current(r))]
  /\ pc' = [pc EXCEPT ![r] = "ready"]
  /\ UNCHANGED <<mtx, enqueued, tried, sent, buffers, fetching, returned, hw_vars>>

\* done() and the end of enqueue_column_chunk, where the handle is destroyed.
EnqueueDone(r) ==
  /\ pc[r] = "sending" /\ sent[r] = Transfers
  /\ queue' = [queue EXCEPT ![r] = Append(@, Current(r))]
  /\ pc' = [pc EXCEPT ![r] = "ready"]
  /\ mtx' = Nobody
  /\ UNCHANGED <<enqueued, tried, sent, buffers, fetching, returned, hw_vars>>

-----------------------------------------------------------------------------
(* FileReader::next_column_chunk.                                          *)

NextColumnChunk(r) ==
  /\ pc[r] = "ready" /\ queue[r] # <<>>
  /\ fetching' = [fetching EXCEPT ![r] = <<[chunk |-> Head(queue[r]), parts |-> <<>>]>>]
  /\ queue' = [queue EXCEPT ![r] = Tail(@)]
  /\ pc' = [pc EXCEPT ![r] = "fetching"]
  /\ UNCHANGED <<mtx, enqueued, tried, sent, buffers, returned, hw_vars>>

\* get_next_stream_output: one buffer of the chunk's handle.
FetchOutput(r) ==
  /\ pc[r] = "fetching"
  /\ LET c == fetching[r][1].chunk
     IN  /\ outputs[c] # <<>>
         /\ fetching' = [fetching EXCEPT ![r][1].parts = Append(@, Head(outputs[c]))]
         /\ outputs' = [outputs EXCEPT ![c] = Tail(@)]
         /\ pc' = [pc EXCEPT ![r] = IF Head(outputs[c]).last THEN "fetched" ELSE "fetching"]
  /\ UNCHANGED <<mtx, enqueued, tried, sent, queue, buffers, returned, configs, dma, handles>>

\* Slips: the buffer of the newest chunk goes, not that of the oldest; the count is
\* not given back.
FinishedDecodingNewest(r) ==
  /\ pc[r] = "fetched" /\ mtx = Nobody
  /\ enqueued' = enqueued - 1
  /\ returned' = [returned EXCEPT ![r] = @ \o fetching[r]]
  /\ fetching' = [fetching EXCEPT ![r] = <<>>]
  /\ buffers' = [buffers EXCEPT ![r] = SubSeq(@, 1, Len(@) - 1)]
  /\ pc' = [pc EXCEPT ![r] = "ready"]
  /\ UNCHANGED <<mtx, tried, sent, queue, hw_vars>>
FinishedDecodingSilent(r) ==
  /\ pc[r] = "fetched" /\ mtx = Nobody
  /\ returned' = [returned EXCEPT ![r] = @ \o fetching[r]]
  /\ fetching' = [fetching EXCEPT ![r] = <<>>]
  /\ buffers' = [buffers EXCEPT ![r] = Tail(@)]
  /\ pc' = [pc EXCEPT ![r] = "ready"]
  /\ UNCHANGED <<mtx, enqueued, tried, sent, queue, hw_vars>>

\* finished_decoding_column_chunk under the mutex, then the chunk's buffer goes.
FinishedDecoding(r) ==
  /\ pc[r] = "fetched" /\ mtx = Nobody
  /\ enqueued' = enqueued - 1
  /\ returned' = [returned EXCEPT ![r] = @ \o fetching[r]]
  /\ fetching' = [fetching EXCEPT ![r] = <<>>]
  /\ buffers' = [buffers EXCEPT ![r] = Tail(@)]
  /\ pc' = [pc EXCEPT ![r] = "ready"]
  /\ UNCHANGED <<mtx, tried, sent, queue, hw_vars>>

-----------------------------------------------------------------------------
\* The hardware: it reads a transfer, decodes it with the oldest configuration
\* and hands the values to the oldest handle; the last one completes both.
Decode ==
  /\ configs # <<>> /\ dma # <<>> /\ handles # <<>>
  /\ LET t == Head(dma)
     IN  /\ outputs' = [outputs EXCEPT ![Head(handles)] =
                         Append(@, [conf |-> Head(configs), data |-> t.chunk, last |-> t.last])]
         /\ configs' = IF t.last THEN Tail(configs) ELSE configs
         /\ handles' = IF t.last THEN Tail(handles) ELSE handles
  /\ dma' = Tail(dma)
  /\ UNCHANGED <<mtx, enqueued, thread_vars>>

Thread(r) ==
  \/ DecodeColumnChunk(r) \/ GetChunkData(r) \/ InvokeTransfer(r) \/ EnqueueDone(r)
  \/ NextColumnChunk(r) \/ FetchOutput(r) \/ FinishedDecoding(r)

AllReturned ==
  \A r \in Readers : pc[r] = "ready" /\ tried[r] = NumChunks /\ queue[r] = <<>>

Done == AllReturned /\ UNCHANGED vars

Next == (\E r \in Readers : Thread(r)) \/ Decode \/ Done
Spec == Init /\ [][Next]_vars

\* Threads are scheduled and go on with what they have to do, the mutex is handed
\* on, the hardware is clocked.
FairSpec == Spec /\ WF_vars(Decode) /\ \A r \in Readers :
              /\ WF_vars(Thread(r)) /\ SF_vars(DecodeColumnChunk(r)) /\ SF_vars(FinishedDecoding(r))

\* The file of a chunk may be unreadable.
FaultyNext == Next \/ \E r \in Readers : GetChunkDataFails(r)
FaultySpec == Init /\ [][FaultyNext]_vars

-----------------------------------------------------------------------------
Part == [conf : Chunks, data : Chunks, last : BOOLEAN]

\* Queues hold chunks, threads are where they can be and fetch one chunk at a time.
TypeOK ==
  /\ mtx \in Readers \cup {Nobody} /\ enqueued \in Int
  /\ pc \in [Readers -> {"ready", "configured", "sending", "fetching", "fetched"}]
  /\ tried \in [Readers -> 0..NumChunks] /\ sent \in [Readers -> 0..Transfers]
  /\ queue \in [Readers -> Seq(Chunks)] /\ buffers \in [Readers -> Seq(Chunks)]
  /\ fetching \in [Readers -> Seq([chunk : Chunks, parts : Seq(Part)])]
  /\ \A r \in Readers : Len(fetching[r]) = IF pc[r] \in {"fetching", "fetched"} THEN 1 ELSE 0
  /\ returned \in [Readers -> Seq([chunk : Chunks, parts : Seq(Part)])]
  /\ configs \in Seq(Chunks) /\ handles \in Seq(Chunks)
  /\ dma \in Seq([chunk : Chunks, last : BOOLEAN])
  /\ outputs \in [Chunks -> Seq(Part)]

\* The bytes the hardware is about to decode are those of the chunk whose
\* configuration it decodes them with, whatever the threads do meanwhile.
ConfigInStep == dma # <<>> => configs # <<>> /\ Head(configs) = Head(dma).chunk

\* ... and the values go into that chunk's own output handle.
InStep == ConfigInStep /\ (dma # <<>> => handles # <<>> /\ Head(handles) = Head(dma).chunk)

\* A transfer the hardware has not read yet reads a buffer that is still held.
BuffersAlive ==
  \A i \in DOMAIN dma : \E j \in DOMAIN buffers[dma[i].chunk[1]] :
    buffers[dma[i].chunk[1]][j] = dma[i].chunk

\* The count of enqueued configurations is that of the chunks under way: it covers
\* those in the hardware's FIFO and never reaches what the FIFO has room for, so
\* the assertion of decode_column_chunk cannot fail.
Busy(r) == IF pc[r] \in {"configured", "sending", "fetching", "fetched"} THEN 1 ELSE 0
ConfigsCounted ==
  /\ enqueued = Cardinality(UNION {{<<r, i>> : i \in 1..(Len(queue[r]) + Busy(r))} : r \in Readers})
  /\ Len(configs) <= enqueued /\ enqueued < MaxConfigs

\* What a fetched chunk amounts to: itself when all of it was decoded from its own
\* bytes under its own configuration, and no chunk that anybody enqueued otherwise.
Fetched(f) ==
  IF /\ Len(f.parts) = Transfers
     /\ \A i \in DOMAIN f.parts : f.parts[i].conf = f.chunk /\ f.parts[i].data = f.chunk
  THEN f.chunk ELSE <<f.chunk[1], 0>>

\* A reader as its thread sees it.
Interface(r) == INSTANCE ReaderInterface WITH
  pending  <- [i \in DOMAIN fetching[r] |-> fetching[r][i].chunk] \o queue[r],
  returned <- [i \in DOMAIN returned[r] |-> Fetched(returned[r][i])]

\* Readers that share a decoder still keep the promise of reader.hpp: whole chunks,
\* its own, in the order it enqueued them, for each of them (Interface(r)!Spec for
\* all r, in the form in which TLC takes it).
ReaderSpec ==
  /\ \A r \in Readers : Interface(r)!Init
  /\ [][\A r \in Readers : [Interface(r)!Next]_(Interface(r)!readerVars)]_vars

\* Every chunk comes back in the end.
EveryChunkReturned == <>AllReturned
=============================================================================
