------------------------ MODULE HardwareReadersProofs ------------------------
(***************************************************************************)
(* Proofs about threads that share a hardware decoder, for every number of *)
(* readers, chunks and transfers: the mutex excludes; configuration,       *)
(* transfer and output handle that meet in the hardware are one chunk's;   *)
(* no transfer reads a buffer that was freed; the hardware never has more  *)
(* configurations than it queues; and each reader returns its own chunks,  *)
(* whole and in order.                                                     *)
(***************************************************************************)
EXTENDS HardwareReaders, SequenceTheorems, FiniteSetTheorems, TLAPS

-----------------------------------------------------------------------------
(* The inductive invariant.                                                *)

\* A thread holds the mutex exactly from decode_column_chunk to the end of
\* enqueue_column_chunk.
MutexHeld == \A r \in Readers : pc[r] \in {"configured", "sending"} <=> mtx = r

\* A reader holds one buffer for each chunk it has read and not returned.
Held(r) == Len(queue[r]) + IF pc[r] \in {"sending", "fetching", "fetched"} THEN 1 ELSE 0
BuffersHeld == \A r \in Readers : Len(buffers[r]) = Held(r)

\* All transfers of the configured chunks were started.
AllSent == mtx = Nobody \/ (pc[mtx] = "sending" /\ sent[mtx] = Transfers)

\* g[i] is the configuration that transfer i meets, g[Len(dma) + 1] the one that the
\* next transfer to be started will meet: the next after the last transfer of a chunk.
Meets(g) ==
  /\ g \in [1..(Len(dma) + 1) -> Nat \ {0}] /\ g[1] = 1
  /\ \A i \in 1..Len(dma) : /\ g[i] <= Len(configs) /\ configs[g[i]] = dma[i].chunk
                            /\ g[i + 1] = IF dma[i].last THEN g[i] + 1 ELSE g[i]
  /\ \A i, j \in 1..(Len(dma) + 1) : i <= j => g[i] <= g[j]
  /\ AllSent  => g[Len(dma) + 1] = Len(configs) + 1
  /\ ~AllSent => g[Len(dma) + 1] = Len(configs) /\ configs[Len(configs)] = Current(mtx)

TransfersInOrder == handles = configs /\ \E g : Meets(g)

IInv == TypeOK /\ MutexHeld /\ BuffersHeld /\ TransfersInOrder

-----------------------------------------------------------------------------
(* Facts about sequences.                                                  *)

LEMMA AppendElements ==
  ASSUME NEW S, NEW q \in Seq(S), NEW x \in S
  PROVE  /\ Append(q, x) \in Seq(S) /\ Len(Append(q, x)) = Len(q) + 1
         /\ \A i \in 1..Len(q) : Append(q, x)[i] = q[i]
         /\ Append(q, x)[Len(q) + 1] = x
OBVIOUS

LEMMA TailElements ==
  ASSUME NEW S, NEW q \in Seq(S), q # <<>>
  PROVE  /\ Head(q) \in S /\ Head(q) = q[1] /\ Tail(q) \in Seq(S)
         /\ Len(q) \in Nat \ {0} /\ Len(Tail(q)) = Len(q) - 1
         /\ \A i \in 1..(Len(q) - 1) : Tail(q)[i] = q[i + 1]
OBVIOUS

LEMMA LenZero == ASSUME NEW S, NEW q \in Seq(S) PROVE Len(q) \in Nat /\ (q # <<>> <=> Len(q) > 0)
OBVIOUS

-----------------------------------------------------------------------------
(* The conjuncts of TypeOK, a thread's and the hardware's.                 *)

Fetch == [chunk : Chunks, parts : Seq(Part)]
FetchingOK ==
  /\ fetching \in [Readers -> Seq(Fetch)]
  /\ \A r \in Readers : Len(fetching[r]) = IF pc[r] \in {"fetching", "fetched"} THEN 1 ELSE 0

LEMMA SizesInNat == NumChunks \in Nat /\ Transfers \in Nat /\ Transfers > 0
BY HostSizes

LEMMA CurrentChunk ==
  ASSUME TypeOK, NEW r \in Readers, tried[r] # 0
  PROVE  Current(r) \in Chunks
BY HostSizes DEF TypeOK, Current, Chunks

\* A thread that is enqueueing has a chunk to enqueue.
Counted == \A r \in Readers : pc[r] \in {"configured", "sending"} => tried[r] # 0

LEMMA TypeInductive ==
  ASSUME TypeOK, Counted, BuffersHeld, [Next]_vars
  PROVE  TypeOK' /\ Counted'
  <1> USE SizesInNat, NobodyAssumption
  <1>0. FetchingOK /\ returned \in [Readers -> Seq(Fetch)]
    BY DEF TypeOK, FetchingOK, Fetch
  <1>1. ASSUME NEW r \in Readers, DecodeColumnChunk(r) PROVE TypeOK' /\ Counted'
    <2>a. /\ tried \in [Readers -> 0..NumChunks] /\ tried[r] < NumChunks
          /\ tried' = [tried EXCEPT ![r] = tried[r] + 1]
      BY <1>1 DEF DecodeColumnChunk, TypeOK
    <2>b. tried[r] + 1 \in 1..NumChunks /\ tried[r] + 1 \in 0..NumChunks
      BY <2>a
    <2>0. tried' \in [Readers -> 0..NumChunks] /\ tried'[r] = tried[r] + 1 /\ tried[r] + 1 \in 1..NumChunks
      BY <2>a, <2>b
    <2>1. tried' \in [Readers -> 0..NumChunks] /\ tried'[r] # 0 /\ Current(r)' \in Chunks
      BY <2>0 DEF Current, Chunks
    <2>2. handles' \in Seq(Chunks) /\ configs' \in Seq(Chunks)
      BY <1>1, <2>1, AppendElements DEF DecodeColumnChunk, TypeOK
    <2>3. mtx' \in Readers /\ enqueued' \in Int
          /\ pc' \in [Readers -> {"ready", "configured", "sending", "fetching", "fetched"}]
      BY <1>1 DEF DecodeColumnChunk, Locked, TypeOK
    <2>4. \A s \in Readers : Len(fetching'[s]) = IF pc'[s] \in {"fetching", "fetched"} THEN 1 ELSE 0
      BY <1>1 DEF DecodeColumnChunk, TypeOK
    <2>5. Counted'
      BY <1>1, <2>1 DEF DecodeColumnChunk, Counted, TypeOK
    <2>6. QED
      BY <1>1, <2>1, <2>2, <2>3, <2>4, <2>5 DEF DecodeColumnChunk, TypeOK
  <1>2. ASSUME NEW r \in Readers, GetChunkData(r) PROVE TypeOK' /\ Counted'
    <2>1. Current(r) \in Chunks
      BY <1>2, CurrentChunk DEF GetChunkData, Counted
    <2>2. Append(buffers[r], Current(r)) \in Seq(Chunks)
      BY <2>1, AppendElements DEF TypeOK
    <2>3. buffers' \in [Readers -> Seq(Chunks)]
      BY <1>2, <2>2 DEF GetChunkData, TypeOK
    <2>4. \A s \in Readers : Len(fetching'[s]) = IF pc'[s] \in {"fetching", "fetched"} THEN 1 ELSE 0
      BY <1>2 DEF GetChunkData, TypeOK
    <2>5. pc' \in [Readers -> {"ready", "configured", "sending", "fetching", "fetched"}]
          /\ sent' \in [Readers -> 0..Transfers]
      BY <1>2, SMTT(60) DEF GetChunkData, TypeOK
    <2>6. Counted'
      BY <1>2 DEF GetChunkData, Counted, TypeOK
    <2>7. QED
      BY <1>2, <2>3, <2>4, <2>5, <2>6 DEF GetChunkData, hw_vars, TypeOK
  <1>3. ASSUME NEW r \in Readers, InvokeTransfer(r) PROVE TypeOK' /\ Counted'
    <2>1. Current(r) \in Chunks
      BY <1>3, CurrentChunk DEF InvokeTransfer, Counted
    <2>2. [chunk |-> Current(r), last |-> LastTransfer(r)] \in [chunk : Chunks, last : BOOLEAN]
      BY <2>1 DEF LastTransfer
    <2>3. dma' \in Seq([chunk : Chunks, last : BOOLEAN])
      BY <1>3, <2>2, AppendElements DEF InvokeTransfer, TypeOK
    <2>4. sent' \in [Readers -> 0..Transfers]
      <3>1. /\ sent \in [Readers -> 0..Transfers] /\ sent[r] < Transfers
            /\ sent' = [sent EXCEPT ![r] = sent[r] + 1]
        BY <1>3 DEF InvokeTransfer, TypeOK
      <3>2. sent[r] + 1 \in 0..Transfers
        BY <3>1
      <3>3. QED
        BY <3>1, <3>2
    <2>5. QED
      BY <1>3, <2>3, <2>4 DEF InvokeTransfer, Counted, TypeOK
  <1>4. ASSUME NEW r \in Readers, EnqueueDone(r) PROVE TypeOK' /\ Counted'
    <2>1. Current(r) \in Chunks
      BY <1>4, CurrentChunk DEF EnqueueDone, Counted
    <2>2. Append(queue[r], Current(r)) \in Seq(Chunks)
      BY <2>1, AppendElements DEF TypeOK
    <2>3. queue' \in [Readers -> Seq(Chunks)]
      BY <1>4, <2>2 DEF EnqueueDone, TypeOK
    <2>4. \A s \in Readers : Len(fetching'[s]) = IF pc'[s] \in {"fetching", "fetched"} THEN 1 ELSE 0
      BY <1>4 DEF EnqueueDone, TypeOK
    <2>5. QED
      BY <1>4, <2>3, <2>4 DEF EnqueueDone, hw_vars, Counted, TypeOK
  <1>5. ASSUME NEW r \in Readers, NextColumnChunk(r) PROVE TypeOK' /\ Counted'
    <2>1. Head(queue[r]) \in Chunks /\ Tail(queue[r]) \in Seq(Chunks)
      BY <1>5, TailElements DEF NextColumnChunk, TypeOK
    <2>2. [chunk |-> Head(queue[r]), parts |-> <<>>] \in Fetch
      BY <2>1 DEF Fetch
    <2>3. FetchingOK'
      <3>1. <<[chunk |-> Head(queue[r]), parts |-> <<>>]>> \in Seq(Fetch)
        BY <2>2
      <3>2. fetching' \in [Readers -> Seq(Fetch)]
        BY <1>0, <1>5, <3>1 DEF NextColumnChunk, FetchingOK
      <3>3. \A s \in Readers : Len(fetching'[s]) = IF pc'[s] \in {"fetching", "fetched"} THEN 1 ELSE 0
        BY <1>0, <1>5 DEF NextColumnChunk, FetchingOK, TypeOK
      <3>4. QED
        BY <3>2, <3>3 DEF FetchingOK
    <2>4. queue' \in [Readers -> Seq(Chunks)]
      BY <1>5, <2>1 DEF NextColumnChunk, TypeOK
    <2>5. QED
      BY <1>5, <2>3, <2>4 DEF NextColumnChunk, hw_vars, Counted, FetchingOK, Fetch, TypeOK
  <1>6. ASSUME NEW r \in Readers, FetchOutput(r) PROVE TypeOK' /\ Counted'
    <2> DEFINE f == fetching[r][1]
               c == f.chunk
    <2>1. fetching[r] \in Seq(Fetch) /\ Len(fetching[r]) = 1 /\ f \in Fetch
      BY <1>0, <1>6 DEF FetchOutput, FetchingOK
    <2>2. c \in Chunks /\ f.parts \in Seq(Part)
      BY <2>1 DEF Fetch
    <2>3. Head(outputs[c]) \in Part /\ Tail(outputs[c]) \in Seq(Part)
      BY <1>6, <2>2, TailElements DEF FetchOutput, TypeOK
    <2>4. Append(f.parts, Head(outputs[c])) \in Seq(Part)
      BY <2>2, <2>3, AppendElements
    <2>5. [f EXCEPT !.parts = Append(f.parts, Head(outputs[c]))] \in Fetch
      BY <2>1, <2>4 DEF Fetch
    <2>6. [fetching[r] EXCEPT ![1] = [f EXCEPT !.parts = Append(f.parts, Head(outputs[c]))]] \in Seq(Fetch)
          /\ Len([fetching[r] EXCEPT ![1] = [f EXCEPT !.parts = Append(f.parts, Head(outputs[c]))]]) = 1
      BY <2>1, <2>5
    <2>7. fetching' = [fetching EXCEPT ![r] = [fetching[r] EXCEPT ![1] =
                         [f EXCEPT !.parts = Append(f.parts, Head(outputs[c]))]]]
      BY <1>6 DEF FetchOutput
    <2>8. pc' = [pc EXCEPT ![r] = IF Head(outputs[c]).last THEN "fetched" ELSE "fetching"]
      BY <1>6 DEF FetchOutput
    <2>9. FetchingOK'
      <3>1. fetching' \in [Readers -> Seq(Fetch)]
        BY <1>0, <2>6, <2>7 DEF FetchingOK
      <3>2. \A s \in Readers : Len(fetching'[s]) = IF pc'[s] \in {"fetching", "fetched"} THEN 1 ELSE 0
        BY <1>0, <2>6, <2>7, <2>8 DEF FetchingOK, TypeOK
      <3>3. QED
        BY <3>1, <3>2 DEF FetchingOK
    <2>10. outputs' \in [Chunks -> Seq(Part)]
      BY <1>6, <2>3 DEF FetchOutput, TypeOK
    <2>11. pc' \in [Readers -> {"ready", "configured", "sending", "fetching", "fetched"}] /\ Counted'
      BY <1>6, <2>8 DEF TypeOK, Counted, FetchOutput
    <2>12. QED
      BY <1>6, <2>9, <2>10, <2>11 DEF FetchOutput, FetchingOK, Fetch, TypeOK
  <1>7. ASSUME NEW r \in Readers, FinishedDecoding(r) PROVE TypeOK' /\ Counted'
    <2>1. buffers[r] # <<>>
      BY <1>7, LenZero DEF FinishedDecoding, BuffersHeld, Held, TypeOK
    <2>2. Tail(buffers[r]) \in Seq(Chunks)
      BY <2>1, TailElements DEF TypeOK
    <2>3. buffers' \in [Readers -> Seq(Chunks)]
      BY <1>7, <2>2 DEF FinishedDecoding, TypeOK
    <2>4. FetchingOK'
      <3>1. fetching' \in [Readers -> Seq(Fetch)]
        BY <1>0, <1>7 DEF FinishedDecoding, FetchingOK
      <3>2. \A s \in Readers : Len(fetching'[s]) = IF pc'[s] \in {"fetching", "fetched"} THEN 1 ELSE 0
        BY <1>0, <1>7 DEF FinishedDecoding, FetchingOK, TypeOK
      <3>3. QED
        BY <3>1, <3>2 DEF FetchingOK
    <2>5. returned[r] \o fetching[r] \in Seq(Fetch)
      BY <1>0, ConcatProperties DEF FetchingOK
    <2>6. returned' \in [Readers -> Seq(Fetch)]
      BY <1>0, <1>7, <2>5 DEF FinishedDecoding
    <2>7. enqueued' \in Int /\ pc' \in [Readers -> {"ready", "configured", "sending", "fetching", "fetched"}]
          /\ Counted'
      BY <1>7, SMTT(60) DEF FinishedDecoding, TypeOK, Counted
    <2>8. QED
      BY <1>7, <2>3, <2>4, <2>6, <2>7 DEF FinishedDecoding, hw_vars, FetchingOK, Fetch, TypeOK
  <1>8. ASSUME Decode PROVE TypeOK' /\ Counted'
    <2> DEFINE p == [conf |-> Head(configs), data |-> Head(dma).chunk, last |-> Head(dma).last]
    <2>1. Head(configs) \in Chunks /\ Tail(configs) \in Seq(Chunks) /\ Head(handles) \in Chunks
          /\ Tail(handles) \in Seq(Chunks)
      BY <1>8, TailElements DEF Decode, TypeOK
    <2>2. Head(dma) \in [chunk : Chunks, last : BOOLEAN] /\ Tail(dma) \in Seq([chunk : Chunks, last : BOOLEAN])
      BY <1>8, TailElements DEF Decode, TypeOK
    <2>3. p \in Part
      BY <2>1, <2>2 DEF Part
    <2>4. Append(outputs[Head(handles)], p) \in Seq(Part)
      BY <2>1, <2>3, AppendElements DEF TypeOK
    <2>5. outputs' \in [Chunks -> Seq(Part)]
      BY <1>8, <2>4 DEF Decode, TypeOK
    <2>6. configs' \in Seq(Chunks) /\ handles' \in Seq(Chunks) /\ dma' \in Seq([chunk : Chunks, last : BOOLEAN])
      BY <1>8, <2>1, <2>2 DEF Decode, TypeOK
    <2>7. QED
      BY <1>8, <2>5, <2>6 DEF Decode, thread_vars, Counted, TypeOK
  <1>9. CASE UNCHANGED vars
    BY <1>9 DEF vars, thread_vars, hw_vars, TypeOK, Counted
  <1>10. QED
    BY <1>1, <1>2, <1>3, <1>4, <1>5, <1>6, <1>7, <1>8, <1>9 DEF Next, Thread, Done

-----------------------------------------------------------------------------
(* The mutex and the buffers.                                              *)

LEMMA MutexInductive ==
  ASSUME TypeOK, MutexHeld, [Next]_vars
  PROVE  MutexHeld'
  <1> USE NobodyAssumption
  <1>1. ASSUME NEW r \in Readers, DecodeColumnChunk(r) PROVE MutexHeld'
    BY <1>1 DEF DecodeColumnChunk, Locked, MutexHeld, TypeOK
  <1>2. ASSUME NEW r \in Readers, GetChunkData(r) PROVE MutexHeld'
    BY <1>2 DEF GetChunkData, MutexHeld, TypeOK
  <1>3. ASSUME NEW r \in Readers, InvokeTransfer(r) PROVE MutexHeld'
    BY <1>3 DEF InvokeTransfer, MutexHeld, TypeOK
  <1>4. ASSUME NEW r \in Readers, EnqueueDone(r) PROVE MutexHeld'
    BY <1>4 DEF EnqueueDone, MutexHeld, TypeOK
  <1>5. ASSUME NEW r \in Readers, NextColumnChunk(r) PROVE MutexHeld'
    BY <1>5 DEF NextColumnChunk, MutexHeld, TypeOK
  <1>6. ASSUME NEW r \in Readers, FetchOutput(r) PROVE MutexHeld'
    <2>1. PICK step : step \in {"fetched", "fetching"} /\ pc' = [pc EXCEPT ![r] = step]
      BY <1>6 DEF FetchOutput
    <2>2. QED
      BY <1>6, <2>1 DEF FetchOutput, MutexHeld, TypeOK
  <1>7. ASSUME NEW r \in Readers, FinishedDecoding(r) PROVE MutexHeld'
    BY <1>7 DEF FinishedDecoding, MutexHeld, TypeOK
  <1>8. CASE Decode \/ UNCHANGED vars
    BY <1>8 DEF Decode, vars, thread_vars, MutexHeld
  <1>9. QED
    BY <1>1, <1>2, <1>3, <1>4, <1>5, <1>6, <1>7, <1>8 DEF Next, Thread, Done

LEMMA BuffersInductive ==
  ASSUME TypeOK, BuffersHeld, Counted, [Next]_vars
  PROVE  BuffersHeld'
  <1>1. ASSUME NEW r \in Readers, DecodeColumnChunk(r) PROVE BuffersHeld'
    BY <1>1 DEF DecodeColumnChunk, BuffersHeld, Held, TypeOK
  <1>2. ASSUME NEW r \in Readers, GetChunkData(r) PROVE BuffersHeld'
    <2>1. Current(r) \in Chunks
      BY <1>2, CurrentChunk DEF GetChunkData, Counted
    <2>2. Len(Append(buffers[r], Current(r))) = Len(buffers[r]) + 1
      BY <2>1, AppendElements DEF TypeOK
    <2>3. \A s \in Readers : Len(queue[s]) \in Nat
      BY LenZero DEF TypeOK
    <2>4. /\ buffers' = [buffers EXCEPT ![r] = Append(buffers[r], Current(r))] /\ queue' = queue
          /\ pc' = [pc EXCEPT ![r] = "sending"] /\ pc[r] = "configured"
          /\ buffers \in [Readers -> Seq(Chunks)] /\ DOMAIN pc = Readers
      BY <1>2 DEF GetChunkData, TypeOK
    <2>5. \A s \in Readers \ {r} : Held(s)' = Held(s) /\ buffers'[s] = buffers[s]
      BY <2>4 DEF Held
    <2>6. Len(buffers'[r]) = Held(r)'
      <3>0. Held(r) = Len(queue[r]) + 0 /\ Len(queue[r]) \in Nat
        BY <2>3, <2>4 DEF Held
      <3>1. Len(buffers[r]) = Len(queue[r]) /\ Len(queue[r]) \in Nat
        BY <3>0 DEF BuffersHeld
      <3>2. pc'[r] = "sending" /\ buffers'[r] = Append(buffers[r], Current(r))
        BY <2>4
      <3>3. Held(r)' = Len(queue[r]) + 1
        BY <2>4, <3>2 DEF Held
      <3>4. QED
        BY <2>2, <3>1, <3>2, <3>3
    <2>7. QED
      BY <2>5, <2>6 DEF BuffersHeld
  <1>3. ASSUME NEW r \in Readers, InvokeTransfer(r) PROVE BuffersHeld'
    BY <1>3 DEF InvokeTransfer, BuffersHeld, Held
  <1>4. ASSUME NEW r \in Readers, EnqueueDone(r) PROVE BuffersHeld'
    <2>1. Current(r) \in Chunks
      BY <1>4, CurrentChunk DEF EnqueueDone, Counted
    <2>2. Len(Append(queue[r], Current(r))) = Len(queue[r]) + 1 /\ Len(queue[r]) \in Nat
      BY <2>1, AppendElements, LenZero DEF TypeOK
    <2>3. /\ queue' = [queue EXCEPT ![r] = Append(queue[r], Current(r))] /\ buffers' = buffers
          /\ pc' = [pc EXCEPT ![r] = "ready"] /\ pc[r] = "sending"
          /\ DOMAIN queue = Readers /\ DOMAIN pc = Readers
      BY <1>4 DEF EnqueueDone, TypeOK
    <2>4. \A s \in Readers \ {r} : Held(s)' = Held(s) /\ buffers'[s] = buffers[s]
      BY <2>3 DEF Held
    <2>5. Len(buffers'[r]) = Held(r)'
      BY <2>2, <2>3 DEF BuffersHeld, Held
    <2>6. QED
      BY <2>4, <2>5 DEF BuffersHeld
  <1>5. ASSUME NEW r \in Readers, NextColumnChunk(r) PROVE BuffersHeld'
    <2>1. Len(Tail(queue[r])) = Len(queue[r]) - 1 /\ Len(queue[r]) \in Nat
      BY <1>5, TailElements DEF NextColumnChunk, TypeOK
    <2>2. /\ queue' = [queue EXCEPT ![r] = Tail(queue[r])] /\ buffers' = buffers
          /\ pc' = [pc EXCEPT ![r] = "fetching"] /\ pc[r] = "ready"
          /\ DOMAIN queue = Readers /\ DOMAIN pc = Readers
      BY <1>5 DEF NextColumnChunk, TypeOK
    <2>3. \A s \in Readers \ {r} : Held(s)' = Held(s) /\ buffers'[s] = buffers[s]
      BY <2>2 DEF Held
    <2>4. Len(buffers'[r]) = Held(r)'
      BY <2>1, <2>2 DEF BuffersHeld, Held
    <2>5. QED
      BY <2>3, <2>4 DEF BuffersHeld
  <1>6. ASSUME NEW r \in Readers, FetchOutput(r) PROVE BuffersHeld'
    <2>1. PICK step : step \in {"fetched", "fetching"} /\ pc' = [pc EXCEPT ![r] = step]
      BY <1>6 DEF FetchOutput
    <2>2. QED
      BY <1>6, <2>1 DEF FetchOutput, BuffersHeld, Held, TypeOK
  <1>7. ASSUME NEW r \in Readers, FinishedDecoding(r) PROVE BuffersHeld'
    <2>1. buffers[r] # <<>> /\ Len(queue[r]) \in Nat
      BY <1>7, LenZero DEF FinishedDecoding, BuffersHeld, Held, TypeOK
    <2>2. Len(Tail(buffers[r])) = Len(buffers[r]) - 1
      BY <2>1, TailElements DEF TypeOK
    <2>3. /\ buffers' = [buffers EXCEPT ![r] = Tail(buffers[r])] /\ queue' = queue
          /\ pc' = [pc EXCEPT ![r] = "ready"] /\ pc[r] = "fetched"
          /\ DOMAIN buffers = Readers /\ DOMAIN pc = Readers
      BY <1>7 DEF FinishedDecoding, TypeOK
    <2>4. \A s \in Readers \ {r} : Held(s)' = Held(s) /\ buffers'[s] = buffers[s]
      BY <2>3 DEF Held
    <2>5. Len(buffers'[r]) = Held(r)'
      <3>1. Len(buffers[r]) = Len(queue[r]) + 1
        BY <2>3 DEF BuffersHeld, Held
      <3>2. pc'[r] = "ready" /\ buffers'[r] = Tail(buffers[r])
        BY <2>3
      <3>3. Held(r)' = Len(queue[r])
        BY <2>1, <2>3, <3>2 DEF Held
      <3>4. QED
        BY <2>1, <2>2, <3>1, <3>2, <3>3
    <2>6. QED
      BY <2>4, <2>5 DEF BuffersHeld
  <1>8. CASE Decode \/ UNCHANGED vars
    BY <1>8 DEF Decode, vars, thread_vars, BuffersHeld, Held
  <1>9. QED
    BY <1>1, <1>2, <1>3, <1>4, <1>5, <1>6, <1>7, <1>8 DEF Next, Thread, Done

-----------------------------------------------------------------------------
(* Configurations, transfers and handles.                                  *)

\* What the configuration of a transfer depends on.
LEMMA SameOrder ==
  ASSUME TypeOK, MutexHeld, TransfersInOrder, UNCHANGED <<configs, dma, handles, tried>>,
         AllSent' <=> AllSent, ~AllSent => mtx' = mtx
  PROVE  TransfersInOrder'
  <1>1. PICK g : Meets(g)
    BY DEF TransfersInOrder
  <1>2. Meets(g)'
    BY <1>1 DEF Meets, Current
  <1>3. QED
    BY <1>2 DEF TransfersInOrder

LEMMA DecodeColumnChunkOrder ==
  ASSUME TypeOK, Counted, MutexHeld, TransfersInOrder, TypeOK', Counted',
         NEW r \in Readers, DecodeColumnChunk(r)
  PROVE  TransfersInOrder'
  <1> USE NobodyAssumption
  <1>1. PICK g : Meets(g)
    BY DEF TransfersInOrder
  <1>2. AllSent /\ ~AllSent' /\ mtx' = r
    BY DEF DecodeColumnChunk, Locked, AllSent, TypeOK
  <1>3. Current(r)' \in Chunks
    <2>1. pc'[r] = "configured"
      BY DEF DecodeColumnChunk, TypeOK
    <2>2. tried'[r] # 0
      BY <2>1 DEF Counted
    <2>3. QED
      <3>1. tried'[r] \in 0..NumChunks
        BY DEF TypeOK
      <3>2. tried'[r] \in 1..NumChunks
        BY <2>2, <3>1, SizesInNat
      <3>3. QED
        BY <3>2 DEF Current, Chunks
  <1>4. /\ Len(configs') = Len(configs) + 1 /\ configs'[Len(configs) + 1] = Current(r)'
        /\ \A i \in 1..Len(configs) : configs'[i] = configs[i]
        /\ Len(configs) \in Nat /\ Len(dma) \in Nat /\ dma' = dma
    BY <1>3, AppendElements, LenZero DEF DecodeColumnChunk, TypeOK
  <1>5. /\ g \in [1..(Len(dma) + 1) -> Nat \ {0}] /\ g[Len(dma) + 1] = Len(configs) + 1
        /\ \A i \in 1..Len(dma) : g[i] \in Nat /\ g[i] >= 1 /\ g[i] <= Len(configs)
    BY <1>1, <1>2, <1>4 DEF Meets
  <1>6. \A i \in 1..Len(dma) : g[i] <= Len(configs') /\ configs'[g[i]] = dma[i].chunk
    BY <1>1, <1>4, <1>5 DEF Meets
  <1>7. g[Len(dma') + 1] = Len(configs') /\ configs'[Len(configs')] = Current(mtx)'
    BY <1>2, <1>4, <1>5 DEF Current
  <1>8. Meets(g)'
    BY <1>1, <1>2, <1>4, <1>6, <1>7 DEF Meets
  <1>9. QED
    BY <1>8 DEF TransfersInOrder, DecodeColumnChunk

LEMMA InvokeTransferOrder ==
  ASSUME TypeOK, Counted, MutexHeld, TransfersInOrder, NEW r \in Readers, InvokeTransfer(r)
  PROVE  TransfersInOrder'
  <1> USE NobodyAssumption, SizesInNat
  <1>1. PICK g : Meets(g)
    BY DEF TransfersInOrder
  <1> DEFINE n == Len(dma) + 1
  <1>h. PICK h : h = [i \in 1..(n + 1) |->
                        IF i <= n THEN g[i] ELSE IF LastTransfer(r) THEN g[n] + 1 ELSE g[n]]
    OBVIOUS
  <1>2. mtx = r /\ mtx' = r /\ ~AllSent /\ pc' = pc /\ sent[r] \in 0..Transfers
    BY DEF InvokeTransfer, MutexHeld, AllSent, TypeOK
  <1>3. AllSent' <=> LastTransfer(r)
    <2>1. sent'[r] = sent[r] + 1 /\ sent[r] < Transfers /\ pc'[r] = "sending"
      BY <1>2 DEF InvokeTransfer, TypeOK
    <2>2. QED
      BY <1>2, <2>1 DEF AllSent, LastTransfer
  <1>4. Current(r) \in Chunks /\ LastTransfer(r) \in BOOLEAN
    BY CurrentChunk DEF InvokeTransfer, Counted, LastTransfer
  <1>5. /\ Len(dma') = n /\ dma'[n].chunk = Current(r) /\ dma'[n].last = LastTransfer(r)
        /\ \A i \in 1..Len(dma) : dma'[i] = dma[i]
    <2>1. [chunk |-> Current(r), last |-> LastTransfer(r)] \in [chunk : Chunks, last : BOOLEAN]
      BY <1>4
    <2>2. QED
      BY <2>1, AppendElements DEF InvokeTransfer, TypeOK
  <1>6. Len(dma) \in Nat /\ Len(configs) \in Nat /\ configs' = configs
    BY LenZero DEF InvokeTransfer, TypeOK
  <1>7. /\ g \in [1..n -> Nat \ {0}] /\ g[1] = 1
        /\ \A i \in 1..Len(dma) : /\ g[i] <= Len(configs) /\ configs[g[i]] = dma[i].chunk
                                  /\ g[i + 1] = IF dma[i].last THEN g[i] + 1 ELSE g[i]
        /\ \A i, j \in 1..n : i <= j => g[i] <= g[j]
        /\ g[n] = Len(configs) /\ configs[Len(configs)] = Current(r)
    BY <1>1, <1>2 DEF Meets
  <1>8. h \in [1..(n + 1) -> Nat \ {0}] /\ h[1] = 1 /\ \A i \in 1..n : h[i] = g[i]
    BY <1>6, <1>7, <1>h
  <1>9. h[n + 1] = IF LastTransfer(r) THEN g[n] + 1 ELSE g[n]
    BY <1>6, <1>h
  <1>10. \A i \in 1..n : /\ h[i] <= Len(configs) /\ configs[h[i]] = dma'[i].chunk
                          /\ h[i + 1] = IF dma'[i].last THEN h[i] + 1 ELSE h[i]
    <2> TAKE i \in 1..n
    <2>1. CASE i = n
      BY <1>5, <1>6, <1>7, <1>8, <1>9, <2>1
    <2>2. CASE i # n
      <3>1. i \in 1..Len(dma) /\ i + 1 \in 1..n
        BY <1>6, <2>2
      <3>2. QED
        BY <1>5, <1>7, <1>8, <3>1
    <2>3. QED
      BY <2>1, <2>2
  <1>11. \A i, j \in 1..(n + 1) : i <= j => h[i] <= h[j]
    <2> TAKE i, j \in 1..(n + 1)
    <2> HAVE i <= j
    <2>1. CASE j <= n
      BY <1>6, <1>7, <1>8, <2>1
    <2>2. CASE j = n + 1 /\ i <= n
      <3>1. g[i] <= g[n] /\ g[i] \in Nat /\ g[n] \in Nat
        BY <1>6, <1>7, <2>2
      <3>2. QED
        BY <1>6, <1>8, <1>9, <2>2, <3>1
    <2>3. CASE i = n + 1
      BY <1>6, <1>8, <2>3
    <2>4. QED
      BY <1>6, <2>1, <2>2, <2>3
  <1>12. /\ AllSent' => h[n + 1] = Len(configs) + 1
         /\ ~AllSent' => h[n + 1] = Len(configs) /\ configs[Len(configs)] = Current(r)'
    <2>1. Current(r)' = Current(r)
      BY DEF InvokeTransfer, Current
    <2>2. QED
      BY <1>3, <1>7, <1>9, <2>1
  <1>13. Meets(h)'
    <2>1. n' = n + 1 /\ Len(dma') = n
      BY <1>5, <1>6
    <2>2. /\ h \in [1..(Len(dma') + 1) -> Nat \ {0}] /\ h[1] = 1
          /\ \A i, j \in 1..(Len(dma') + 1) : i <= j => h[i] <= h[j]
      BY <1>8, <1>11, <2>1
    <2>3. \A i \in 1..Len(dma') : /\ h[i] <= Len(configs') /\ configs'[h[i]] = dma'[i].chunk
                                 /\ h[i + 1] = IF dma'[i].last THEN h[i] + 1 ELSE h[i]
      BY <1>6, <1>10, <2>1
    <2>4. /\ AllSent' => h[Len(dma') + 1] = Len(configs') + 1
          /\ ~AllSent' => h[Len(dma') + 1] = Len(configs') /\ configs'[Len(configs')] = Current(mtx)'
      BY <1>2, <1>6, <1>12, <2>1 DEF Current
    <2>5. QED
      BY <2>2, <2>3, <2>4 DEF Meets
  <1>14. QED
    BY <1>13 DEF TransfersInOrder, InvokeTransfer

LEMMA DecodeOrder ==
  ASSUME TypeOK, MutexHeld, TransfersInOrder, Decode
  PROVE  TransfersInOrder'
  <1>1. PICK g : Meets(g)
    BY DEF TransfersInOrder
  <1> DEFINE n == Len(dma)
             k == IF dma[1].last THEN 1 ELSE 0
  <1>h. PICK h : h = [i \in 1..n |-> g[i + 1] - k]
    OBVIOUS
  <1>2. /\ n \in Nat \ {0} /\ Len(dma') = n - 1 /\ \A i \in 1..(n - 1) : dma'[i] = dma[i + 1]
        /\ Head(dma) = dma[1]
    BY TailElements DEF Decode, TypeOK
  <1>3. /\ Len(configs) \in Nat \ {0} /\ Len(configs') = Len(configs) - k
        /\ \A i \in 1..Len(configs') : configs'[i] = configs[i + k]
    <2>1. configs' = IF dma[1].last THEN Tail(configs) ELSE configs
      BY <1>2 DEF Decode
    <2>2. configs \in Seq(Chunks) /\ configs # <<>>
      BY DEF Decode, TypeOK
    <2>3. QED
      BY <2>1, <2>2, TailElements
  <1>4. handles' = configs'
    BY DEF Decode, TransfersInOrder
  <1>5. AllSent' <=> AllSent
    BY DEF Decode, thread_vars, AllSent
  <1>6. Current(mtx)' = Current(mtx)
    BY DEF Decode, thread_vars, Current
  <1>7. /\ g \in [1..(n + 1) -> Nat \ {0}] /\ g[1] = 1
        /\ \A i \in 1..n : /\ g[i] <= Len(configs) /\ configs[g[i]] = dma[i].chunk
                           /\ g[i + 1] = IF dma[i].last THEN g[i] + 1 ELSE g[i]
        /\ \A i, j \in 1..(n + 1) : i <= j => g[i] <= g[j]
        /\ AllSent  => g[n + 1] = Len(configs) + 1
        /\ ~AllSent => g[n + 1] = Len(configs) /\ configs[Len(configs)] = Current(mtx)
    BY <1>1 DEF Meets
  <1>8. k \in {0, 1} /\ g[2] = 1 + k
    BY <1>2, <1>7
  <1>9. \A i \in 1..n : g[i + 1] \in Nat /\ g[i + 1] >= 1 + k
    <2> TAKE i \in 1..n
    <2>1. 2 \in 1..(n + 1) /\ i + 1 \in 1..(n + 1) /\ 2 <= i + 1
      BY <1>2
    <2>2. QED
      BY <1>7, <1>8, <2>1
  <1>10. h \in [1..n -> Nat \ {0}] /\ h[1] = 1 /\ \A i \in 1..n : h[i] = g[i + 1] - k
    <2>1. \A i \in 1..n : g[i + 1] - k \in Nat \ {0}
      BY <1>8, <1>9
    <2>2. h[1] = g[2] - k
      BY <1>2, <1>h
    <2>3. QED
      BY <1>8, <1>h, <2>1, <2>2
  <1> HIDE DEF k
  <1>11. \A i \in 1..(n - 1) : /\ h[i] <= Len(configs') /\ configs'[h[i]] = dma'[i].chunk
                               /\ h[i + 1] = IF dma'[i].last THEN h[i] + 1 ELSE h[i]
    <2> TAKE i \in 1..(n - 1)
    <2>1. i \in 1..n /\ i + 1 \in 1..n /\ h[i] = g[i + 1] - k /\ h[i + 1] = g[(i + 1) + 1] - k
      BY <1>2, <1>10
    <2>2. h[i] \in Nat \ {0} /\ g[i + 1] \in Nat
      BY <1>9, <1>10, <2>1
    <2>3. /\ g[i + 1] <= Len(configs) /\ configs[g[i + 1]] = dma[i + 1].chunk
          /\ g[(i + 1) + 1] = IF dma[i + 1].last THEN g[i + 1] + 1 ELSE g[i + 1]
      BY <1>7, <2>1
    <2>4. h[i] + k = g[i + 1]
      BY <1>8, <2>1, <2>2
    <2>5. h[i] <= Len(configs') /\ h[i] \in 1..Len(configs')
      BY <1>3, <1>8, <2>2, <2>3, <2>4
    <2>6. configs'[h[i]] = configs[g[i + 1]]
      BY <1>3, <2>4, <2>5
    <2>7. dma'[i] = dma[i + 1]
      BY <1>2
    <2>8. h[i + 1] = IF dma'[i].last THEN h[i] + 1 ELSE h[i]
      BY <1>8, <2>1, <2>2, <2>3, <2>7
    <2>9. QED
      BY <2>3, <2>5, <2>6, <2>7, <2>8
  <1>12. \A i, j \in 1..n : i <= j => h[i] <= h[j]
    <2> TAKE i, j \in 1..n
    <2> HAVE i <= j
    <2>1. i + 1 \in 1..(n + 1) /\ j + 1 \in 1..(n + 1) /\ i + 1 <= j + 1
      BY <1>2
    <2>2. g[i + 1] <= g[j + 1] /\ g[i + 1] \in Nat /\ g[j + 1] \in Nat
      BY <1>7, <1>9, <2>1
    <2>3. QED
      BY <1>8, <1>10, <2>2
  <1>13. h[n] = g[n + 1] - k
    BY <1>2, <1>10
  <1>14. /\ AllSent'  => h[n] = Len(configs') + 1
         /\ ~AllSent' => h[n] = Len(configs') /\ configs'[Len(configs')] = Current(mtx)'
    <2>1. CASE AllSent
      BY <1>3, <1>5, <1>7, <1>8, <1>13, <2>1
    <2>2. CASE ~AllSent
      <3>1. g[n + 1] = Len(configs) /\ configs[Len(configs)] = Current(mtx) /\ h[n] \in Nat \ {0}
        BY <1>2, <1>7, <1>10, <2>2
      <3>2. h[n] = Len(configs') /\ Len(configs') \in 1..Len(configs') /\ Len(configs') + k = Len(configs)
        BY <1>3, <1>8, <1>13, <3>1
      <3>3. QED
        BY <1>3, <1>5, <1>6, <2>2, <3>1, <3>2
    <2>3. QED
      BY <2>1, <2>2
  <1>15. Meets(h)'
    <2>1. Len(dma') + 1 = n /\ Len(dma') = n - 1
      BY <1>2
    <2>2. /\ h \in [1..(Len(dma') + 1) -> Nat \ {0}] /\ h[1] = 1
          /\ \A i, j \in 1..(Len(dma') + 1) : i <= j => h[i] <= h[j]
      BY <1>10, <1>12, <2>1
    <2>3. QED
      BY <1>11, <1>14, <2>1, <2>2 DEF Meets
  <1>16. QED
    BY <1>4, <1>15 DEF TransfersInOrder

LEMMA OrderInductive ==
  ASSUME TypeOK, Counted, MutexHeld, TransfersInOrder, TypeOK', Counted', [Next]_vars
  PROVE  TransfersInOrder'
  <1> USE NobodyAssumption
  <1>1. ASSUME NEW r \in Readers, GetChunkData(r) PROVE TransfersInOrder'
    <2>1. mtx = r /\ mtx' = r /\ ~AllSent
      BY <1>1 DEF GetChunkData, MutexHeld, AllSent
    <2>2. pc'[r] = "sending" /\ sent'[r] = 0
      BY <1>1 DEF GetChunkData, TypeOK
    <2>3. ~AllSent'
      BY <2>1, <2>2, SizesInNat DEF AllSent
    <2>4. QED
      BY <1>1, <2>1, <2>3, SameOrder DEF GetChunkData, hw_vars
  <1>2. ASSUME NEW r \in Readers, EnqueueDone(r) PROVE TransfersInOrder'
    <2>1. AllSent /\ AllSent'
      BY <1>2 DEF EnqueueDone, MutexHeld, AllSent
    <2>2. QED
      BY <1>2, <2>1, SameOrder DEF EnqueueDone, hw_vars
  <1>3. ASSUME NEW r \in Readers, NextColumnChunk(r) \/ FetchOutput(r) \/ FinishedDecoding(r)
        PROVE  TransfersInOrder'
    <2>1. mtx # r
      BY <1>3 DEF NextColumnChunk, FetchOutput, FinishedDecoding, MutexHeld
    <2>2. PICK step : pc' = [pc EXCEPT ![r] = step]
      BY <1>3 DEF NextColumnChunk, FetchOutput, FinishedDecoding
    <2>3. UNCHANGED <<mtx, sent, configs, dma, handles, tried>>
      BY <1>3 DEF NextColumnChunk, FetchOutput, FinishedDecoding, hw_vars
    <2>4. AllSent' <=> AllSent
      BY <2>1, <2>2, <2>3 DEF AllSent, TypeOK
    <2>5. QED
      BY <2>3, <2>4, SameOrder
  <1>4. CASE UNCHANGED vars
    BY <1>4, SameOrder DEF vars, thread_vars, hw_vars, AllSent
  <1>5. QED
    BY <1>1, <1>2, <1>3, <1>4, DecodeColumnChunkOrder, InvokeTransferOrder, DecodeOrder
       DEF Next, Thread, Done

-----------------------------------------------------------------------------
(* The theorems.                                                           *)

LEMMA InitHolds == Init => IInv /\ Counted
  <1> SUFFICES ASSUME Init PROVE IInv /\ Counted
    OBVIOUS
  <1> USE SizesInNat, NobodyAssumption
  <1>1. \A S : <<>> \in Seq(S) /\ Len(<<>>) = 0
    OBVIOUS
  <1>2. TypeOK
    BY <1>1 DEF Init, TypeOK
  <1>3. MutexHeld /\ BuffersHeld /\ Counted
    BY <1>1 DEF Init, MutexHeld, BuffersHeld, Held, Counted
  <1>4. Meets([i \in 1..1 |-> 1])
    BY <1>1 DEF Init, Meets, AllSent
  <1>5. TransfersInOrder
    BY <1>4 DEF Init, TransfersInOrder
  <1>6. QED
    BY <1>2, <1>3, <1>5 DEF IInv

LEMMA IInvAlways == Spec => [](IInv /\ Counted)
  <1>1. IInv /\ Counted /\ [Next]_vars => (IInv /\ Counted)'
    BY TypeInductive, MutexInductive, BuffersInductive, OrderInductive DEF IInv
  <1>2. QED
    BY <1>1, InitHolds, PTL DEF Spec

\* The queues of the host and of the hardware keep their types, and every thread is
\* where enqueue_column_chunk and next_column_chunk can be.
THEOREM TypeCorrect == Spec => []TypeOK
BY IInvAlways, PTL DEF IInv

\* At most one thread is between decode_column_chunk and the end of
\* enqueue_column_chunk of one decoder: the handle's lock excludes.
Excludes == \A r, s \in Readers :
  pc[r] \in {"configured", "sending"} /\ pc[s] \in {"configured", "sending"} => r = s

THEOREM AlwaysExcludes == Spec => []Excludes
  <1>1. IInv => Excludes
    BY DEF IInv, MutexHeld, Excludes
  <1>2. QED
    BY <1>1, IInvAlways, PTL

\* The transfer the hardware reads next is of the chunk whose configuration and whose
\* output handle are at the head of their queues: threads that enqueue at the same
\* time never mix up decode_column_chunk, enqueue_stream_input and the handle.
THEOREM AlwaysInStep == Spec => []InStep
  <1>1. IInv => InStep
    <2> SUFFICES ASSUME IInv, dma # <<>> PROVE InStep
      BY DEF InStep, ConfigInStep
    <2>1. PICK g : Meets(g)
      BY DEF IInv, TransfersInOrder
    <2>2. Len(dma) \in Nat \ {0} /\ Head(dma) = dma[1]
      BY TailElements DEF IInv, TypeOK
    <2>3. 1 \in 1..Len(dma) /\ g[1] = 1 /\ 1 <= Len(configs) /\ configs[1] = dma[1].chunk
      BY <2>1, <2>2 DEF Meets
    <2>4. configs # <<>> /\ Head(configs) = configs[1]
      BY <2>3, TailElements, LenZero DEF IInv, TypeOK
    <2>5. QED
      BY <2>2, <2>3, <2>4 DEF InStep, ConfigInStep, IInv, TransfersInOrder
  <1>2. QED
    BY <1>1, IInvAlways, PTL


-----------------------------------------------------------------------------
(* The inductive invariant: a thread's own chunks.                         *)

Enqueueing(r) == IF pc[r] \in {"configured", "sending"} THEN 1 ELSE 0

\* The chunks a reader has tried are, in a row: those returned, the one it fetches, those
\* queued, the one it enqueues; its buffers are those of the chunks not returned.
Row(r) ==
  /\ tried[r] = Len(returned[r]) + Len(fetching[r]) + Len(queue[r]) + Enqueueing(r)
  /\ fetching[r] # <<>> => fetching[r][1].chunk = <<r, Len(returned[r]) + 1>>
  /\ \A j \in 1..Len(queue[r]) : queue[r][j] = <<r, Len(returned[r]) + Len(fetching[r]) + j>>
  /\ \A j \in 1..Len(buffers[r]) : buffers[r][j] = <<r, Len(returned[r]) + j>>
  /\ Len(queue[r]) + Busy(r) <= Window
RowsInOrder == \A r \in Readers : Row(r)

-----------------------------------------------------------------------------
(* The inductive invariant: the chunks in the hardware.                    *)

InHardware(c) == \E i \in 1..Len(configs) : configs[i] = c
Pending(c) == Len(returned[c[1]]) < c[2] /\ c[2] <= tried[c[1]]

\* The hardware has a configuration for a chunk once, while it is under way.
ConfigsDistinct ==
  /\ \A i, j \in 1..Len(configs) : configs[i] = configs[j] => i = j
  /\ \A i \in 1..Len(configs) : Pending(configs[i])

\* A chunk that was configured and not read from its file has no transfers.
NotSent == \A r \in Readers : pc[r] = "configured" =>
  \A i \in 1..Len(dma) : dma[i].chunk # Current(r)

-----------------------------------------------------------------------------
(* The inductive invariant: the parts of a chunk.                          *)

\* The parts that were decoded of a chunk: waiting at its handle, or fetched.
Made(c) == Len(outputs[c]) +
  IF fetching[c[1]] # <<>> /\ c[2] = Len(returned[c[1]]) + 1
  THEN Len(fetching[c[1]][1].parts) ELSE 0

\* They are decoded from the chunk's bytes under its configuration, the last one ends it.
OutputsOwn(c) == \A j \in 1..Len(outputs[c]) :
  /\ outputs[c][j].conf = c /\ outputs[c][j].data = c
  /\ outputs[c][j].last => j = Len(outputs[c]) /\ ~InHardware(c)
FetchedOwn(r) == fetching[r] # <<>> =>
  \A j \in 1..Len(fetching[r][1].parts) :
    /\ fetching[r][1].parts[j].conf = fetching[r][1].chunk
    /\ fetching[r][1].parts[j].data = fetching[r][1].chunk
FetchedAll(r) == pc[r] = "fetched" =>
  outputs[fetching[r][1].chunk] = <<>> /\ ~InHardware(fetching[r][1].chunk)
PartsOwn ==
  /\ \A c \in Chunks : OutputsOwn(c)
  /\ \A r \in Readers : FetchedOwn(r) /\ FetchedAll(r)

\* What the hardware is done with is whole, what it has not begun with has no parts.
PartsWhole == \A c \in Chunks :
  /\ Pending(c) /\ ~InHardware(c) => Made(c) = Transfers
  /\ c[2] > tried[c[1]] => outputs[c] = <<>>

\* n[i] is the number of transfers of its chunk before transfer i, n[Len(dma) + 1]
\* that of the transfer to be started next.
Started == IF AllSent \/ pc[mtx] # "sending" THEN 0 ELSE sent[mtx]
Numbers(n) ==
  /\ \A i \in 1..Len(dma) : /\ n[i] < Transfers /\ (dma[i].last <=> n[i] + 1 = Transfers)
                            /\ n[i + 1] = IF dma[i].last THEN 0 ELSE n[i] + 1
  /\ n[Len(dma) + 1] = Started
  /\ n[1] = IF configs = <<>> THEN 0 ELSE Made(configs[1])

TransfersCounted ==
  /\ \E n \in [1..(Len(dma) + 1) -> 0..Transfers] : Numbers(n)
  /\ \A j \in 2..Len(configs) : Made(configs[j]) = 0

-----------------------------------------------------------------------------
(* What a step changes of a thread's own state.                            *)

\* The lengths of one thread's variables, and their types.
Lengths(r) ==
  /\ tried[r] \in Nat /\ Window \in Nat
  /\ Len(queue[r]) \in Nat /\ Len(buffers[r]) \in Nat /\ Len(returned[r]) \in Nat
  /\ Len(fetching[r]) \in Nat
Local(r) ==
  /\ pc[r] \in {"ready", "configured", "sending", "fetching", "fetched"}
  /\ queue[r] \in Seq(Chunks) /\ (queue[r] # <<>> <=> Len(queue[r]) > 0)
  /\ buffers[r] \in Seq(Chunks) /\ returned[r] \in Seq(Fetch) /\ fetching[r] \in Seq(Fetch)
  /\ Len(fetching[r]) = IF pc[r] \in {"fetching", "fetched"} THEN 1 ELSE 0
  /\ fetching[r] # <<>> <=> pc[r] \in {"fetching", "fetched"}
  /\ Len(buffers[r]) = Held(r)

LEMMA LocalHolds == ASSUME TypeOK, BuffersHeld, NEW r \in Readers PROVE Local(r) /\ Lengths(r)
  <1>1. fetching \in [Readers -> Seq(Fetch)] /\ returned \in [Readers -> Seq(Fetch)]
    BY DEF TypeOK, Fetch
  <1>2. fetching[r] \in Seq(Fetch) /\ (fetching[r] # <<>> <=> Len(fetching[r]) > 0) /\ Len(fetching[r]) \in Nat
    BY <1>1, LenZero
  <1>3. Len(fetching[r]) = IF pc[r] \in {"fetching", "fetched"} THEN 1 ELSE 0
    BY DEF TypeOK
  <1>4. /\ Len(queue[r]) \in Nat /\ (queue[r] # <<>> <=> Len(queue[r]) > 0)
        /\ Len(buffers[r]) \in Nat /\ Len(returned[r]) \in Nat
    BY <1>1, LenZero DEF TypeOK
  <1>5. Local(r)
    BY <1>1, <1>2, <1>3, <1>4 DEF TypeOK, BuffersHeld, Local
  <1>6. QED
    BY <1>2, <1>4, <1>5, HostSizes DEF TypeOK, Lengths

Idle(r) == UNCHANGED <<tried[r], sent[r], pc[r], queue[r], buffers[r], returned[r], fetching[r]>>

LEMMA OthersIdle ==
  ASSUME TypeOK, NEW r \in Readers, Thread(r), NEW s \in Readers, s # r
  PROVE  Idle(s)
  <1>1. CASE DecodeColumnChunk(r) \/ GetChunkData(r) \/ InvokeTransfer(r) \/ EnqueueDone(r)
    BY <1>1 DEF DecodeColumnChunk, GetChunkData, InvokeTransfer, EnqueueDone, Idle, TypeOK
  <1>2. CASE NextColumnChunk(r) \/ FinishedDecoding(r)
    BY <1>2 DEF NextColumnChunk, FinishedDecoding, Idle, TypeOK
  <1>3. CASE FetchOutput(r)
    BY <1>3 DEF FetchOutput, Idle, TypeOK
  <1>4. QED
    BY <1>1, <1>2, <1>3 DEF Thread

LEMMA DecodeIdle == Decode \/ UNCHANGED vars => \A s \in Readers : Idle(s)
BY DEF Decode, vars, thread_vars, Idle

-----------------------------------------------------------------------------
(* A thread's chunks stay in a row.                                        *)

LEMMA IdleRow == ASSUME NEW s \in Readers, Row(s), Idle(s) PROVE Row(s)'
BY DEF Row, Idle, Enqueueing, Busy

LEMMA RowInductive ==
  ASSUME TypeOK, Counted, BuffersHeld, NEW r \in Readers, Row(r), Thread(r)
  PROVE  Row(r)'
  <1> DEFINE k == Len(returned[r])
             m == Len(queue[r])
             f == Len(fetching[r])
  <1>0. Local(r) /\ Lengths(r)
    BY LocalHolds
  <1>n. k \in Nat /\ m \in Nat /\ f \in Nat /\ Len(buffers[r]) \in Nat /\ tried[r] \in Nat /\ Window \in Nat
    BY <1>0 DEF Lengths
  <1>r. tried[r] = k + f + m + Enqueueing(r) /\ m + Busy(r) <= Window
    BY DEF Row
  <1>q. \A j \in 1..m : queue[r][j] = <<r, k + f + j>>
    BY DEF Row
  <1>l. Enqueueing(r) \in {0, 1} /\ Busy(r) \in {0, 1}
    BY DEF Enqueueing, Busy
  <1>1. CASE DecodeColumnChunk(r)
    <2>1. /\ pc[r] = "ready" /\ pc'[r] = "configured" /\ tried'[r] = tried[r] + 1
          /\ UNCHANGED <<queue[r], buffers[r], returned[r], fetching[r]>> /\ m < Window
      BY <1>1 DEF DecodeColumnChunk, TypeOK
    <2>2. Enqueueing(r) = 0 /\ Enqueueing(r)' = 1 /\ Busy(r)' = 1
      BY <2>1 DEF Enqueueing, Busy
    <2>3. tried'[r] = k + f + m + 1 /\ m + 1 <= Window
      BY <1>n, <1>r, <2>1, <2>2
    <2>4. QED
      BY <2>1, <2>2, <2>3 DEF Row
  <1>2. CASE GetChunkData(r)
    <2>1. /\ pc[r] = "configured" /\ pc'[r] = "sending" /\ buffers'[r] = Append(buffers[r], Current(r))
          /\ UNCHANGED <<tried[r], queue[r], returned[r], fetching[r]>>
      BY <1>2 DEF GetChunkData, TypeOK
    <2>2. Current(r) \in Chunks
      BY <2>1, CurrentChunk DEF Counted
    <2>3. /\ Len(buffers'[r]) = Len(buffers[r]) + 1 /\ buffers'[r][Len(buffers[r]) + 1] = Current(r)
          /\ \A j \in 1..Len(buffers[r]) : buffers'[r][j] = buffers[r][j]
      BY <1>0, <2>1, <2>2, AppendElements DEF Local
    <2>4. Enqueueing(r) = 1 /\ Enqueueing(r)' = 1 /\ Busy(r) = 1 /\ Busy(r)' = 1 /\ Held(r) = m + 0 /\ f = 0
      BY <1>0, <2>1 DEF Enqueueing, Busy, Held, Local
    <2>5. Len(buffers[r]) = m /\ tried[r] = k + (m + 1)
      <3> HIDE DEF k, m, f
      <3>1. Len(buffers[r]) = m + 0
        BY <1>0, <2>4 DEF Local
      <3>2. QED
        BY <1>n, <1>r, <2>4, <3>1
    <2>6. \A j \in 1..Len(buffers'[r]) : buffers'[r][j] = <<r, k + j>>
      <3> TAKE j \in 1..Len(buffers'[r])
      <3>1. CASE j = m + 1
        BY <2>3, <2>5, <3>1 DEF Current
      <3>2. CASE j # m + 1
        <4>1. j \in 1..Len(buffers[r])
          BY <1>n, <2>3, <2>5, <3>2
        <4>2. QED
          BY <2>3, <4>1 DEF Row
      <3>3. QED
        BY <3>1, <3>2
    <2>7. QED
      BY <2>1, <2>4, <2>6 DEF Row
  <1>3. CASE InvokeTransfer(r)
    BY <1>3 DEF InvokeTransfer, Row, Enqueueing, Busy
  <1>4. CASE EnqueueDone(r)
    <2>1. /\ pc[r] = "sending" /\ pc'[r] = "ready" /\ queue'[r] = Append(queue[r], Current(r))
          /\ UNCHANGED <<tried[r], buffers[r], returned[r], fetching[r]>>
      BY <1>4 DEF EnqueueDone, TypeOK
    <2>2. Current(r) \in Chunks
      BY <2>1, CurrentChunk DEF Counted
    <2>3. /\ Len(queue'[r]) = m + 1 /\ queue'[r][m + 1] = Current(r)
          /\ \A j \in 1..m : queue'[r][j] = queue[r][j]
      BY <1>0, <2>1, <2>2, AppendElements DEF Local
    <2>4. Enqueueing(r) = 1 /\ Enqueueing(r)' = 0 /\ Busy(r) = 1 /\ Busy(r)' = 0 /\ f = 0
      BY <1>0, <2>1 DEF Enqueueing, Busy, Local
    <2>5. tried[r] = k + f + (m + 1) /\ tried[r] = k + f + (m + 1) + 0 /\ (m + 1) + 0 <= Window
      <3> HIDE DEF k, m, f
      <3>1. QED
        BY <1>n, <1>r, <2>4
    <2>6. \A j \in 1..Len(queue'[r]) : queue'[r][j] = <<r, k + f + j>>
      <3> TAKE j \in 1..Len(queue'[r])
      <3>1. CASE j = m + 1
        BY <2>3, <2>5, <3>1 DEF Current
      <3>2. CASE j # m + 1
        <4>1. j \in 1..m
          BY <1>n, <2>3, <3>2
        <4>2. QED
          BY <2>3, <4>1 DEF Row
      <3>3. QED
        BY <3>1, <3>2
    <2>7. QED
      BY <2>1, <2>3, <2>4, <2>5, <2>6 DEF Row
  <1>5. CASE NextColumnChunk(r)
    <2>1. /\ pc[r] = "ready" /\ pc'[r] = "fetching" /\ queue[r] # <<>> /\ queue'[r] = Tail(queue[r])
          /\ fetching'[r] = <<[chunk |-> Head(queue[r]), parts |-> <<>>]>>
          /\ UNCHANGED <<tried[r], buffers[r], returned[r]>>
      BY <1>5 DEF NextColumnChunk, TypeOK
    <2>2. /\ m >= 1 /\ Len(queue'[r]) = m - 1 /\ Head(queue[r]) = queue[r][1]
          /\ \A j \in 1..(m - 1) : queue'[r][j] = queue[r][j + 1]
      BY <1>0, <2>1, TailElements DEF Local
    <2>3. f = 0 /\ Len(fetching'[r]) = 1 /\ fetching'[r][1].chunk = queue[r][1]
      BY <1>0, <2>1, <2>2 DEF Local
    <2>4. Enqueueing(r) = 0 /\ Enqueueing(r)' = 0 /\ Busy(r) = 0 /\ Busy(r)' = 1
      BY <2>1 DEF Enqueueing, Busy
    <2>5. tried[r] = k + 1 + (m - 1) + 0 /\ (m - 1) + 1 <= Window
      <3> HIDE DEF k, m, f
      <3>1. QED
        BY <1>n, <1>r, <2>2, <2>3, <2>4
    <2>6. \A j \in 1..m : queue[r][j] = <<r, k + j>>
      <3>1. \A j \in 1..m : k + f + j = k + j
        BY <1>n, <2>3
      <3>2. QED
        BY <1>q, <3>1
    <2>7. fetching'[r][1].chunk = <<r, k + 1>>
      BY <1>n, <2>2, <2>3, <2>6
    <2>8. \A j \in 1..Len(queue'[r]) : queue'[r][j] = <<r, k + 1 + j>>
      <3> TAKE j \in 1..Len(queue'[r])
      <3> HIDE DEF k, m, f
      <3>1. j \in 1..(m - 1) /\ j + 1 \in 1..m /\ k + (j + 1) = k + 1 + j
        BY <1>n, <2>2
      <3>2. QED
        BY <2>2, <2>6, <3>1
    <2>9. QED
      BY <2>1, <2>2, <2>3, <2>4, <2>5, <2>7, <2>8 DEF Row
  <1>6. CASE FetchOutput(r)
    <2> DEFINE c == fetching[r][1].chunk
    <2>1. PICK step \in {"fetching", "fetched"} : pc'[r] = step /\ pc[r] = "fetching"
      BY <1>6 DEF FetchOutput, TypeOK
    <2>2. fetching'[r] = [fetching[r] EXCEPT ![1].parts = Append(@, Head(outputs[c]))]
          /\ UNCHANGED <<tried[r], queue[r], buffers[r], returned[r]>>
      BY <1>6 DEF FetchOutput, TypeOK
    <2>3. f = 1 /\ fetching[r] \in Seq(Fetch) /\ fetching[r][1] \in Fetch /\ fetching[r] # <<>>
      BY <1>0, <2>1 DEF Local
    <2>4. Len(fetching'[r]) = f /\ fetching'[r][1].chunk = c
      BY <2>2, <2>3 DEF Fetch
    <2>5. Enqueueing(r) = 0 /\ Enqueueing(r)' = 0 /\ Busy(r) = 1 /\ Busy(r)' = 1
      BY <2>1 DEF Enqueueing, Busy
    <2>6. QED
      BY <2>2, <2>3, <2>4, <2>5 DEF Row
  <1>7. CASE FinishedDecoding(r)
    <2>1. /\ pc[r] = "fetched" /\ pc'[r] = "ready" /\ returned'[r] = returned[r] \o fetching[r]
          /\ fetching'[r] = <<>> /\ buffers'[r] = Tail(buffers[r]) /\ UNCHANGED <<tried[r], queue[r]>>
      BY <1>7 DEF FinishedDecoding, TypeOK
    <2>2. f = 1 /\ Len(returned'[r]) = k + 1 /\ Len(fetching'[r]) = 0
      <3>1. f = 1 /\ Len(fetching'[r]) = 0
        BY <1>0, <2>1 DEF Local
      <3>2. Len(returned[r] \o fetching[r]) = k + f
        BY <1>0, ConcatProperties DEF Local
      <3>3. QED
        BY <2>1, <3>1, <3>2
    <2>3. Enqueueing(r) = 0 /\ Enqueueing(r)' = 0 /\ Busy(r) = 1 /\ Busy(r)' = 0 /\ Held(r) = m + 1
      BY <2>1 DEF Enqueueing, Busy, Held
    <2>4. Len(buffers[r]) = m + 1 /\ buffers[r] # <<>>
      <3>1. Len(buffers[r]) = m + 1 /\ m + 1 # 0
        BY <1>0, <1>n, <2>3 DEF Local
      <3>2. QED
        BY <3>1
    <2>5. Len(buffers'[r]) = m /\ \A j \in 1..m : buffers'[r][j] = buffers[r][j + 1]
      <3>1. Len(Tail(buffers[r])) = Len(buffers[r]) - 1
            /\ \A j \in 1..(Len(buffers[r]) - 1) : Tail(buffers[r])[j] = buffers[r][j + 1]
        BY <1>0, <2>4, TailElements DEF Local
      <3>2. Len(buffers[r]) - 1 = m
        BY <1>n, <2>4
      <3>3. QED
        BY <2>1, <3>1, <3>2
    <2>6. \A j \in 1..Len(buffers'[r]) : buffers'[r][j] = <<r, k + 1 + j>>
      <3> TAKE j \in 1..Len(buffers'[r])
      <3>1. j \in 1..m
        BY <2>5
      <3>2. j + 1 \in 1..(m + 1) /\ k + (j + 1) = k + 1 + j
        <4> HIDE DEF k, m, f
        <4>1. QED
          BY <1>n, <3>1
      <3>3. QED
        BY <2>4, <2>5, <3>1, <3>2 DEF Row
    <2>7. tried[r] = (k + 1) + 0 + m + 0 /\ m + 0 <= Window
      <3> HIDE DEF k, m, f
      <3>1. QED
        BY <1>n, <1>r, <2>2, <2>3
    <2>8. \A j \in 1..m : queue[r][j] = <<r, (k + 1) + 0 + j>>
      <3>1. \A j \in 1..m : k + f + j = (k + 1) + 0 + j
        BY <1>n, <2>2
      <3>2. QED
        BY <1>q, <3>1
    <2>9. QED
      BY <2>1, <2>2, <2>3, <2>6, <2>7, <2>8 DEF Row
  <1>8. QED
    BY <1>1, <1>2, <1>3, <1>4, <1>5, <1>6, <1>7 DEF Thread

LEMMA RowsInductive ==
  ASSUME TypeOK, Counted, BuffersHeld, RowsInOrder, [Next]_vars
  PROVE  RowsInOrder'
  <1> SUFFICES ASSUME NEW s \in Readers PROVE Row(s)'
    BY DEF RowsInOrder
  <1>1. ASSUME NEW r \in Readers, Thread(r) PROVE Row(s)'
    BY <1>1, OthersIdle, IdleRow, RowInductive DEF RowsInOrder
  <1>2. CASE Decode \/ UNCHANGED vars
    BY <1>2, DecodeIdle, IdleRow DEF RowsInOrder
  <1>3. QED
    BY <1>1, <1>2 DEF Next, Done

-----------------------------------------------------------------------------
(* What a step changes of the hardware's queues.                           *)

LEMMA ChunkPair ==
  ASSUME NEW c \in Chunks
  PROVE  c = <<c[1], c[2]>> /\ c[1] \in Readers /\ c[2] \in 1..NumChunks /\ c[2] \in Nat
BY SizesInNat DEF Chunks

LEMMA SeqElements == ASSUME NEW S, NEW q \in Seq(S), NEW i \in 1..Len(q) PROVE q[i] \in S
OBVIOUS

LEMMA ConfigsInChunks ==
  ASSUME TypeOK
  PROVE  /\ Len(configs) \in Nat /\ Len(dma) \in Nat
         /\ \A i \in 1..Len(configs) : configs[i] \in Chunks
         /\ \A i \in 1..Len(dma) : dma[i].chunk \in Chunks /\ dma[i].last \in BOOLEAN
  <1>1. configs \in Seq(Chunks) /\ dma \in Seq([chunk : Chunks, last : BOOLEAN])
    BY DEF TypeOK
  <1>2. /\ Len(configs) \in Nat /\ Len(dma) \in Nat
        /\ \A i \in 1..Len(configs) : configs[i] \in Chunks
        /\ \A i \in 1..Len(dma) : dma[i] \in [chunk : Chunks, last : BOOLEAN]
    BY <1>1, LenZero, SeqElements
  <1>3. QED
    BY <1>2

\* decode_column_chunk adds the thread's chunk to the configurations.
LEMMA OneMoreConfig ==
  ASSUME TypeOK, NEW r \in Readers, DecodeColumnChunk(r)
  PROVE  /\ Current(r)' = <<r, tried[r] + 1>> /\ Current(r)' \in Chunks
         /\ Len(configs') = Len(configs) + 1 /\ configs'[Len(configs) + 1] = Current(r)'
         /\ \A i \in 1..Len(configs) : configs'[i] = configs[i]
         /\ \A c : InHardware(c)' <=> InHardware(c) \/ c = Current(r)'
  <1>1. tried'[r] = tried[r] + 1 /\ tried[r] \in 0..NumChunks /\ tried[r] < NumChunks
    BY DEF DecodeColumnChunk, TypeOK
  <1>2. Current(r)' = <<r, tried[r] + 1>> /\ Current(r)' \in Chunks
    BY <1>1, SizesInNat DEF Current, Chunks
  <1>3. /\ Len(configs') = Len(configs) + 1 /\ configs'[Len(configs) + 1] = Current(r)'
        /\ \A i \in 1..Len(configs) : configs'[i] = configs[i]
    BY <1>2, AppendElements DEF DecodeColumnChunk, TypeOK
  <1>4. ASSUME NEW c PROVE InHardware(c)' <=> InHardware(c) \/ c = Current(r)'
    <2>1. \A i \in 1..(Len(configs) + 1) : i \in 1..Len(configs) \/ i = Len(configs) + 1
      BY ConfigsInChunks
    <2>2. Len(configs) + 1 \in 1..(Len(configs) + 1) /\ 1..Len(configs) \subseteq 1..(Len(configs) + 1)
      BY ConfigsInChunks
    <2>3. QED
      BY <1>3, <2>1, <2>2 DEF InHardware
  <1>5. QED
    BY <1>2, <1>3, <1>4

\* Every transfer is of a chunk the hardware has the configuration of.
LEMMA TransfersConfigured ==
  ASSUME TypeOK, TransfersInOrder
  PROVE  \A i \in 1..Len(dma) : InHardware(dma[i].chunk)
  <1>1. PICK g : Meets(g)
    BY DEF TransfersInOrder
  <1> TAKE i \in 1..Len(dma)
  <1>2. g[i] \in Nat \ {0} /\ g[i] <= Len(configs) /\ configs[g[i]] = dma[i].chunk
    BY <1>1, ConfigsInChunks DEF Meets
  <1>3. g[i] \in 1..Len(configs)
    BY <1>2, ConfigsInChunks
  <1>4. QED
    BY <1>2, <1>3 DEF InHardware

\* The hardware decodes a transfer of its first chunk.
LEMMA DecodeStep ==
  ASSUME TypeOK, TransfersInOrder, ConfigsDistinct, Decode
  PROVE  /\ Len(configs) \in Nat \ {0} /\ Len(dma) \in Nat \ {0} /\ configs[1] \in Chunks
         /\ dma[1].chunk = configs[1] /\ dma[1].last \in BOOLEAN
         /\ outputs' = [outputs EXCEPT ![configs[1]] =
              Append(@, [conf |-> configs[1], data |-> configs[1], last |-> dma[1].last])]
         /\ Len(dma') = Len(dma) - 1 /\ \A i \in 1..(Len(dma) - 1) : dma'[i] = dma[i + 1]
         /\ ~dma[1].last => configs' = configs
         /\ dma[1].last => /\ Len(configs') = Len(configs) - 1
                           /\ \A i \in 1..(Len(configs) - 1) : configs'[i] = configs[i + 1]
         /\ InHardware(configs[1])
         /\ \A c : InHardware(c)' <=> InHardware(c) /\ ~(dma[1].last /\ c = configs[1])
  <1>1. /\ Len(dma) \in Nat \ {0} /\ Head(dma) = dma[1] /\ dma[1].last \in BOOLEAN
        /\ Len(dma') = Len(dma) - 1 /\ \A i \in 1..(Len(dma) - 1) : dma'[i] = dma[i + 1]
    <2>1. dma \in Seq([chunk : Chunks, last : BOOLEAN]) /\ dma # <<>> /\ dma' = Tail(dma)
      BY DEF Decode, TypeOK
    <2>2. /\ Len(dma) \in Nat \ {0} /\ Head(dma) = dma[1]
          /\ Len(dma') = Len(dma) - 1 /\ \A i \in 1..(Len(dma) - 1) : dma'[i] = dma[i + 1]
      BY <2>1, TailElements
    <2>3. QED
      BY <2>2, ConfigsInChunks
  <1>2. configs \in Seq(Chunks) /\ configs # <<>> /\ handles = configs
    BY DEF Decode, TypeOK, TransfersInOrder
  <1>3. /\ Len(configs) \in Nat \ {0} /\ Head(configs) = configs[1] /\ configs[1] \in Chunks
        /\ Len(Tail(configs)) = Len(configs) - 1
        /\ \A i \in 1..(Len(configs) - 1) : Tail(configs)[i] = configs[i + 1]
    BY <1>2, TailElements
  <1>4. dma[1].chunk = configs[1]
    <2>1. PICK g : Meets(g)
      BY DEF TransfersInOrder
    <2>2. 1 \in 1..Len(dma) /\ g[1] = 1
      BY <1>1, <2>1 DEF Meets
    <2>3. QED
      BY <2>1, <2>2 DEF Meets
  <1>5. outputs' = [outputs EXCEPT ![configs[1]] =
          Append(@, [conf |-> configs[1], data |-> configs[1], last |-> dma[1].last])]
    BY <1>1, <1>2, <1>3, <1>4 DEF Decode
  <1>6. configs' = IF dma[1].last THEN Tail(configs) ELSE configs
    BY <1>1 DEF Decode
  <1>7. 1 \in 1..Len(configs) /\ InHardware(configs[1])
    BY <1>3 DEF InHardware
  <1>8. ASSUME NEW c PROVE InHardware(c)' <=> InHardware(c) /\ ~(dma[1].last /\ c = configs[1])
    <2>1. CASE ~dma[1].last
      BY <1>6, <2>1 DEF InHardware
    <2>2. CASE dma[1].last
      <3>0. Len(configs') = Len(configs) - 1 /\ \A i \in 1..(Len(configs) - 1) : configs'[i] = configs[i + 1]
        BY <1>3, <1>6, <2>2
      <3>1. ASSUME InHardware(c)' PROVE InHardware(c) /\ c # configs[1]
        <4>1. PICK i \in 1..(Len(configs) - 1) : configs[i + 1] = c
          BY <3>0, <3>1 DEF InHardware
        <4>2. i + 1 \in 1..Len(configs) /\ i + 1 # 1
          BY <1>3
        <4>3. QED
          BY <1>7, <4>1, <4>2 DEF InHardware, ConfigsDistinct
      <3>2. ASSUME InHardware(c), c # configs[1] PROVE InHardware(c)'
        <4>1. PICK i \in 1..Len(configs) : configs[i] = c
          BY <3>2 DEF InHardware
        <4>2. i # 1
          BY <3>2, <4>1
        <4>3. i - 1 \in 1..(Len(configs) - 1) /\ (i - 1) + 1 = i
          BY <1>3, <4>2
        <4>4. configs'[i - 1] = c
          BY <3>0, <4>1, <4>3
        <4>5. QED
          BY <3>0, <4>3, <4>4 DEF InHardware
      <3>3. QED
        BY <2>2, <3>1, <3>2
    <2>3. QED
      BY <1>1, <2>1, <2>2
  <1>9. QED
    BY <1>1, <1>3, <1>4, <1>5, <1>6, <1>7, <1>8

-----------------------------------------------------------------------------
(* The configurations are of different chunks, all under way.              *)

\* What a row says of the chunks under way.
LEMMA RowBounds ==
  ASSUME TypeOK, BuffersHeld, RowsInOrder, NEW r \in Readers
  PROVE  /\ Len(returned[r]) \in Nat /\ tried[r] \in Nat /\ Len(returned[r]) <= tried[r]
         /\ pc[r] \in {"configured", "sending"} => Len(returned[r]) < tried[r]
         /\ fetching[r] # <<>> => /\ fetching[r][1].chunk = <<r, Len(returned[r]) + 1>>
                                  /\ Len(returned[r]) + 1 <= tried[r]
         /\ fetching[r] # <<>> <=> pc[r] \in {"fetching", "fetched"}
  <1> DEFINE k == Len(returned[r])
             m == Len(queue[r])
             f == Len(fetching[r])
  <1>1. Local(r) /\ Lengths(r) /\ Row(r)
    BY LocalHolds DEF RowsInOrder
  <1>2. /\ k \in Nat /\ m \in Nat /\ f \in Nat /\ tried[r] \in Nat
        /\ tried[r] = k + f + m + Enqueueing(r)
    BY <1>1 DEF Lengths, Row
  <1>3. /\ pc[r] \in {"configured", "sending"} => Enqueueing(r) = 1
        /\ Enqueueing(r) \in {0, 1} /\ (fetching[r] # <<>> => f = 1)
        /\ fetching[r] # <<>> <=> pc[r] \in {"fetching", "fetched"}
        /\ fetching[r] # <<>> => fetching[r][1].chunk = <<r, k + 1>>
    BY <1>1 DEF Local, Row, Enqueueing
  <1> HIDE DEF k, m, f
  <1>4. /\ k <= tried[r] /\ (pc[r] \in {"configured", "sending"} => k < tried[r])
        /\ fetching[r] # <<>> => k + 1 <= tried[r]
    BY <1>2, <1>3
  <1>5. QED
    BY <1>2, <1>3, <1>4 DEF k

LEMMA ConfigsDistinctInductive ==
  ASSUME IInv, Counted, RowsInOrder, ConfigsDistinct, PartsOwn, TypeOK', BuffersHeld', RowsInOrder', [Next]_vars
  PROVE  ConfigsDistinct'
  <1> USE ConfigsInChunks DEF IInv
  <1>1. ASSUME NEW r \in Readers, DecodeColumnChunk(r) PROVE ConfigsDistinct'
    <2>1. returned' = returned /\ tried' = [tried EXCEPT ![r] = tried[r] + 1] /\ DOMAIN tried = Readers
      BY <1>1 DEF DecodeColumnChunk, TypeOK
    <2>2. \A s \in Readers : tried[s] \in Nat /\ Len(returned[s]) \in Nat /\ Len(returned[s]) <= tried[s]
      BY RowBounds
    <2>3. ASSUME NEW c \in Chunks, Pending(c) PROVE Pending(c)' /\ c # Current(r)'
      <3>1. tried'[c[1]] >= tried[c[1]]
        BY <2>1, <2>2, ChunkPair
      <3>2. CASE c[1] = r
        BY <1>1, <2>1, <2>2, <2>3, <3>1, <3>2, ChunkPair, OneMoreConfig DEF Pending
      <3>3. CASE c[1] # r
        BY <1>1, <2>1, <2>2, <2>3, <3>1, <3>3, ChunkPair, OneMoreConfig DEF Pending
      <3>4. QED
        BY <3>2, <3>3
    <2> PICK new \in Chunks : new = <<r, tried[r] + 1>> /\ new = Current(r)'
      BY <1>1, OneMoreConfig
    <2>4. Pending(new)'
      <3>1. tried'[r] = tried[r] + 1
        BY <2>1
      <3>2. QED
        BY <2>1, <2>2, <3>1 DEF Pending
    <2>5. \A i \in 1..Len(configs') : i \in 1..Len(configs) \/ i = Len(configs) + 1
      BY <1>1, OneMoreConfig
    <2>6. \A i \in 1..Len(configs) : configs'[i] = configs[i] /\ Pending(configs[i])' /\ configs[i] # Current(r)'
      <3> TAKE i \in 1..Len(configs)
      <3> PICK c \in Chunks : c = configs[i]
        OBVIOUS
      <3>1. configs'[i] = c /\ Pending(c)
        BY <1>1, OneMoreConfig DEF ConfigsDistinct
      <3>2. QED
        BY <2>3, <3>1 DEF Pending
    <2>7. configs'[Len(configs) + 1] = Current(r)'
      BY <1>1, OneMoreConfig
    <2>8. \A i, j \in 1..Len(configs') : configs'[i] = configs'[j] => i = j
      BY <2>5, <2>6, <2>7 DEF ConfigsDistinct
    <2>9. \A i \in 1..Len(configs') : Pending(configs[i])'
      <3> TAKE i \in 1..Len(configs')
      <3>1. CASE i \in 1..Len(configs)
        BY <2>6, <3>1
      <3>2. CASE i = Len(configs) + 1
        <4>1. configs'[i] = new
          BY <2>7, <3>2
        <4>2. QED
          BY <2>4, <4>1 DEF Pending
      <3>3. QED
        BY <2>5, <3>1, <3>2
    <2>10. QED
      BY <2>8, <2>9 DEF ConfigsDistinct
  <1>2. ASSUME UNCHANGED <<configs, tried, returned>> PROVE ConfigsDistinct'
    BY <1>2 DEF ConfigsDistinct, Pending
  <1>3. ASSUME NEW r \in Readers, FinishedDecoding(r) PROVE ConfigsDistinct'
    <2>1. /\ pc[r] = "fetched" /\ UNCHANGED <<configs, tried>>
          /\ \A s \in Readers \ {r} : returned'[s] = returned[s]
          /\ returned'[r] = returned[r] \o fetching[r]
      BY <1>3 DEF FinishedDecoding, hw_vars, TypeOK
    <2>2. Len(returned'[r]) = Len(returned[r]) + 1
      <3>1. returned[r] \in Seq(Fetch) /\ fetching[r] \in Seq(Fetch) /\ Len(fetching[r]) = 1
        BY <2>1, LocalHolds DEF Local
      <3>2. Len(returned[r] \o fetching[r]) = Len(returned[r]) + Len(fetching[r])
        BY <3>1, ConcatProperties
      <3>3. QED
        BY <2>1, <3>1, <3>2
    <2>3. ~InHardware(<<r, Len(returned[r]) + 1>>) /\ Len(returned[r]) \in Nat
      BY <2>1, RowBounds DEF PartsOwn, FetchedAll
    <2>4. ASSUME NEW i \in 1..Len(configs) PROVE Pending(configs[i])'
      <3> PICK c \in Chunks : c = configs[i] /\ c = configs'[i]
        BY <2>1
      <3>1. Pending(c) /\ c # <<r, Len(returned[r]) + 1>>
        BY <2>3 DEF ConfigsDistinct, InHardware
      <3>2. CASE c[1] = r
        <4>1. c[2] # Len(returned[r]) + 1 /\ c[2] \in Nat
          BY <3>1, <3>2, ChunkPair
        <4>2. Len(returned[r]) < c[2] /\ c[2] <= tried[r]
          BY <3>1, <3>2 DEF Pending
        <4>3. Len(returned'[r]) < c[2] /\ c[2] <= tried'[r]
          BY <2>1, <2>2, <2>3, <4>1, <4>2
        <4>4. QED
          BY <3>2, <4>3 DEF Pending
      <3>3. CASE c[1] # r
        BY <2>1, <3>1, <3>3, ChunkPair DEF Pending
      <3>4. QED
        BY <3>2, <3>3
    <2>5. QED
      BY <2>1, <2>4 DEF ConfigsDistinct, Pending
  <1>4. ASSUME Decode PROVE ConfigsDistinct'
    <2>1. UNCHANGED <<tried, returned>>
      BY <1>4 DEF Decode, thread_vars
    <2>2. CASE ~dma[1].last
      BY <1>4, <2>1, <2>2, <1>2, DecodeStep
    <2>3. CASE dma[1].last
      <3>1. /\ Len(configs) \in Nat \ {0} /\ Len(configs') = Len(configs) - 1
            /\ \A i \in 1..(Len(configs) - 1) : configs'[i] = configs[i + 1]
        BY <1>4, <2>3, DecodeStep
      <3>2. \A i \in 1..Len(configs') : i + 1 \in 1..Len(configs) /\ configs'[i] = configs[i + 1]
        BY <3>1
      <3>3. \A i, j \in 1..Len(configs') : i + 1 = j + 1 => i = j
        OBVIOUS
      <3>4. QED
        BY <2>1, <3>2, <3>3 DEF ConfigsDistinct, Pending
    <2>4. QED
      BY <2>2, <2>3
  <1>5. ASSUME NEW r \in Readers, Thread(r), ~DecodeColumnChunk(r), ~FinishedDecoding(r)
        PROVE  UNCHANGED <<configs, tried, returned>>
    BY <1>5 DEF Thread, GetChunkData, InvokeTransfer, EnqueueDone, NextColumnChunk, FetchOutput, hw_vars
  <1>6. UNCHANGED vars => UNCHANGED <<configs, tried, returned>>
    BY DEF vars, thread_vars, hw_vars
  <1>7. QED
    BY <1>1, <1>2, <1>3, <1>4, <1>5, <1>6 DEF Next, Done, Thread

\* A chunk has transfers only after it was read from its file.
LEMMA NotSentInductive ==
  ASSUME IInv, RowsInOrder, ConfigsDistinct, NotSent, [Next]_vars
  PROVE  NotSent'
  <1> USE NobodyAssumption, ConfigsInChunks DEF IInv
  <1>1. ASSUME NEW r \in Readers, DecodeColumnChunk(r) PROVE NotSent'
    <2>1. /\ mtx = Nobody /\ dma' = dma /\ \A s \in Readers \ {r} : pc'[s] = pc[s]
      BY <1>1 DEF DecodeColumnChunk, Locked, TypeOK
    <2>2. \A s \in Readers \ {r} : pc'[s] # "configured"
      BY <2>1 DEF MutexHeld
    <2>3. \A i \in 1..Len(dma) : dma[i].chunk # Current(r)'
      <3> TAKE i \in 1..Len(dma)
      <3>1. dma[i].chunk \in Chunks /\ Pending(dma[i].chunk)
        BY TransfersConfigured DEF InHardware, ConfigsDistinct
      <3>2. tried[r] \in Nat /\ Current(r)' = <<r, tried[r] + 1>>
        BY <1>1, OneMoreConfig, RowBounds
      <3>3. QED
        BY <3>1, <3>2, ChunkPair DEF Pending
    <2>4. QED
      BY <2>1, <2>2, <2>3 DEF NotSent
  <1>2. ASSUME NEW r \in Readers, InvokeTransfer(r) PROVE NotSent'
    <2>1. mtx = r /\ pc' = pc /\ pc[r] = "sending"
      BY <1>2 DEF InvokeTransfer, MutexHeld
    <2>2. \A s \in Readers : pc'[s] # "configured"
      BY <2>1 DEF MutexHeld
    <2>3. QED
      BY <2>2 DEF NotSent
  <1>3. ASSUME Decode PROVE NotSent'
    <2>1. UNCHANGED <<pc, tried>>
      BY <1>3 DEF Decode, thread_vars
    <2>2. \A i \in 1..Len(dma') : i + 1 \in 1..Len(dma) /\ dma'[i] = dma[i + 1]
      BY <1>3, DecodeStep
    <2>3. QED
      BY <2>1, <2>2 DEF NotSent, Current
  <1>4. ASSUME UNCHANGED <<dma, tried>>, \A s \in Readers : pc'[s] = "configured" => pc[s] = "configured"
        PROVE  NotSent'
    BY <1>4 DEF NotSent, Current
  <1>5. ASSUME NEW r \in Readers, Thread(r), ~DecodeColumnChunk(r), ~InvokeTransfer(r)
        PROVE  NotSent'
    <2>1. PICK step \in {"ready", "sending", "fetching", "fetched"} : pc' = [pc EXCEPT ![r] = step]
      BY <1>5 DEF Thread, GetChunkData, EnqueueDone, NextColumnChunk, FetchOutput, FinishedDecoding
    <2>2. UNCHANGED <<dma, tried>>
      BY <1>5 DEF Thread, GetChunkData, EnqueueDone, NextColumnChunk, FetchOutput, FinishedDecoding, hw_vars
    <2>3. QED
      BY <1>4, <2>1, <2>2 DEF TypeOK
  <1>6. CASE UNCHANGED vars
    BY <1>6, <1>4 DEF vars, thread_vars, hw_vars
  <1>7. QED
    BY <1>1, <1>2, <1>3, <1>5, <1>6 DEF Next, Done

-----------------------------------------------------------------------------
(* The parts are decoded from their chunk's bytes under its configuration. *)

LEMMA OutputsInSeq ==
  ASSUME TypeOK, NEW c \in Chunks
  PROVE  outputs[c] \in Seq(Part) /\ Len(outputs[c]) \in Nat
BY LenZero DEF TypeOK

\* get_next_stream_output moves the first part that waits at the chunk's handle.
LEMMA FetchStep ==
  ASSUME TypeOK, BuffersHeld, RowsInOrder, NEW r \in Readers, FetchOutput(r)
  PROVE  \E c \in Chunks :
    /\ c = <<r, Len(returned[r]) + 1>> /\ fetching[r][1].chunk = c /\ fetching'[r][1].chunk = c
    /\ fetching[r] # <<>> /\ fetching'[r] # <<>> /\ \A s \in Readers \ {r} : fetching'[s] = fetching[s]
    /\ Len(outputs[c]) \in Nat \ {0} /\ Len(outputs'[c]) = Len(outputs[c]) - 1
    /\ \A j \in 1..(Len(outputs[c]) - 1) : outputs'[c][j] = outputs[c][j + 1]
    /\ \A d \in Chunks \ {c} : outputs'[d] = outputs[d]
    /\ Len(fetching[r][1].parts) \in Nat
    /\ Len(fetching'[r][1].parts) = Len(fetching[r][1].parts) + 1
    /\ \A j \in 1..Len(fetching[r][1].parts) : fetching'[r][1].parts[j] = fetching[r][1].parts[j]
    /\ fetching'[r][1].parts[Len(fetching[r][1].parts) + 1] = outputs[c][1]
    /\ pc' = [pc EXCEPT ![r] = IF outputs[c][1].last THEN "fetched" ELSE "fetching"]
  <1>1. Local(r) /\ Row(r) /\ pc[r] = "fetching"
    BY LocalHolds DEF RowsInOrder, FetchOutput
  <1>2. fetching[r] \in Seq(Fetch) /\ Len(fetching[r]) = 1 /\ fetching[r] # <<>> /\ fetching[r][1] \in Fetch
    BY <1>1 DEF Local
  <1>3. PICK c \in Chunks : c = fetching[r][1].chunk /\ c = <<r, Len(returned[r]) + 1>>
    BY <1>1, <1>2 DEF Row, Fetch
  <1>4. PICK p \in Seq(Part) : p = fetching[r][1].parts
    BY <1>2 DEF Fetch
  <1>5. outputs[c] \in Seq(Part) /\ outputs[c] # <<>> /\ DOMAIN outputs = Chunks
        /\ outputs' = [outputs EXCEPT ![c] = Tail(outputs[c])]
    BY <1>3 DEF FetchOutput, TypeOK
  <1>6. PICK x \in Part : x = Head(outputs[c]) /\ x = outputs[c][1]
    BY <1>5, TailElements
  <1>7. /\ Len(outputs[c]) \in Nat \ {0} /\ Len(outputs'[c]) = Len(outputs[c]) - 1
        /\ \A j \in 1..(Len(outputs[c]) - 1) : outputs'[c][j] = outputs[c][j + 1]
        /\ \A d \in Chunks \ {c} : outputs'[d] = outputs[d]
    BY <1>5, TailElements
  <1>8. /\ Append(p, x) \in Seq(Part) /\ Len(p) \in Nat /\ Len(Append(p, x)) = Len(p) + 1
        /\ \A j \in 1..Len(p) : Append(p, x)[j] = p[j]
        /\ Append(p, x)[Len(p) + 1] = x
    BY <1>6, AppendElements, LenZero
  <1>9. fetching' = [fetching EXCEPT ![r] = [fetching[r] EXCEPT ![1] =
                       [fetching[r][1] EXCEPT !.parts = Append(p, x)]]]
    BY <1>3, <1>4, <1>6 DEF FetchOutput
  <1>10. DOMAIN fetching = Readers
    BY DEF TypeOK
  <1>11. /\ fetching'[r] = [fetching[r] EXCEPT ![1] = [fetching[r][1] EXCEPT !.parts = Append(p, x)]]
         /\ \A s \in Readers \ {r} : fetching'[s] = fetching[s]
    BY <1>9, <1>10
  <1>12. fetching'[r][1].chunk = c /\ fetching'[r][1].parts = Append(p, x) /\ fetching'[r] # <<>>
    <2>1. fetching'[r] # <<>> /\ fetching'[r][1] = [fetching[r][1] EXCEPT !.parts = Append(p, x)]
      BY <1>2, <1>11
    <2>2. QED
      BY <1>2, <1>3, <2>1 DEF Fetch
  <1>13. pc' = [pc EXCEPT ![r] = IF x.last THEN "fetched" ELSE "fetching"]
    BY <1>3, <1>6 DEF FetchOutput
  <1> WITNESS c \in Chunks
  <1>14. /\ Len(fetching[r][1].parts) \in Nat
         /\ Len(fetching'[r][1].parts) = Len(fetching[r][1].parts) + 1
         /\ \A j \in 1..Len(fetching[r][1].parts) : fetching'[r][1].parts[j] = fetching[r][1].parts[j]
         /\ fetching'[r][1].parts[Len(fetching[r][1].parts) + 1] = outputs[c][1]
    BY <1>4, <1>6, <1>8, <1>12
  <1>15. QED
    BY <1>2, <1>3, <1>6, <1>7, <1>11, <1>12, <1>13, <1>14

LEMMA PartsOwnSame ==
  ASSUME PartsOwn, UNCHANGED <<outputs, configs>>,
         \A r \in Readers : (fetching'[r] = fetching[r] /\ (pc'[r] = "fetched" => pc[r] = "fetched"))
                              \/ (fetching'[r] = <<>> /\ pc'[r] # "fetched")
  PROVE  PartsOwn'
BY DEF PartsOwn, OutputsOwn, FetchedOwn, FetchedAll, InHardware

\* The chunk a thread has fetched all parts of.
LEMMA FetchedChunk ==
  ASSUME TypeOK, BuffersHeld, RowsInOrder, NEW r \in Readers, pc[r] \in {"fetching", "fetched"}
  PROVE  \E c \in Chunks : /\ c = <<r, Len(returned[r]) + 1>> /\ fetching[r][1].chunk = c
                            /\ c[1] = r /\ c[2] = Len(returned[r]) + 1 /\ c[2] <= tried[r]
                            /\ fetching[r] # <<>> /\ fetching[r][1].parts \in Seq(Part)
  <1>0. Local(r)
    BY LocalHolds
  <1>1. fetching[r] \in Seq(Fetch) /\ Len(fetching[r]) = 1 /\ fetching[r] # <<>> /\ fetching[r][1] \in Fetch
    BY <1>0 DEF Local
  <1>2. fetching[r][1].chunk \in Chunks /\ fetching[r][1].parts \in Seq(Part)
    BY <1>1 DEF Fetch
  <1>3. fetching[r][1].chunk = <<r, Len(returned[r]) + 1>> /\ Len(returned[r]) + 1 <= tried[r]
    BY <1>1, RowBounds
  <1>4. QED
    BY <1>1, <1>2, <1>3

LEMMA PartsOwnInductive ==
  ASSUME IInv, Counted, RowsInOrder, ConfigsDistinct, PartsOwn, PartsWhole, [Next]_vars
  PROVE  PartsOwn'
  <1>0. TypeOK /\ BuffersHeld /\ TransfersInOrder
    BY DEF IInv
  <1>a. /\ \A c \in Chunks : OutputsOwn(c)
        /\ \A r \in Readers : FetchedOwn(r) /\ FetchedAll(r)
    BY DEF PartsOwn
  <1>1. ASSUME NEW r \in Readers, DecodeColumnChunk(r) PROVE PartsOwn'
    <2>1. PICK new \in Chunks : new = <<r, tried[r] + 1>> /\ \A c : InHardware(c)' <=> InHardware(c) \/ c = new
      BY <1>0, <1>1, OneMoreConfig
    <2>2. UNCHANGED <<outputs, fetching>> /\ \A s \in Readers : pc'[s] = "fetched" => pc[s] = "fetched"
      BY <1>0, <1>1 DEF DecodeColumnChunk, TypeOK
    <2>3. tried[r] \in Nat /\ outputs[new] = <<>>
      BY <1>0, <2>1, RowBounds DEF PartsWhole
    <2>4. ASSUME NEW c \in Chunks PROVE OutputsOwn(c)'
      BY <1>a, <2>1, <2>2, <2>3 DEF OutputsOwn
    <2>5. ASSUME NEW s \in Readers PROVE FetchedOwn(s)' /\ FetchedAll(s)'
      <3>1. FetchedOwn(s)'
        BY <1>a, <2>2 DEF FetchedOwn
      <3>2. ASSUME pc[s] = "fetched" PROVE fetching[s][1].chunk # new
        <4>1. PICK c \in Chunks : fetching[s][1].chunk = c /\ c[1] = s /\ c[2] <= tried[s]
          BY <1>0, <3>2, FetchedChunk
        <4>2. QED
          BY <2>1, <2>3, <4>1
      <3>3. FetchedAll(s)'
        BY <1>a, <2>1, <2>2, <3>2 DEF FetchedAll
      <3>4. QED
        BY <3>1, <3>3
    <2>6. QED
      BY <2>4, <2>5 DEF PartsOwn
  <1>2. ASSUME NEW r \in Readers, NextColumnChunk(r) PROVE PartsOwn'
    <2>1. /\ UNCHANGED <<outputs, configs>> /\ \A s \in Readers \ {r} : fetching'[s] = fetching[s] /\ pc'[s] = pc[s]
          /\ fetching'[r] = <<[chunk |-> Head(queue[r]), parts |-> <<>>]>> /\ pc'[r] = "fetching"
      BY <1>0, <1>2 DEF NextColumnChunk, hw_vars, TypeOK
    <2>2. ASSUME NEW c \in Chunks PROVE OutputsOwn(c)'
      BY <1>a, <2>1 DEF OutputsOwn, InHardware
    <2>3. ASSUME NEW s \in Readers PROVE FetchedOwn(s)' /\ FetchedAll(s)'
      <3>1. CASE s # r
        BY <1>a, <2>1, <3>1 DEF FetchedOwn, FetchedAll, InHardware
      <3>2. CASE s = r
        <4>1. fetching'[r][1].parts = <<>>
          BY <2>1
        <4>2. Len(fetching'[r][1].parts) = 0
          BY <4>1
        <4>3. QED
          BY <2>1, <3>2, <4>2 DEF FetchedOwn, FetchedAll
      <3>3. QED
        BY <3>1, <3>2
    <2>4. QED
      BY <2>2, <2>3 DEF PartsOwn
  <1>3. ASSUME NEW r \in Readers, FetchOutput(r) PROVE PartsOwn'
    <2> DEFINE P == fetching[r][1].parts
    <2>1. PICK c \in Chunks :
            /\ c = <<r, Len(returned[r]) + 1>> /\ fetching[r][1].chunk = c /\ fetching'[r][1].chunk = c
            /\ fetching[r] # <<>> /\ fetching'[r] # <<>> /\ \A s \in Readers \ {r} : fetching'[s] = fetching[s]
            /\ Len(outputs[c]) \in Nat \ {0} /\ Len(outputs'[c]) = Len(outputs[c]) - 1
            /\ \A j \in 1..(Len(outputs[c]) - 1) : outputs'[c][j] = outputs[c][j + 1]
            /\ \A d \in Chunks \ {c} : outputs'[d] = outputs[d]
            /\ Len(P) \in Nat /\ Len(P') = Len(P) + 1
            /\ \A j \in 1..Len(P) : fetching'[r][1].parts[j] = P[j]
            /\ fetching'[r][1].parts[Len(P) + 1] = outputs[c][1]
            /\ pc' = [pc EXCEPT ![r] = IF outputs[c][1].last THEN "fetched" ELSE "fetching"]
      BY <1>0, <1>3, FetchStep
    <2>2. configs' = configs /\ \A d : InHardware(d)' <=> InHardware(d)
      BY <1>3 DEF FetchOutput, InHardware
    <2>3. OutputsOwn(c)
      BY <1>a
    <2>4. OutputsOwn(c)'
      <3> SUFFICES ASSUME NEW j \in 1..Len(outputs'[c])
                   PROVE  /\ outputs'[c][j].conf = c /\ outputs'[c][j].data = c
                          /\ outputs'[c][j].last => j = Len(outputs'[c]) /\ ~InHardware(c)
        BY <2>2 DEF OutputsOwn
      <3>1. j + 1 \in 1..Len(outputs[c]) /\ outputs'[c][j] = outputs[c][j + 1]
        BY <2>1, SMTT(60)
      <3>2. QED
        <4>1. /\ outputs[c][j + 1].conf = c /\ outputs[c][j + 1].data = c
              /\ outputs[c][j + 1].last => j + 1 = Len(outputs[c]) /\ ~InHardware(c)
          BY <2>3, <3>1 DEF OutputsOwn
        <4>2. j + 1 = Len(outputs[c]) => j = Len(outputs'[c])
          BY <2>1
        <4>3. QED
          BY <3>1, <4>1, <4>2
    <2>5. ASSUME NEW d \in Chunks PROVE OutputsOwn(d)'
      <3>1. CASE d # c
        <4>1. OutputsOwn(d) /\ outputs'[d] = outputs[d]
          BY <1>a, <2>1, <3>1
        <4>2. QED
          BY <2>2, <4>1 DEF OutputsOwn
      <3>2. QED
        BY <2>4, <3>1
    <2>6. FetchedOwn(r)'
      <3>1. \A j \in 1..Len(P) : P[j].conf = c /\ P[j].data = c
        BY <1>a, <2>1 DEF FetchedOwn
      <3>2. outputs[c][1].conf = c /\ outputs[c][1].data = c
        <4>1. 1 \in 1..Len(outputs[c])
          BY <2>1
        <4>2. QED
          BY <2>3, <4>1 DEF OutputsOwn
      <3>3. \A j \in 1..(Len(P) + 1) : j \in 1..Len(P) \/ j = Len(P) + 1
        BY <2>1
      <3>4. \A j \in 1..(Len(P) + 1) : fetching'[r][1].parts[j].conf = c /\ fetching'[r][1].parts[j].data = c
        BY <2>1, <3>1, <3>2, <3>3
      <3>5. QED
        BY <2>1, <3>4 DEF FetchedOwn
    <2>7. FetchedAll(r)'
      <3> SUFFICES ASSUME pc'[r] = "fetched" PROVE outputs'[c] = <<>> /\ ~InHardware(c)
        BY <2>1, <2>2 DEF FetchedAll
      <3>1. outputs[c][1].last
        BY <1>0, <2>1 DEF TypeOK
      <3>2. 1 = Len(outputs[c]) /\ ~InHardware(c)
        <4>1. 1 \in 1..Len(outputs[c])
          BY <2>1
        <4>2. QED
          BY <2>3, <3>1, <4>1 DEF OutputsOwn
      <3>3. outputs[c] \in Seq(Part) /\ outputs' = [outputs EXCEPT ![c] = Tail(outputs[c])] /\ DOMAIN outputs = Chunks
        BY <1>0, <1>3, <2>1 DEF FetchOutput, TypeOK
      <3>4. outputs'[c] \in Seq(Part) /\ Len(outputs'[c]) = 0
        <4>1. outputs'[c] = Tail(outputs[c]) /\ Len(outputs[c]) = 1 /\ outputs[c] # <<>>
          <5>1. Len(outputs[c]) > 0
            BY <2>1
          <5>2. QED
            BY <3>2, <3>3, <5>1, LenZero
        <4>2. QED
          BY <3>3, <4>1, TailElements
      <3>5. QED
        BY <3>2, <3>4, LenZero
    <2>8. ASSUME NEW s \in Readers, s # r PROVE FetchedOwn(s)' /\ FetchedAll(s)'
      <3>1. fetching'[s] = fetching[s] /\ pc'[s] = pc[s] /\ FetchedOwn(s) /\ FetchedAll(s)
        BY <1>0, <1>a, <2>1, <2>8 DEF TypeOK
      <3>2. FetchedOwn(s)'
        BY <3>1 DEF FetchedOwn
      <3>3. ASSUME pc[s] = "fetched" PROVE fetching[s][1].chunk \in Chunks \ {c}
        BY <1>0, <2>1, <2>8, <3>3, FetchedChunk
      <3>4. QED
        BY <2>1, <2>2, <3>1, <3>2, <3>3 DEF FetchedAll
    <2>9. QED
      BY <2>5, <2>6, <2>7, <2>8 DEF PartsOwn
  <1>4. ASSUME Decode PROVE PartsOwn'
    <2>1. PICK c \in Chunks : c = configs[1]
      BY <1>0, <1>4, DecodeStep
    <2>2. PICK last \in BOOLEAN : last = dma[1].last
      BY <1>0, <1>4, DecodeStep
    <2>3. /\ outputs' = [outputs EXCEPT ![c] = Append(outputs[c], [conf |-> c, data |-> c, last |-> last])]
          /\ InHardware(c) /\ \A d : InHardware(d)' <=> InHardware(d) /\ ~(last /\ d = c)
      BY <1>0, <1>4, <2>1, <2>2, DecodeStep
    <2>4. UNCHANGED <<pc, fetching>> /\ DOMAIN outputs = Chunks
      BY <1>0, <1>4 DEF Decode, thread_vars, TypeOK
    <2>5. PICK x \in Part : x = [conf |-> c, data |-> c, last |-> last]
      BY DEF Part
    <2>6. outputs'[c] = Append(outputs[c], x) /\ \A d \in Chunks \ {c} : outputs'[d] = outputs[d]
      BY <2>3, <2>4, <2>5
    <2>7. /\ Len(outputs[c]) \in Nat /\ Len(outputs'[c]) = Len(outputs[c]) + 1
          /\ \A j \in 1..Len(outputs[c]) : outputs'[c][j] = outputs[c][j]
          /\ outputs'[c][Len(outputs[c]) + 1] = x
      BY <1>0, <2>6, OutputsInSeq, AppendElements
    <2>8. OutputsOwn(c)'
      <3> SUFFICES ASSUME NEW j \in 1..Len(outputs'[c])
                   PROVE  /\ outputs'[c][j].conf = c /\ outputs'[c][j].data = c
                          /\ outputs'[c][j].last => j = Len(outputs'[c]) /\ ~InHardware(c)'
        BY DEF OutputsOwn
      <3>1. CASE j \in 1..Len(outputs[c])
        BY <1>a, <2>3, <2>7, <3>1 DEF OutputsOwn
      <3>2. CASE j = Len(outputs[c]) + 1
        <4>1. outputs'[c][j] = x /\ x.conf = c /\ x.data = c /\ x.last = last /\ j = Len(outputs'[c])
          BY <2>5, <2>7, <3>2
        <4>2. QED
          BY <2>3, <4>1
      <3>3. QED
        BY <2>7, <3>1, <3>2
    <2>9. ASSUME NEW d \in Chunks PROVE OutputsOwn(d)'
      <3>1. CASE d # c
        BY <1>a, <2>3, <2>6, <3>1 DEF OutputsOwn
      <3>2. QED
        BY <2>8, <3>1
    <2>10. ASSUME NEW s \in Readers PROVE FetchedOwn(s)' /\ FetchedAll(s)'
      <3>1. FetchedOwn(s) /\ FetchedAll(s) /\ (pc[s] = "fetched" => fetching[s][1].chunk \in Chunks)
        BY <1>0, <1>a, FetchedChunk
      <3>2. FetchedOwn(s)'
        BY <2>4, <3>1 DEF FetchedOwn
      <3>3. ASSUME pc[s] = "fetched" PROVE fetching[s][1].chunk \in Chunks \ {c}
        BY <2>3, <3>1, <3>3 DEF FetchedAll
      <3>4. FetchedAll(s)'
        BY <2>3, <2>4, <2>6, <3>1, <3>3 DEF FetchedAll
      <3>5. QED
        BY <3>2, <3>4
    <2>11. QED
      BY <2>9, <2>10 DEF PartsOwn
  <1>5. ASSUME NEW r \in Readers, FinishedDecoding(r) PROVE PartsOwn'
    <2>1. UNCHANGED <<outputs, configs>> /\ \A s \in Readers \ {r} : fetching'[s] = fetching[s] /\ pc'[s] = pc[s]
      BY <1>0, <1>5 DEF FinishedDecoding, hw_vars, TypeOK
    <2>2. fetching'[r] = <<>> /\ pc'[r] # "fetched"
      BY <1>0, <1>5 DEF FinishedDecoding, TypeOK
    <2>3. QED
      BY <2>1, <2>2, PartsOwnSame
  <1>6. ASSUME NEW r \in Readers, GetChunkData(r) \/ InvokeTransfer(r) \/ EnqueueDone(r) PROVE PartsOwn'
    <2>1. UNCHANGED <<outputs, configs, fetching>> /\ \A s \in Readers : pc'[s] = "fetched" => pc[s] = "fetched"
      BY <1>0, <1>6 DEF GetChunkData, InvokeTransfer, EnqueueDone, hw_vars, TypeOK
    <2>2. QED
      BY <2>1, PartsOwnSame
  <1>7. CASE UNCHANGED vars
    BY <1>7, PartsOwnSame DEF vars, thread_vars, hw_vars
  <1>8. QED
    BY <1>1, <1>2, <1>3, <1>4, <1>5, <1>6, <1>7 DEF Next, Done, Thread

-----------------------------------------------------------------------------
(* A chunk has all its parts when the hardware is done with it.            *)

\* A thread's step makes no part and loses none of a chunk that was not returned.
LEMMA ThreadsMakeNothing ==
  ASSUME TypeOK, BuffersHeld, RowsInOrder, NEW r \in Readers, Thread(r),
         NEW c \in Chunks, Len(returned'[c[1]]) < c[2]
  PROVE  Made(c)' = Made(c)
  <1>0. c[1] \in Readers /\ c[2] \in Nat /\ c = <<c[1], c[2]>>
    BY ChunkPair
  <1>1. CASE DecodeColumnChunk(r) \/ GetChunkData(r) \/ InvokeTransfer(r) \/ EnqueueDone(r)
    <2>1. UNCHANGED <<outputs, fetching, returned>>
      BY <1>1 DEF DecodeColumnChunk, GetChunkData, InvokeTransfer, EnqueueDone, hw_vars
    <2>2. QED
      BY <2>1 DEF Made
  <1>2. CASE NextColumnChunk(r)
    <2>1. /\ UNCHANGED <<outputs, returned>> /\ \A s \in Readers \ {r} : fetching'[s] = fetching[s]
          /\ fetching'[r] = <<[chunk |-> Head(queue[r]), parts |-> <<>>]>> /\ pc[r] = "ready"
      BY <1>2 DEF NextColumnChunk, hw_vars, TypeOK
    <2>2. fetching[r] = <<>>
      BY <2>1, RowBounds
    <2>3. Len(fetching'[r][1].parts) = 0
      BY <2>1
    <2>4. Len(outputs[c]) \in Nat
      BY OutputsInSeq
    <2>5. CASE c[1] = r
      BY <2>1, <2>2, <2>3, <2>4, <2>5 DEF Made
    <2>6. CASE c[1] # r
      BY <1>0, <2>1, <2>6 DEF Made
    <2>7. QED
      BY <2>5, <2>6
  <1>3. CASE FetchOutput(r)
    <2>1. PICK d \in Chunks :
            /\ d = <<r, Len(returned[r]) + 1>>
            /\ fetching[r] # <<>> /\ fetching'[r] # <<>> /\ \A s \in Readers \ {r} : fetching'[s] = fetching[s]
            /\ Len(outputs[d]) \in Nat \ {0} /\ Len(outputs'[d]) = Len(outputs[d]) - 1
            /\ \A e \in Chunks \ {d} : outputs'[e] = outputs[e]
            /\ Len(fetching[r][1].parts) \in Nat
            /\ Len(fetching'[r][1].parts) = Len(fetching[r][1].parts) + 1
      BY <1>3, FetchStep
    <2>2. returned' = returned
      BY <1>3 DEF FetchOutput
    <2>3. CASE c = d
      <3>1. c[1] = r /\ c[2] = Len(returned[r]) + 1
        BY <2>1, <2>3
      <3>2. /\ Made(c) = Len(outputs[d]) + Len(fetching[r][1].parts)
            /\ Made(c)' = Len(outputs'[d]) + Len(fetching'[r][1].parts)
        BY <2>1, <2>2, <2>3, <3>1 DEF Made
      <3>3. \A a, b \in Nat : (a - 1) + (b + 1) = a + b
        OBVIOUS
      <3>4. QED
        BY <2>1, <3>2, <3>3
    <2>4. CASE c # d
      <3>1. outputs'[c] = outputs[c] /\ (c[1] = r => c[2] # Len(returned[r]) + 1)
        BY <1>0, <2>1, <2>4
      <3>2. QED
        BY <1>0, <2>1, <2>2, <3>1 DEF Made
    <2>5. QED
      BY <2>3, <2>4
  <1>4. CASE FinishedDecoding(r)
    <2>1. /\ outputs' = outputs /\ fetching'[r] = <<>>
          /\ \A s \in Readers \ {r} : fetching'[s] = fetching[s] /\ returned'[s] = returned[s]
          /\ returned'[r] = returned[r] \o fetching[r] /\ pc[r] = "fetched"
      BY <1>4 DEF FinishedDecoding, hw_vars, TypeOK
    <2>2. CASE c[1] = r
      <3>1. Local(r) /\ Len(fetching[r]) = 1 /\ Len(returned[r]) \in Nat
        BY <2>1, LocalHolds, RowBounds DEF Local
      <3>2. Len(returned[r] \o fetching[r]) = Len(returned[r]) + Len(fetching[r])
        BY <3>1, ConcatProperties DEF Local
      <3>3. c[2] # Len(returned[r]) + 1
        <4>1. Len(returned[r]) + 1 < c[2]
          BY <2>1, <2>2, <3>1, <3>2
        <4>2. QED
          BY <1>0, <3>1, <4>1
      <3>4. QED
        BY <2>1, <2>2, <3>3 DEF Made
    <2>3. CASE c[1] # r
      BY <1>0, <2>1, <2>3 DEF Made
    <2>4. QED
      BY <2>2, <2>3
  <1>5. QED
    BY <1>1, <1>2, <1>3, <1>4 DEF Thread

\* The hardware makes one part of its first chunk, and none of the others.
LEMMA DecodeMakes ==
  ASSUME IInv, RowsInOrder, ConfigsDistinct, Decode
  PROVE  /\ Made(configs[1]) \in Nat
         /\ \A c \in Chunks : Made(c)' = IF c = configs[1] THEN Made(c) + 1 ELSE Made(c)
  <1>0. TypeOK /\ BuffersHeld /\ TransfersInOrder
    BY DEF IInv
  <1>1. UNCHANGED <<fetching, returned>> /\ DOMAIN outputs = Chunks
    BY <1>0 DEF Decode, thread_vars, TypeOK
  <1>2. PICK h \in Chunks, x \in Part : h = configs[1] /\ outputs' = [outputs EXCEPT ![h] = Append(outputs[h], x)]
    <2>1. configs[1] \in Chunks /\ dma[1].last \in BOOLEAN
      BY <1>0, DecodeStep
    <2>2. [conf |-> configs[1], data |-> configs[1], last |-> dma[1].last] \in Part
      BY <2>1 DEF Part
    <2>3. QED
      BY <1>0, <2>1, <2>2, DecodeStep
  <1>3. /\ Len(outputs[h]) \in Nat /\ Len(outputs'[h]) = Len(outputs[h]) + 1
        /\ \A c \in Chunks \ {h} : outputs'[c] = outputs[c]
    BY <1>0, <1>1, <1>2, OutputsInSeq, AppendElements
  <1>4. fetching[h[1]] # <<>> => Len(fetching[h[1]][1].parts) \in Nat
    <2>1. h[1] \in Readers
      BY ChunkPair
    <2>2. ASSUME fetching[h[1]] # <<>> PROVE Len(fetching[h[1]][1].parts) \in Nat
      <3>1. pc[h[1]] \in {"fetching", "fetched"}
        BY <1>0, <2>1, <2>2, RowBounds
      <3>2. fetching[h[1]][1].parts \in Seq(Part)
        BY <1>0, <2>1, <3>1, FetchedChunk
      <3>3. QED
        BY <3>2, LenZero
    <2>3. QED
      BY <2>2
  <1>5. Made(h) \in Nat /\ Made(h)' = Made(h) + 1
    <2> DEFINE rest == IF fetching[h[1]] # <<>> /\ h[2] = Len(returned[h[1]]) + 1
                       THEN Len(fetching[h[1]][1].parts) ELSE 0
    <2>1. rest \in Nat
      BY <1>4
    <2>2. Made(h) = Len(outputs[h]) + rest /\ Made(h)' = Len(outputs'[h]) + rest
      BY <1>1 DEF Made
    <2> HIDE DEF rest
    <2>3. QED
      BY <1>3, <2>1, <2>2
  <1>6. ASSUME NEW c \in Chunks, c # h PROVE Made(c)' = Made(c)
    BY <1>1, <1>3, <1>6 DEF Made
  <1>7. QED
    BY <1>2, <1>5, <1>6

\* The numbers the hardware's first chunk is counted by.
LEMMA FirstNumbers ==
  ASSUME TypeOK, TransfersInOrder, ConfigsDistinct, Decode, NEW n \in [1..(Len(dma) + 1) -> 0..Transfers], Numbers(n)
  PROVE  /\ n[1] = Made(configs[1]) /\ n[1] < Transfers /\ (dma[1].last <=> n[1] + 1 = Transfers)
         /\ n[2] = IF dma[1].last THEN 0 ELSE n[1] + 1
  <1>1. Len(dma) \in Nat \ {0} /\ Len(configs) \in Nat \ {0}
    BY DecodeStep
  <1>2. 1 \in 1..Len(dma) /\ configs # <<>>
    BY <1>1, LenZero DEF TypeOK
  <1>3. QED
    BY <1>2 DEF Numbers

LEMMA PartsWholeInductive ==
  ASSUME IInv, Counted, RowsInOrder, ConfigsDistinct, PartsWhole, TransfersCounted, [Next]_vars
  PROVE  PartsWhole'
  <1>0. TypeOK /\ BuffersHeld /\ TransfersInOrder
    BY DEF IInv
  <1>1. ASSUME NEW r \in Readers, Thread(r) PROVE PartsWhole'
    <2> SUFFICES ASSUME NEW c \in Chunks
                 PROVE  /\ Pending(c)' /\ ~InHardware(c)' => Made(c)' = Transfers
                        /\ c[2] > tried'[c[1]] => outputs'[c] = <<>>
      BY DEF PartsWhole
    <2>0. c[1] \in Readers /\ c[2] \in Nat /\ c = <<c[1], c[2]>> /\ tried[c[1]] \in Nat
      BY <1>0, ChunkPair, RowBounds
    <2>1. Len(returned[c[1]]) \in Nat /\ Len(returned'[c[1]]) \in Nat /\ Len(returned[c[1]]) <= Len(returned'[c[1]])
      <3>1. CASE FinishedDecoding(r) /\ c[1] = r
        <4>1. returned'[r] = returned[r] \o fetching[r] /\ Local(r) /\ Lengths(r)
          BY <1>0, <3>1, LocalHolds DEF FinishedDecoding, TypeOK
        <4>2. Len(returned[r] \o fetching[r]) = Len(returned[r]) + Len(fetching[r])
          BY <4>1, ConcatProperties DEF Local
        <4>3. Len(returned[r]) \in Nat /\ Len(fetching[r]) \in Nat
          BY <4>1 DEF Lengths
        <4>4. Len(returned'[r]) = Len(returned[r]) + Len(fetching[r])
          BY <4>1, <4>2
        <4>5. \A a, b \in Nat : a + b \in Nat /\ a <= a + b
          OBVIOUS
        <4>6. Len(returned'[r]) \in Nat /\ Len(returned[r]) <= Len(returned'[r])
          BY <4>3, <4>4, <4>5
        <4>7. QED
          BY <3>1, <4>3, <4>6
      <3>2. CASE ~(FinishedDecoding(r) /\ c[1] = r)
        <4>1. returned'[c[1]] = returned[c[1]]
          BY <1>0, <1>1, <2>0, <3>2 DEF Thread, DecodeColumnChunk, GetChunkData, InvokeTransfer, EnqueueDone,
             NextColumnChunk, FetchOutput, FinishedDecoding, TypeOK
        <4>2. QED
          BY <1>0, <2>0, <4>1, RowBounds
      <3>3. QED
        BY <3>1, <3>2
    <2>2. CASE DecodeColumnChunk(r)
      <3>1. /\ outputs' = outputs /\ tried' = [tried EXCEPT ![r] = tried[r] + 1] /\ DOMAIN tried = Readers
            /\ returned' = returned
        BY <1>0, <2>2 DEF DecodeColumnChunk, TypeOK
      <3>2. ASSUME Pending(c)', ~InHardware(c)' PROVE Made(c)' = Transfers
        <4>1. c # <<r, tried[r] + 1>> /\ ~InHardware(c)
          BY <1>0, <2>2, <3>2, OneMoreConfig
        <4>2. Pending(c)
          BY <2>0, <3>1, <3>2, <4>1 DEF Pending
        <4>3. QED
          BY <1>0, <1>1, <3>2, <4>1, <4>2, ThreadsMakeNothing DEF PartsWhole, Pending
      <3>3. ASSUME c[2] > tried'[c[1]] PROVE c[2] > tried[c[1]]
        BY <2>0, <3>1, <3>3
      <3>4. QED
        BY <3>1, <3>2, <3>3 DEF PartsWhole
    <2>3. CASE ~DecodeColumnChunk(r)
      <3>1. UNCHANGED <<tried, configs>>
        BY <1>1, <2>3 DEF Thread, GetChunkData, InvokeTransfer, EnqueueDone, NextColumnChunk, FetchOutput,
           FinishedDecoding, hw_vars
      <3>2. ASSUME Pending(c)', ~InHardware(c)' PROVE Made(c)' = Transfers
        <4>1. Pending(c) /\ ~InHardware(c)
          BY <2>0, <2>1, <3>1, <3>2 DEF Pending, InHardware
        <4>2. QED
          BY <1>0, <1>1, <3>2, <4>1, ThreadsMakeNothing DEF PartsWhole, Pending
      <3>3. ASSUME c[2] > tried'[c[1]] PROVE outputs'[c] = <<>>
        <4>1. outputs[c] = <<>>
          BY <3>1, <3>3 DEF PartsWhole
        <4>2. CASE FetchOutput(r)
          <5>1. PICK d \in Chunks : Len(outputs[d]) \in Nat \ {0} /\ \A e \in Chunks \ {d} : outputs'[e] = outputs[e]
            BY <1>0, <4>2, FetchStep
          <5>2. Len(outputs[c]) = 0
            BY <4>1
          <5>3. QED
            BY <4>1, <5>1, <5>2
        <4>3. CASE ~FetchOutput(r)
          BY <1>1, <2>3, <4>1, <4>3 DEF Thread, GetChunkData, InvokeTransfer, EnqueueDone, NextColumnChunk,
             FinishedDecoding, hw_vars
        <4>4. QED
          BY <4>2, <4>3
      <3>4. QED
        BY <3>2, <3>3
    <2>4. QED
      BY <2>2, <2>3
  <1>2. CASE Decode
    <2> SUFFICES ASSUME NEW c \in Chunks
                 PROVE  /\ Pending(c)' /\ ~InHardware(c)' => Made(c)' = Transfers
                        /\ c[2] > tried'[c[1]] => outputs'[c] = <<>>
      BY DEF PartsWhole
    <2>1. UNCHANGED <<tried, returned>> /\ DOMAIN outputs = Chunks
      BY <1>0, <1>2 DEF Decode, thread_vars, TypeOK
    <2>2. CASE c # configs[1]
      <3>1. Made(c)' = Made(c) /\ (InHardware(c)' <=> InHardware(c)) /\ outputs'[c] = outputs[c]
        BY <1>0, <1>2, <2>1, <2>2, DecodeStep, DecodeMakes
      <3>2. QED
        BY <2>1, <3>1 DEF PartsWhole, Pending
    <2>3. CASE c = configs[1]
      <3>1. ~(c[2] > tried[c[1]])
        <4>1. Pending(c)
          BY <1>0, <1>2, <2>3, DecodeStep DEF ConfigsDistinct
        <4>2. c[2] \in Nat /\ tried[c[1]] \in Nat
          BY <1>0, ChunkPair, RowBounds
        <4>3. QED
          BY <4>1, <4>2 DEF Pending
      <3>2. ASSUME ~InHardware(c)' PROVE Made(c)' = Transfers
        <4>1. dma[1].last
          BY <1>0, <1>2, <2>3, <3>2, DecodeStep
        <4>2. PICK n \in [1..(Len(dma) + 1) -> 0..Transfers] : Numbers(n)
          BY DEF TransfersCounted
        <4>3. Made(c) + 1 = Transfers
          BY <1>0, <1>2, <2>3, <4>1, <4>2, FirstNumbers
        <4>4. QED
          BY <1>2, <2>3, <4>3, DecodeMakes
      <3>3. QED
        BY <2>1, <3>1, <3>2
    <2>4. QED
      BY <2>2, <2>3
  <1>3. CASE UNCHANGED vars
    BY <1>3 DEF vars, thread_vars, hw_vars, PartsWhole, Pending, InHardware, Made
  <1>4. QED
    BY <1>1, <1>2, <1>3 DEF Next, Done

-----------------------------------------------------------------------------
(* The transfers are counted: the last of a chunk is its last.             *)

LEMMA StartedValue ==
  ASSUME TypeOK, MutexHeld
  PROVE  /\ AllSent => Started = 0
         /\ \A r \in Readers : pc[r] = "configured" => Started = 0
         /\ \A r \in Readers : pc[r] = "sending" /\ sent[r] < Transfers => Started = sent[r]
  <1>1. ASSUME NEW r \in Readers, pc[r] = "configured" PROVE Started = 0
    <2>1. mtx = r
      BY <1>1 DEF MutexHeld
    <2>2. QED
      BY <1>1, <2>1 DEF Started
  <1>2. ASSUME NEW r \in Readers, pc[r] = "sending", sent[r] < Transfers PROVE Started = sent[r]
    <2>1. mtx = r /\ mtx # Nobody /\ sent[r] # Transfers
      BY <1>2, NobodyAssumption, SizesInNat DEF MutexHeld
    <2>2. QED
      BY <1>2, <2>1 DEF Started, AllSent
  <1>3. QED
    BY <1>1, <1>2 DEF Started

\* A step that neither starts nor reads a transfer.
LEMMA SameCount ==
  ASSUME IInv, ConfigsDistinct, TransfersCounted, ConfigsDistinct', TypeOK', UNCHANGED <<configs, dma>>, Started' = Started,
         \A c \in Chunks : Pending(c)' => Made(c)' = Made(c)
  PROVE  TransfersCounted'
  <1>1. PICK n \in [1..(Len(dma) + 1) -> 0..Transfers] : Numbers(n)
    BY DEF TransfersCounted
  <1>2. ASSUME NEW j \in 1..Len(configs) PROVE Made(configs[j])' = Made(configs[j])
    <2>1. configs[j] \in Chunks /\ configs'[j] = configs[j]
      BY ConfigsInChunks DEF IInv
    <2>2. PICK c \in Chunks : c = configs[j] /\ c = configs'[j]
      BY <2>1
    <2>3. Pending(c)'
      BY <2>2 DEF ConfigsDistinct, Pending
    <2>4. Made(c)' = Made(c)
      BY <2>3
    <2>5. QED
      BY <2>2, <2>4 DEF Made
  <1>3. configs # <<>> => 1 \in 1..Len(configs)
    BY LenZero DEF IInv, TypeOK
  <1>4. n[1] = IF configs' = <<>> THEN 0 ELSE Made(configs[1])'
    BY <1>1, <1>2, <1>3 DEF Numbers
  <1>5. Numbers(n)'
    BY <1>1, <1>4 DEF Numbers
  <1>6. \A j \in 2..Len(configs') : Made(configs[j])' = 0
    <2> TAKE j \in 2..Len(configs')
    <2>1. j \in 1..Len(configs) /\ j \in 2..Len(configs)
      BY ConfigsInChunks DEF IInv
    <2>2. QED
      BY <1>2, <2>1 DEF TransfersCounted
  <1>7. QED
    BY <1>5, <1>6 DEF TransfersCounted

LEMMA DecodeColumnChunkCount ==
  ASSUME IInv, Counted, RowsInOrder, ConfigsDistinct, PartsWhole, TransfersCounted, ConfigsDistinct', IInv',
         NEW r \in Readers, DecodeColumnChunk(r)
  PROVE  TransfersCounted'
  <1>0. TypeOK /\ BuffersHeld /\ MutexHeld /\ TypeOK' /\ MutexHeld' /\ TransfersInOrder
    BY DEF IInv
  <1>1. PICK n \in [1..(Len(dma) + 1) -> 0..Transfers] : Numbers(n)
    BY DEF TransfersCounted
  <1>2. AllSent /\ pc'[r] = "configured" /\ UNCHANGED <<dma, outputs, fetching, returned>>
    BY <1>0 DEF DecodeColumnChunk, Locked, AllSent, TypeOK
  <1>3. Started = 0
    BY <1>0, <1>2, StartedValue
  <1>4. Started' = 0
    BY <1>0, <1>2 DEF Started, AllSent, MutexHeld
  <1>5. \A c : Made(c)' = Made(c)
    BY <1>2 DEF Made
  <1>6. PICK new \in Chunks : new = <<r, tried[r] + 1>> /\ configs'[Len(configs) + 1] = new
    BY <1>0, OneMoreConfig
  <1>7. Made(new) = 0
    <2>1. tried[r] \in Nat /\ new[1] = r /\ new[2] = tried[r] + 1
      BY <1>0, <1>6, RowBounds
    <2>2. outputs[new] = <<>>
      BY <2>1 DEF PartsWhole
    <2>3. fetching[r] = <<>>
      BY <1>0, RowBounds DEF DecodeColumnChunk
    <2>4. QED
      BY <2>1, <2>2, <2>3 DEF Made
  <1>8. /\ Len(configs) \in Nat /\ Len(dma) \in Nat /\ Len(configs') = Len(configs) + 1
        /\ \A i \in 1..Len(configs) : configs'[i] = configs[i]
    BY <1>0, OneMoreConfig, ConfigsInChunks
  <1>9. n[1] = IF configs' = <<>> THEN 0 ELSE Made(configs[1])'
    <2>1. configs' # <<>>
      <3>1. Len(configs') # 0
        BY <1>8
      <3>2. QED
        BY <3>1
    <2>2. CASE configs = <<>>
      <3>1. Len(configs) = 0 /\ n[1] = 0
        BY <1>1, <2>2 DEF Numbers
      <3>2. configs'[1] = new
        BY <1>6, <3>1
      <3>3. QED
        BY <1>5, <1>7, <2>1, <3>1, <3>2 DEF Made
    <2>3. CASE configs # <<>>
      <3>1. 1 \in 1..Len(configs)
        BY <1>0, <2>3, LenZero DEF TypeOK
      <3>2. configs'[1] = configs[1] /\ n[1] = Made(configs[1])
        BY <1>1, <1>8, <2>3, <3>1 DEF Numbers
      <3>3. QED
        BY <1>2, <2>1, <3>2 DEF Made
    <2>4. QED
      BY <2>2, <2>3
  <1>10. Numbers(n)'
    BY <1>1, <1>2, <1>3, <1>4, <1>9 DEF Numbers
  <1>11. \A j \in 2..Len(configs') : Made(configs[j])' = 0
    <2> TAKE j \in 2..Len(configs')
    <2>1. CASE j = Len(configs) + 1
      BY <1>2, <1>6, <1>7, <2>1 DEF Made
    <2>2. CASE j # Len(configs) + 1
      <3>1. j \in 2..Len(configs) /\ configs'[j] = configs[j]
        BY <1>8, <2>2
      <3>2. Made(configs[j]) = 0
        BY <3>1 DEF TransfersCounted
      <3>3. QED
        BY <1>2, <3>1, <3>2 DEF Made
    <2>3. QED
      BY <2>1, <2>2
  <1>12. QED
    BY <1>2, <1>10, <1>11 DEF TransfersCounted

LEMMA InvokeTransferCount ==
  ASSUME IInv, Counted, TransfersCounted, IInv', NEW r \in Readers, InvokeTransfer(r)
  PROVE  TransfersCounted'
  <1>0. TypeOK /\ MutexHeld /\ TypeOK' /\ MutexHeld'
    BY DEF IInv
  <1> DEFINE m == Len(dma) + 1
             last == sent[r] + 1 = Transfers
  <1>1. PICK n \in [1..m -> 0..Transfers] : Numbers(n)
    BY DEF TransfersCounted
  <1>2. PICK k \in [1..(m + 1) -> 0..Transfers] :
          k = [i \in 1..(m + 1) |-> IF i <= m THEN n[i] ELSE IF last THEN 0 ELSE sent[r] + 1]
    <2>1. sent[r] \in 0..Transfers /\ sent[r] < Transfers /\ m \in Nat
      BY <1>0, ConfigsInChunks DEF InvokeTransfer, TypeOK
    <2>2. 0 \in 0..Transfers /\ sent[r] + 1 \in 0..Transfers
      BY <2>1, SizesInNat
    <2>3. \A i \in 1..(m + 1) : i <= m => i \in 1..m
      BY <2>1
    <2>4. QED
      BY <2>2, <2>3
  <1>3. /\ sent[r] \in Nat /\ sent[r] < Transfers /\ pc[r] = "sending" /\ pc' = pc /\ mtx' = mtx
        /\ sent'[r] = sent[r] + 1 /\ UNCHANGED <<configs, outputs, fetching, returned>>
    BY <1>0, SizesInNat DEF InvokeTransfer, TypeOK
  <1>4. Started = sent[r] /\ mtx = r
    BY <1>0, <1>3, StartedValue DEF MutexHeld
  <1>5. Started' = IF last THEN 0 ELSE sent[r] + 1
    <2>1. mtx # Nobody
      BY <1>4, NobodyAssumption
    <2>2. QED
      BY <1>3, <1>4, <2>1 DEF Started, AllSent
  <1>6. /\ Len(dma) \in Nat /\ Len(dma') = m /\ \A i \in 1..Len(dma) : dma'[i] = dma[i]
        /\ dma'[m].last <=> last
    <2>1. Current(r) \in Chunks /\ LastTransfer(r) \in BOOLEAN /\ (LastTransfer(r) <=> last)
      BY <1>0, <1>3, CurrentChunk, SizesInNat DEF Counted, LastTransfer
    <2>2. [chunk |-> Current(r), last |-> LastTransfer(r)] \in [chunk : Chunks, last : BOOLEAN]
      BY <2>1
    <2>3. dma \in Seq([chunk : Chunks, last : BOOLEAN]) /\ dma' = Append(dma, [chunk |-> Current(r), last |-> LastTransfer(r)])
      BY <1>0 DEF InvokeTransfer, TypeOK
    <2>4. Len(dma') = m /\ (\A i \in 1..Len(dma) : dma'[i] = dma[i])
          /\ dma'[m] = [chunk |-> Current(r), last |-> LastTransfer(r)]
      BY <2>2, <2>3, AppendElements
    <2>5. QED
      BY <1>0, <2>1, <2>4, ConfigsInChunks
  <1>7. /\ \A i \in 1..Len(dma) : /\ n[i] < Transfers /\ (dma[i].last <=> n[i] + 1 = Transfers)
                                /\ n[i + 1] = IF dma[i].last THEN 0 ELSE n[i] + 1
        /\ n[m] = sent[r] /\ n[1] = IF configs = <<>> THEN 0 ELSE Made(configs[1])
    BY <1>1, <1>4 DEF Numbers
  <1>8. /\ m \in Nat \ {0} /\ k[m + 1] = (IF last THEN 0 ELSE sent[r] + 1)
        /\ \A i \in 1..m : k[i] = n[i]
    BY <1>2, <1>6
  <1>9. \A i \in 1..m : /\ k[i] < Transfers /\ (dma'[i].last <=> k[i] + 1 = Transfers)
                         /\ k[i + 1] = IF dma'[i].last THEN 0 ELSE k[i] + 1
    <2> TAKE i \in 1..m
    <2>1. CASE i = m
      BY <1>3, <1>6, <1>7, <1>8, <2>1
    <2>2. CASE i # m
      <3>1. i \in 1..Len(dma) /\ i + 1 \in 1..m
        BY <1>6, <2>2
      <3>2. QED
        BY <1>6, <1>7, <1>8, <3>1
    <2>3. QED
      BY <2>1, <2>2
  <1>10. k[1] = IF configs' = <<>> THEN 0 ELSE Made(configs[1])'
    <2>1. k[1] = n[1]
      BY <1>8
    <2>2. QED
      BY <1>3, <1>7, <2>1 DEF Made
  <1>11. Numbers(k)'
    BY <1>5, <1>6, <1>8, <1>9, <1>10 DEF Numbers
  <1>12. \A j \in 2..Len(configs') : Made(configs[j])' = 0
    BY <1>3 DEF TransfersCounted, Made
  <1>13. QED
    BY <1>6, <1>11, <1>12 DEF TransfersCounted

LEMMA DecodeCount ==
  ASSUME IInv, RowsInOrder, ConfigsDistinct, TransfersCounted, Decode
  PROVE  TransfersCounted'
  <1>0. TypeOK /\ BuffersHeld /\ TransfersInOrder
    BY DEF IInv
  <1> DEFINE m == Len(dma)
             last == dma[1].last
  <1>1. PICK n \in [1..(m + 1) -> 0..Transfers] : Numbers(n)
    BY DEF TransfersCounted
  <1>2. /\ m \in Nat \ {0} /\ Len(dma') = m - 1 /\ \A i \in 1..(m - 1) : dma'[i] = dma[i + 1]
        /\ Len(configs) \in Nat \ {0} /\ last \in BOOLEAN /\ (~last => configs' = configs)
        /\ last => /\ Len(configs') = Len(configs) - 1
                   /\ \A i \in 1..(Len(configs) - 1) : configs'[i] = configs[i + 1]
    BY <1>0, DecodeStep
  <1>3. PICK k \in [1..m -> 0..Transfers] : k = [i \in 1..m |-> n[i + 1]]
    <2>1. \A i \in 1..m : i + 1 \in 1..(m + 1)
      BY <1>2
    <2>2. \A i \in 1..m : n[i + 1] \in 0..Transfers
      BY <2>1
    <2>3. QED
      BY <2>2
  <1>4. Started' = Started
    BY DEF Decode, thread_vars, Started, AllSent
  <1>5. /\ \A i \in 1..m : /\ n[i] < Transfers /\ (dma[i].last <=> n[i] + 1 = Transfers)
                           /\ n[i + 1] = IF dma[i].last THEN 0 ELSE n[i] + 1
        /\ n[m + 1] = Started
    BY <1>1 DEF Numbers
  <1>6. \A i \in 1..(m - 1) : /\ k[i] < Transfers /\ (dma'[i].last <=> k[i] + 1 = Transfers)
                              /\ k[i + 1] = IF dma'[i].last THEN 0 ELSE k[i] + 1
    <2> TAKE i \in 1..(m - 1)
    <2>1. i \in 1..m /\ i + 1 \in 1..m
      BY <1>2
    <2>2. k[i] = n[i + 1] /\ k[i + 1] = n[(i + 1) + 1] /\ dma'[i] = dma[i + 1]
      BY <1>2, <1>3, <2>1
    <2>3. QED
      BY <1>5, <2>1, <2>2
  <1>7. k[m] = Started'
    BY <1>2, <1>3, <1>4, <1>5
  <1>8. ASSUME NEW j \in 2..Len(configs) PROVE configs[j] \in Chunks /\ configs[j] # configs[1] /\ Made(configs[j]) = 0
    <2>1. j \in 1..Len(configs) /\ 1 \in 1..Len(configs) /\ j # 1
      BY <1>2
    <2>2. QED
      BY <1>0, <2>1, ConfigsInChunks DEF ConfigsDistinct, TransfersCounted
  <1>9. \A c \in Chunks : Made(c)' = IF c = configs[1] THEN Made(c) + 1 ELSE Made(c)
    BY DecodeMakes
  <1>10. n[1] = Made(configs[1]) /\ n[2] = (IF last THEN 0 ELSE n[1] + 1) /\ k[1] = n[2]
    BY <1>0, <1>1, <1>2, <1>3, FirstNumbers
  <1>11. CASE last
    <2>1. \A j \in 1..Len(configs') : Made(configs[j])' = 0
      <3> TAKE j \in 1..Len(configs')
      <3>1. j + 1 \in 2..Len(configs) /\ configs'[j] = configs[j + 1]
        BY <1>2, <1>11
      <3>2. PICK c \in Chunks : c = configs'[j] /\ c # configs[1] /\ Made(c) = 0
        BY <1>8, <3>1
      <3>3. Made(c)' = 0
        BY <1>9, <3>2
      <3>4. QED
        BY <3>2, <3>3 DEF Made
    <2>2. Len(configs') \in Nat /\ (configs' # <<>> => 1 \in 1..Len(configs'))
      <3>1. Len(configs') \in Nat
        BY <1>2, <1>11
      <3>2. configs' \in Seq(Chunks)
        <4>1. configs \in Seq(Chunks) /\ configs # <<>>
          BY <1>0 DEF Decode, TypeOK
        <4>2. Tail(configs) \in Seq(Chunks)
          BY <4>1, TailElements
        <4>3. QED
          BY <4>1, <4>2 DEF Decode
      <3>3. QED
        BY <3>1, <3>2, LenZero
    <2>3. k[1] = IF configs' = <<>> THEN 0 ELSE Made(configs[1])'
      BY <1>10, <1>11, <2>1, <2>2
    <2>4. \A j \in 2..Len(configs') : Made(configs[j])' = 0
      <3>1. \A j \in 2..Len(configs') : j \in 1..Len(configs')
        BY <2>2
      <3>2. QED
        BY <2>1, <3>1
    <2>5. Len(dma') + 1 = m
      BY <1>2
    <2>6. Numbers(k)'
      BY <1>2, <1>6, <1>7, <2>3, <2>5 DEF Numbers
    <2>7. QED
      BY <2>4, <2>5, <2>6 DEF TransfersCounted
  <1>12. CASE ~last
    <2>0. configs' = configs /\ configs # <<>> /\ 1 \in 1..Len(configs)
      BY <1>2, <1>12 DEF Decode
    <2>1. PICK c \in Chunks : c = configs[1] /\ c = configs'[1]
      BY <1>0, <2>0, ConfigsInChunks
    <2>2. Made(c)' = Made(c) + 1 /\ k[1] = Made(c) + 1
      BY <1>9, <1>10, <1>12, <2>1
    <2>3. k[1] = IF configs' = <<>> THEN 0 ELSE Made(configs[1])'
      BY <2>0, <2>1, <2>2 DEF Made
    <2>4. \A j \in 2..Len(configs') : Made(configs[j])' = 0
      <3> TAKE j \in 2..Len(configs')
      <3>1. PICK d \in Chunks : d = configs'[j] /\ d # configs[1] /\ Made(d) = 0
        BY <1>8, <2>0
      <3>2. Made(d)' = 0
        BY <1>9, <3>1
      <3>3. QED
        BY <3>1, <3>2 DEF Made
    <2>5. Len(dma') + 1 = m
      BY <1>2
    <2>6. Numbers(k)'
      BY <1>2, <1>6, <1>7, <2>3, <2>5 DEF Numbers
    <2>7. QED
      BY <2>4, <2>5, <2>6 DEF TransfersCounted
  <1>13. QED
    BY <1>11, <1>12

LEMMA CountInductive ==
  ASSUME IInv, Counted, RowsInOrder, ConfigsDistinct, PartsWhole, TransfersCounted, ConfigsDistinct', IInv', [Next]_vars
  PROVE  TransfersCounted'
  <1> USE NobodyAssumption
  <1>0. TypeOK /\ BuffersHeld /\ MutexHeld /\ TypeOK' /\ MutexHeld'
    BY DEF IInv
  <1>1. ASSUME NEW r \in Readers, GetChunkData(r) \/ EnqueueDone(r) \/ NextColumnChunk(r) \/ FetchOutput(r) \/ FinishedDecoding(r)
        PROVE  TransfersCounted'
    <2>1. UNCHANGED <<configs, dma>>
      BY <1>1 DEF GetChunkData, EnqueueDone, NextColumnChunk, FetchOutput, FinishedDecoding, hw_vars
    <2>2. ASSUME GetChunkData(r) PROVE Started' = Started
      <3>1. pc[r] = "configured" /\ pc'[r] = "sending" /\ sent'[r] = 0 /\ mtx' = mtx /\ mtx = r
        BY <1>0, <2>2 DEF GetChunkData, TypeOK, MutexHeld
      <3>2. Started = 0
        BY <1>0, <3>1, StartedValue
      <3>3. Started' = 0
        BY <3>1 DEF Started
      <3>4. QED
        BY <3>2, <3>3
    <2>3. ASSUME EnqueueDone(r) PROVE Started' = Started
      <3>1. AllSent /\ AllSent'
        BY <1>0, <2>3 DEF EnqueueDone, MutexHeld, AllSent
      <3>2. QED
        BY <3>1 DEF Started
    <2>4. ASSUME NextColumnChunk(r) \/ FetchOutput(r) \/ FinishedDecoding(r) PROVE Started' = Started
      <3>1. mtx # r /\ UNCHANGED <<mtx, sent>>
        BY <1>0, <2>4 DEF NextColumnChunk, FetchOutput, FinishedDecoding, MutexHeld
      <3>2. PICK step : pc' = [pc EXCEPT ![r] = step]
        BY <2>4 DEF NextColumnChunk, FetchOutput, FinishedDecoding
      <3>3. pc'[mtx] = pc[mtx] \/ mtx = Nobody
        BY <1>0, <3>1, <3>2 DEF TypeOK
      <3>4. QED
        BY <3>1, <3>3 DEF Started, AllSent
    <2>5. Started' = Started
      BY <1>1, <2>2, <2>3, <2>4
    <2>6. \A c \in Chunks : Pending(c)' => Made(c)' = Made(c)
      BY <1>0, <1>1, ThreadsMakeNothing DEF Thread, Pending
    <2>7. QED
      BY <1>0, <2>1, <2>5, <2>6, SameCount
  <1>2. CASE UNCHANGED vars
    <2>1. UNCHANGED <<configs, dma, fetching, outputs, returned, mtx, pc, sent>>
      BY <1>2 DEF vars, thread_vars, hw_vars
    <2>2. Started' = Started /\ \A c : Made(c)' = Made(c)
      BY <2>1 DEF Started, AllSent, Made
    <2>3. QED
      BY <1>0, <2>1, <2>2, SameCount
  <1>3. QED
    BY <1>1, <1>2, DecodeColumnChunkCount, InvokeTransferCount, DecodeCount DEF Next, Thread, Done

-----------------------------------------------------------------------------
(* The whole invariant.                                                    *)

SharedInv == /\ IInv /\ Counted
             /\ RowsInOrder /\ ConfigsDistinct /\ NotSent
             /\ PartsOwn /\ PartsWhole /\ TransfersCounted

LEMMA SharedInvInit == Init => SharedInv
  <1> SUFFICES ASSUME Init PROVE SharedInv
    OBVIOUS
  <1> USE SizesInNat, HostSizes
  <1>1. IInv /\ Counted
    BY InitHolds
  <1>2. Len(<<>>) = 0 /\ configs = <<>> /\ dma = <<>> /\ AllSent
    BY DEF Init, AllSent
  <1>3. RowsInOrder
    BY <1>2 DEF Init, RowsInOrder, Row, Enqueueing, Busy
  <1>4. ConfigsDistinct /\ NotSent /\ PartsOwn
    BY <1>2 DEF Init, ConfigsDistinct, NotSent, PartsOwn, OutputsOwn, FetchedOwn, FetchedAll
  <1>5. PartsWhole
    <2> SUFFICES ASSUME NEW c \in Chunks, Pending(c) PROVE FALSE
      BY DEF Init, PartsWhole
    <2>1. c[2] \in Nat /\ returned[c[1]] = <<>> /\ tried[c[1]] = 0
      BY ChunkPair DEF Init
    <2>2. QED
      BY <1>2, <2>1 DEF Pending
  <1>6. Numbers([i \in 1..1 |-> 0])
    BY <1>2 DEF Numbers, Started
  <1>7. TransfersCounted
    <2>1. [i \in 1..1 |-> 0] \in [1..(Len(dma) + 1) -> 0..Transfers]
      BY <1>2
    <2>2. QED
      BY <1>2, <1>6, <2>1 DEF TransfersCounted
  <1>8. QED
    BY <1>1, <1>3, <1>4, <1>5, <1>7 DEF SharedInv

LEMMA SharedInvStep == SharedInv /\ [Next]_vars => SharedInv'
  <1> SUFFICES ASSUME SharedInv, [Next]_vars PROVE SharedInv'
    OBVIOUS
  <1>1. IInv /\ Counted /\ TypeOK /\ BuffersHeld
    BY DEF SharedInv, IInv
  <1>2. IInv' /\ Counted' /\ TypeOK' /\ BuffersHeld'
    BY <1>1, TypeInductive, MutexInductive, BuffersInductive, OrderInductive DEF IInv
  <1>3. RowsInOrder'
    BY <1>1, RowsInductive DEF SharedInv
  <1>4. ConfigsDistinct'
    BY <1>1, <1>2, <1>3, ConfigsDistinctInductive DEF SharedInv
  <1>5. NotSent' /\ PartsOwn' /\ PartsWhole'
    BY <1>1, NotSentInductive, PartsOwnInductive, PartsWholeInductive DEF SharedInv
  <1>6. TransfersCounted'
    BY <1>1, <1>2, <1>4, CountInductive DEF SharedInv
  <1>7. QED
    BY <1>2, <1>3, <1>4, <1>5, <1>6 DEF SharedInv

LEMMA SharedInvAlways == Spec => []SharedInv
BY SharedInvInit, SharedInvStep, PTL DEF Spec

-----------------------------------------------------------------------------
(* The theorems.                                                           *)

\* A transfer the hardware has not read reads a buffer its reader still holds: a thread
\* that returns a chunk frees that chunk's buffer and no other (BuffersAlive).
THEOREM AlwaysBuffersAlive == Spec => []BuffersAlive
  <1>1. SharedInv => BuffersAlive
    <2> SUFFICES ASSUME SharedInv PROVE BuffersAlive
      OBVIOUS
    <2>0. TypeOK /\ BuffersHeld /\ TransfersInOrder /\ RowsInOrder
      BY DEF SharedInv, IInv
    <2>d. DOMAIN dma = 1..Len(dma)
      BY <2>0 DEF TypeOK
    <2> SUFFICES ASSUME NEW i \in 1..Len(dma), NEW c \in Chunks, c = dma[i].chunk
                 PROVE  \E j \in DOMAIN buffers[c[1]] : buffers[c[1]][j] = c
      BY <2>0, <2>d, ConfigsInChunks DEF BuffersAlive
    <2> DEFINE r == c[1]
               k == Len(returned[r])
               m == Len(queue[r])
               f == Len(fetching[r])
               b == Len(buffers[r])
    <2>1. r \in Readers /\ c[2] \in Nat /\ c = <<r, c[2]>>
      BY ChunkPair
    <2>2. k < c[2] /\ c[2] <= tried[r]
      BY <2>0, TransfersConfigured DEF SharedInv, ConfigsDistinct, InHardware, Pending
    <2>3. Local(r) /\ Lengths(r) /\ Row(r)
      BY <2>0, <2>1, LocalHolds DEF RowsInOrder
    <2>4. k \in Nat /\ m \in Nat /\ f \in Nat /\ b \in Nat /\ tried[r] = k + f + m + Enqueueing(r) /\ tried[r] \in Nat
      BY <2>3 DEF Lengths, Row
    <2>5. pc[r] = "configured" => c[2] # tried[r]
      BY <2>1 DEF SharedInv, NotSent, Current
    <2>6. /\ b = Held(r) /\ f = (IF pc[r] \in {"fetching", "fetched"} THEN 1 ELSE 0)
          /\ pc[r] \in {"ready", "configured", "sending", "fetching", "fetched"}
      BY <2>3 DEF Local
    <2>7. /\ pc[r] = "configured" => b = m + 0 /\ f = 0 /\ Enqueueing(r) = 1
          /\ pc[r] = "sending" => b = m + 1 /\ f = 0 /\ Enqueueing(r) = 1
          /\ pc[r] = "ready" => b = m + 0 /\ f = 0 /\ Enqueueing(r) = 0
          /\ pc[r] \in {"fetching", "fetched"} => b = m + 1 /\ f = 1 /\ Enqueueing(r) = 0
      BY <2>6 DEF Held, Enqueueing
    <2>8. c[2] <= k + b
      <3> HIDE DEF k, m, f, b
      <3>1. QED
        BY <2>1, <2>2, <2>4, <2>5, <2>6, <2>7
    <2>9. c[2] - k \in 1..b /\ k + (c[2] - k) = c[2]
      <3> HIDE DEF k, b
      <3>1. QED
        BY <2>1, <2>2, <2>4, <2>8
    <2>10. buffers[r][c[2] - k] = c
      BY <2>1, <2>3, <2>9 DEF Row
    <2>11. DOMAIN buffers[r] = 1..b
      BY <2>3 DEF Local
    <2>12. QED
      BY <2>9, <2>10, <2>11
  <1>2. QED
    BY <1>1, SharedInvAlways, PTL

-----------------------------------------------------------------------------
(* The count of enqueued configurations.                                   *)

\* The chunks under way, as ConfigsCounted numbers them.
Size(r) == Len(queue[r]) + Busy(r)
UnderWay == UNION {{<<r, i>> : i \in 1..(Len(queue[r]) + Busy(r))} : r \in Readers}

LEMMA UnderWayElements == \A x : x \in UnderWay <=> \E r \in Readers : \E i \in 1..Size(r) : x = <<r, i>>
BY DEF UnderWay, Size

LEMMA SizeBounds ==
  ASSUME TypeOK, BuffersHeld, RowsInOrder, NEW r \in Readers
  PROVE  /\ Size(r) \in Nat /\ Size(r) <= Window /\ Size(r) = tried[r] - Len(returned[r])
         /\ tried[r] \in Nat /\ Len(returned[r]) \in Nat
  <1> DEFINE k == Len(returned[r])
             m == Len(queue[r])
             f == Len(fetching[r])
  <1>1. Local(r) /\ Lengths(r) /\ Row(r)
    BY LocalHolds DEF RowsInOrder
  <1>2. /\ k \in Nat /\ m \in Nat /\ tried[r] \in Nat /\ Window \in Nat
        /\ tried[r] = k + f + m + Enqueueing(r) /\ Size(r) = m + Busy(r) /\ Size(r) <= Window
    BY <1>1 DEF Lengths, Row, Size
  <1>3. /\ f \in {0, 1} /\ Enqueueing(r) \in {0, 1} /\ Busy(r) \in {0, 1} /\ Busy(r) = f + Enqueueing(r)
    BY <1>1 DEF Local, Enqueueing, Busy
  <1> HIDE DEF k, m, f
  <1>4. Size(r) \in Nat /\ Size(r) = tried[r] - k
    BY <1>2, <1>3
  <1>5. QED
    BY <1>2, <1>4 DEF k

\* The same of the next state.
LEMMA SizesAreNumbers ==
  (TypeOK /\ BuffersHeld /\ RowsInOrder) =>
    \A r \in Readers : Size(r) \in Nat /\ Size(r) = tried[r] - Len(returned[r])
BY SizeBounds

LEMMA SizesStayNumbers ==
  (TypeOK /\ BuffersHeld /\ RowsInOrder)' =>
    (\A r \in Readers : Size(r) \in Nat /\ Size(r) = tried[r] - Len(returned[r]))'
BY SizesAreNumbers, PTL

LEMMA UnderWayFinite ==
  ASSUME TypeOK, BuffersHeld, RowsInOrder
  PROVE  IsFiniteSet(UnderWay) /\ Cardinality(UnderWay) \in Nat /\ Cardinality(UnderWay) < MaxConfigs
  <1>0. Window \in Nat /\ Window > 0 /\ IsFiniteSet(Readers) /\ Cardinality(Readers) \in Nat
        /\ Window * Cardinality(Readers) < MaxConfigs /\ MaxConfigs \in Nat
    BY HostSizes, FS_CardinalityType
  <1>1. IsFiniteSet(1..Window) /\ Cardinality(1..Window) = Window
    BY <1>0, FS_Interval
  <1>2. IsFiniteSet(Readers \X (1..Window)) /\ Cardinality(Readers \X (1..Window)) = Cardinality(Readers) * Window
    BY <1>0, <1>1, FS_Product
  <1>3. UnderWay \subseteq Readers \X (1..Window)
    <2> SUFFICES ASSUME NEW r \in Readers, NEW i \in 1..Size(r) PROVE i \in 1..Window
      BY UnderWayElements
    <2>1. QED
      BY <1>0, SizeBounds
  <1>4. IsFiniteSet(UnderWay) /\ Cardinality(UnderWay) <= Cardinality(Readers \X (1..Window))
    BY <1>2, <1>3, FS_Subset
  <1>5. \A a, b \in Nat : a * b = b * a
    OBVIOUS
  <1>6. Cardinality(Readers \X (1..Window)) < MaxConfigs
    BY <1>0, <1>2, <1>5
  <1>7. Cardinality(UnderWay) \in Nat /\ Cardinality(Readers \X (1..Window)) \in Nat
    BY <1>2, <1>4, FS_CardinalityType
  <1>8. QED
    BY <1>0, <1>4, <1>6, <1>7

\* enqueued is the number of chunks under way.
EnqueuedCounts == enqueued = Cardinality(UnderWay)

LEMMA EnqueuedInductive ==
  ASSUME TypeOK, BuffersHeld, RowsInOrder, EnqueuedCounts, TypeOK', BuffersHeld', RowsInOrder', [Next]_vars
  PROVE  EnqueuedCounts'
  <1>0. /\ \A s \in Readers : Size(s) \in Nat /\ Size(s) = tried[s] - Len(returned[s])
                               /\ tried[s] \in Nat /\ Len(returned[s]) \in Nat
        /\ \A s \in Readers : Size(s)' \in Nat /\ Size(s)' = tried'[s] - Len(returned'[s])
    BY SizeBounds, SizesStayNumbers
  <1>u. /\ \A x : x \in UnderWay <=> \E r \in Readers : \E i \in 1..Size(r) : x = <<r, i>>
        /\ \A x : x \in UnderWay' <=> \E r \in Readers : \E i \in 1..Size(r)' : x = <<r, i>>
    BY DEF UnderWay, Size
  <1>f. IsFiniteSet(UnderWay)
    BY UnderWayFinite
  <1>1. ASSUME NEW r \in Readers, DecodeColumnChunk(r) PROVE EnqueuedCounts'
    <2>1. /\ enqueued' = enqueued + 1 /\ tried'[r] = tried[r] + 1 /\ returned' = returned
          /\ \A s \in Readers \ {r} : tried'[s] = tried[s]
      BY <1>1 DEF DecodeColumnChunk, TypeOK
    <2>2. Size(r)' = Size(r) + 1 /\ \A s \in Readers \ {r} : Size(s)' = Size(s)
      BY <1>0, <2>1
    <2>3. <<r, Size(r) + 1>> \notin UnderWay
      <3>1. ASSUME NEW s \in Readers, NEW i \in 1..Size(s), <<r, Size(r) + 1>> = <<s, i>> PROVE FALSE
        BY <1>0, <3>1
      <3>2. QED
        BY <1>u, <3>1
    <2>4. UnderWay' = UnderWay \cup {<<r, Size(r) + 1>>}
      <3>1. ASSUME NEW s \in Readers, NEW i \in 1..Size(s)' PROVE <<s, i>> \in UnderWay \cup {<<r, Size(r) + 1>>}
        <4>1. i \in 1..Size(s) \/ (s = r /\ i = Size(r) + 1)
          BY <1>0, <2>2
        <4>2. QED
          BY <1>u, <4>1
      <3>2. ASSUME NEW s \in Readers, NEW i \in 1..Size(s) PROVE <<s, i>> \in UnderWay'
        <4>1. i \in 1..Size(s)'
          BY <1>0, <2>2
        <4>2. QED
          BY <1>u, <4>1
      <3>3. <<r, Size(r) + 1>> \in UnderWay'
        <4>1. Size(r) + 1 \in 1..Size(r)'
          BY <1>0, <2>2
        <4>2. QED
          BY <1>u, <4>1
      <3>4. QED
        BY <1>u, <3>1, <3>2, <3>3
    <2>5. Cardinality(UnderWay') = Cardinality(UnderWay) + 1
      BY <1>f, <2>3, <2>4, FS_AddElement
    <2>6. QED
      BY <2>1, <2>5 DEF EnqueuedCounts
  <1>2. ASSUME NEW r \in Readers, FinishedDecoding(r) PROVE EnqueuedCounts'
    <2>1. /\ enqueued' = enqueued - 1 /\ queue' = queue /\ pc[r] = "fetched" /\ pc'[r] = "ready"
          /\ \A s \in Readers \ {r} : pc'[s] = pc[s]
      BY <1>2 DEF FinishedDecoding, TypeOK
    <2>2. Size(r) = Len(queue[r]) + 1 /\ Size(r)' = Len(queue[r]) + 0 /\ \A s \in Readers \ {r} : Size(s)' = Size(s)
      BY <2>1 DEF Size, Busy
    <2>3. Size(r) \in Nat \ {0} /\ Size(r)' = Size(r) - 1
      <3>1. Len(queue[r]) \in Nat
        BY LenZero DEF TypeOK
      <3>2. QED
        BY <2>2, <3>1
    <2>4. <<r, Size(r)>> \in UnderWay
      <3>1. Size(r) \in 1..Size(r)
        BY <2>3
      <3>2. QED
        BY <1>u, <3>1
    <2>5. UnderWay' = UnderWay \ {<<r, Size(r)>>}
      <3>1. ASSUME NEW s \in Readers, NEW i \in 1..Size(s)' PROVE <<s, i>> \in UnderWay \ {<<r, Size(r)>>}
        <4>1. i \in 1..Size(s) /\ ~(s = r /\ i = Size(r))
          BY <1>0, <2>2, <2>3
        <4>2. QED
          BY <1>u, <4>1
      <3>2. ASSUME NEW s \in Readers, NEW i \in 1..Size(s), <<s, i>> # <<r, Size(r)>> PROVE <<s, i>> \in UnderWay'
        <4>1. s # r \/ i # Size(r)
          BY <3>2
        <4>2. i \in 1..Size(s)'
          BY <1>0, <2>2, <2>3, <4>1
        <4>3. QED
          BY <1>u, <4>2
      <3>3. QED
        BY <1>u, <3>1, <3>2
    <2>6. Cardinality(UnderWay') = Cardinality(UnderWay) - 1
      BY <1>f, <2>4, <2>5, FS_RemoveElement
    <2>7. QED
      BY <2>1, <2>6 DEF EnqueuedCounts
  <1>3. ASSUME UNCHANGED <<enqueued, tried, returned>> PROVE EnqueuedCounts'
    <2>1. \A s \in Readers : Size(s)' = Size(s)
      BY <1>0, <1>3
    <2>2. UnderWay' = UnderWay
      BY <1>u, <2>1
    <2>3. QED
      BY <1>3, <2>2 DEF EnqueuedCounts
  <1>4. ASSUME NEW r \in Readers, Thread(r), ~DecodeColumnChunk(r), ~FinishedDecoding(r)
        PROVE  UNCHANGED <<enqueued, tried, returned>>
    BY <1>4 DEF Thread, GetChunkData, InvokeTransfer, EnqueueDone, NextColumnChunk, FetchOutput
  <1>5. CASE Decode \/ UNCHANGED vars
    BY <1>3, <1>5 DEF Decode, vars, thread_vars
  <1>6. QED
    BY <1>1, <1>2, <1>3, <1>4, <1>5 DEF Next, Done

\* Every configuration in the hardware is a chunk under way.
LEMMA ConfigsUnderWay ==
  ASSUME TypeOK, BuffersHeld, RowsInOrder, ConfigsDistinct
  PROVE  Len(configs) <= Cardinality(UnderWay)
  <1> DEFINE n == Len(configs)
             place(j) == <<configs[j][1], configs[j][2] - Len(returned[configs[j][1]])>>
             f == [j \in 1..n |-> place(j)]
  <1>0. n \in Nat
    BY ConfigsInChunks
  <1>1. ASSUME NEW j \in 1..n
        PROVE  /\ place(j) \in UnderWay
               /\ configs[j] = <<place(j)[1], Len(returned[place(j)[1]]) + place(j)[2]>>
    <2>1. PICK c \in Chunks : c = configs[j] /\ Pending(c)
      BY ConfigsInChunks DEF ConfigsDistinct
    <2>2. PICK r \in Readers : r = c[1] /\ c = <<r, c[2]>> /\ c[2] \in Nat
      BY ChunkPair
    <2>3. PICK k \in Nat : k = Len(returned[r]) /\ Size(r) = tried[r] - k /\ tried[r] \in Nat /\ Size(r) \in Nat
      BY SizeBounds
    <2>4. k < c[2] /\ c[2] <= tried[r]
      BY <2>1, <2>2, <2>3 DEF Pending
    <2>5. c[2] - k \in 1..Size(r) /\ k + (c[2] - k) = c[2]
      BY <2>2, <2>3, <2>4
    <2>6. place(j) = <<r, c[2] - k>>
      BY <2>1, <2>2, <2>3
    <2>7. place(j) \in UnderWay
      BY <2>5, <2>6, UnderWayElements
    <2>8. place(j)[1] = r /\ place(j)[2] = c[2] - k
      BY <2>6
    <2>9. QED
      BY <2>1, <2>2, <2>3, <2>5, <2>7, <2>8
  <1> HIDE DEF place
  <1>2. \A i, j \in 1..n : place(i) = place(j) => i = j
    BY <1>1 DEF ConfigsDistinct
  <1>3. f \in Injection(1..n, UnderWay)
    BY <1>1, <1>2 DEF Injection, IsInjective
  <1>4. IsFiniteSet(UnderWay)
    BY UnderWayFinite
  <1>5. Cardinality(1..n) <= Cardinality(UnderWay)
    BY <1>3, <1>4, FS_Injection
  <1>6. Cardinality(1..n) = n
    <2>1. Cardinality(1..n) = IF 1 > n THEN 0 ELSE n - 1 + 1
      BY <1>0, FS_Interval
    <2>2. QED
      BY <1>0, <2>1
  <1>7. QED
    BY <1>5, <1>6

\* The hardware is never asked to queue more configurations than it has room for: the
\* count that decode_column_chunk increments and finished_decoding_column_chunk decrements
\* is that of the chunks under way, bounds the FIFO and stays below its size, so that the
\* assertion before the register is written holds whatever the threads do (ConfigsCounted).
THEOREM AlwaysConfigsCounted == Spec => []ConfigsCounted
  <1>1. Init => EnqueuedCounts
    <2> SUFFICES ASSUME Init PROVE EnqueuedCounts
      OBVIOUS
    <2>1. \A r \in Readers : Size(r) = 0
      BY DEF Init, Size, Busy
    <2>2. UnderWay = {}
      BY <2>1, UnderWayElements
    <2>3. QED
      BY <2>2, FS_EmptySet DEF Init, EnqueuedCounts
  <1>2. SharedInv /\ SharedInv' /\ EnqueuedCounts /\ [Next]_vars => EnqueuedCounts'
    BY EnqueuedInductive DEF SharedInv, IInv
  <1>3. SharedInv /\ EnqueuedCounts => ConfigsCounted
    <2> SUFFICES ASSUME SharedInv, EnqueuedCounts PROVE ConfigsCounted
      OBVIOUS
    <2>1. Cardinality(UnderWay) < MaxConfigs /\ Len(configs) <= Cardinality(UnderWay)
      BY UnderWayFinite, ConfigsUnderWay DEF SharedInv, IInv
    <2>2. QED
      BY <2>1 DEF ConfigsCounted, EnqueuedCounts, UnderWay
  <1>4. QED
    BY <1>1, <1>2, <1>3, SharedInvAlways, PTL DEF Spec

-----------------------------------------------------------------------------
(* Every reader implements ReaderInterface.                                *)

\* What Interface(r) sees of a reader.
FetchingChunks(r) == [i \in DOMAIN fetching[r] |-> fetching[r][i].chunk]
PendingChunks(r) == FetchingChunks(r) \o queue[r]
ReturnedChunks(r) == [i \in DOMAIN returned[r] |-> Fetched(returned[r][i])]

LEMMA FetchingChunksIs ==
  ASSUME NEW r \in Readers
  PROVE  /\ fetching[r] = <<>> => FetchingChunks(r) = <<>>
         /\ fetching[r] \in Seq(Fetch) /\ Len(fetching[r]) = 1 => FetchingChunks(r) = <<fetching[r][1].chunk>>
  <1>1. ASSUME fetching[r] = <<>> PROVE FetchingChunks(r) = <<>>
    BY <1>1 DEF FetchingChunks
  <1>2. ASSUME fetching[r] \in Seq(Fetch), Len(fetching[r]) = 1 PROVE FetchingChunks(r) = <<fetching[r][1].chunk>>
    <2>1. DOMAIN fetching[r] = {1}
      BY <1>2
    <2>2. FetchingChunks(r) = [i \in {1} |-> fetching[r][1].chunk]
      BY <2>1 DEF FetchingChunks
    <2>3. QED
      BY <2>2
  <1>3. QED
    BY <1>1, <1>2

LEMMA EnqueueDoneRefines ==
  ASSUME TypeOK, Counted, BuffersHeld, NEW r \in Readers, EnqueueDone(r)
  PROVE  PendingChunks(r)' = Append(PendingChunks(r), Current(r)) /\ Current(r) \in Chunks
  <1>1. /\ queue[r] \in Seq(Chunks) /\ queue'[r] = Append(queue[r], Current(r)) /\ fetching' = fetching
        /\ Current(r) \in Chunks
    BY CurrentChunk DEF EnqueueDone, TypeOK, Counted
  <1>2. fetching[r] = <<>>
    <2>1. Local(r) /\ pc[r] = "sending"
      BY LocalHolds DEF EnqueueDone
    <2>2. QED
      BY <2>1 DEF Local
  <1>3. FetchingChunks(r) = <<>> /\ FetchingChunks(r)' = <<>>
    BY <1>1, <1>2, FetchingChunksIs DEF FetchingChunks
  <1>4. Append(queue[r], Current(r)) \in Seq(Chunks)
    BY <1>1, AppendElements
  <1>5. PendingChunks(r) = queue[r] /\ PendingChunks(r)' = queue'[r]
    BY <1>1, <1>3, <1>4, ConcatEmptySeq DEF PendingChunks
  <1>6. QED
    BY <1>1, <1>5

LEMMA NextColumnChunkRefines ==
  ASSUME TypeOK, BuffersHeld, NEW r \in Readers, NextColumnChunk(r)
  PROVE  PendingChunks(r)' = PendingChunks(r)
  <1>1. /\ queue[r] \in Seq(Chunks) /\ queue[r] # <<>> /\ queue'[r] = Tail(queue[r]) /\ pc[r] = "ready"
        /\ fetching'[r] = <<[chunk |-> Head(queue[r]), parts |-> <<>>]>>
    BY DEF NextColumnChunk, TypeOK
  <1>2. FetchingChunks(r) = <<>>
    <2>1. fetching[r] = <<>>
      BY <1>1, LocalHolds DEF Local
    <2>2. QED
      BY <2>1, FetchingChunksIs
  <1>3. FetchingChunks(r)' = <<Head(queue[r])>>
    <2>1. DOMAIN fetching'[r] = {1} /\ fetching'[r][1].chunk = Head(queue[r])
      BY <1>1
    <2>2. FetchingChunks(r)' = [i \in {1} |-> Head(queue[r])]
      BY <2>1 DEF FetchingChunks
    <2>3. QED
      BY <2>2
  <1>4. <<Head(queue[r])>> \o Tail(queue[r]) = queue[r]
    <2>1. Head(queue[r]) \in Chunks /\ Tail(queue[r]) \in Seq(Chunks) /\ Head(queue[r]) = queue[r][1]
          /\ Len(queue[r]) \in Nat \ {0} /\ Len(Tail(queue[r])) = Len(queue[r]) - 1
          /\ \A i \in 1..(Len(queue[r]) - 1) : Tail(queue[r])[i] = queue[r][i + 1]
      BY <1>1, TailElements
    <2> DEFINE h == <<Head(queue[r])>>
    <2>2. h \in Seq(Chunks) /\ Len(h) = 1 /\ h[1] = queue[r][1]
      BY <2>1
    <2> HIDE DEF h
    <2>3. /\ h \o Tail(queue[r]) \in Seq(Chunks) /\ Len(h \o Tail(queue[r])) = Len(queue[r])
          /\ \A i \in 1..Len(queue[r]) : (h \o Tail(queue[r]))[i] = IF i <= 1 THEN h[i] ELSE Tail(queue[r])[i - 1]
      <3>1. /\ h \o Tail(queue[r]) \in Seq(Chunks) /\ Len(h \o Tail(queue[r])) = Len(h) + Len(Tail(queue[r]))
            /\ \A i \in 1..(Len(h) + Len(Tail(queue[r]))) :
                 (h \o Tail(queue[r]))[i] = IF i <= Len(h) THEN h[i] ELSE Tail(queue[r])[i - Len(h)]
        BY <2>1, <2>2, ConcatProperties
      <3>2. Len(h) + Len(Tail(queue[r])) = Len(queue[r])
        BY <2>1, <2>2
      <3>3. QED
        BY <2>2, <3>1, <3>2
    <2>4. \A i \in 1..Len(queue[r]) : (h \o Tail(queue[r]))[i] = queue[r][i]
      <3> TAKE i \in 1..Len(queue[r])
      <3>1. CASE i = 1
        BY <2>2, <2>3, <3>1
      <3>2. CASE i # 1
        <4>1. i - 1 \in 1..(Len(queue[r]) - 1) /\ ~(i <= 1) /\ (i - 1) + 1 = i
          BY <2>1, <3>2
        <4>2. QED
          BY <2>1, <2>3, <4>1
      <3>3. QED
        BY <3>1, <3>2
    <2>5. QED
      BY <1>1, <2>3, <2>4, SeqEqual DEF h
  <1>5. <<>> \o queue[r] = queue[r]
    BY <1>1, ConcatEmptySeq
  <1>6. QED
    BY <1>1, <1>2, <1>3, <1>4, <1>5 DEF PendingChunks

LEMMA FetchOutputRefines ==
  ASSUME TypeOK, BuffersHeld, RowsInOrder, NEW r \in Readers, FetchOutput(r)
  PROVE  PendingChunks(r)' = PendingChunks(r)
  <1>1. /\ queue' = queue /\ fetching[r] \in Seq(Fetch) /\ Len(fetching[r]) = 1
        /\ fetching'[r] = [fetching[r] EXCEPT ![1].parts = Append(@, Head(outputs[fetching[r][1].chunk]))]
    <2>1. Local(r) /\ pc[r] = "fetching"
      BY LocalHolds DEF FetchOutput
    <2>2. QED
      BY <2>1 DEF FetchOutput, Local, TypeOK
  <1>2. DOMAIN fetching[r] = {1} /\ DOMAIN fetching'[r] = {1}
    BY <1>1
  <1>3. fetching'[r][1].chunk = fetching[r][1].chunk
    <2>1. PICK c \in Chunks : fetching[r][1].chunk = c /\ fetching'[r][1].chunk = c
      BY FetchStep
    <2>2. QED
      BY <2>1
  <1>4. FetchingChunks(r)' = FetchingChunks(r)
    BY <1>2, <1>3 DEF FetchingChunks
  <1>5. QED
    BY <1>1, <1>4 DEF PendingChunks

\* A chunk that was fetched to its last part is whole.
LEMMA FetchedIsWhole ==
  ASSUME SharedInv, NEW r \in Readers, pc[r] = "fetched"
  PROVE  Fetched(fetching[r][1]) = fetching[r][1].chunk
  <1>0. TypeOK /\ BuffersHeld /\ RowsInOrder
    BY DEF SharedInv, IInv
  <1>1. PICK c \in Chunks : /\ fetching[r][1].chunk = c /\ c[1] = r /\ c[2] = Len(returned[r]) + 1
                            /\ c[2] <= tried[r] /\ fetching[r] # <<>> /\ fetching[r][1].parts \in Seq(Part)
    BY <1>0, FetchedChunk
  <1>2. FetchedOwn(r) /\ outputs[c] = <<>> /\ ~InHardware(c)
    BY <1>1 DEF SharedInv, PartsOwn, FetchedAll
  <1>3. Pending(c)
    BY <1>0, <1>1, RowBounds DEF Pending
  <1>4. Made(c) = Transfers
    BY <1>2, <1>3 DEF SharedInv, PartsWhole
  <1>5. Len(fetching[r][1].parts) = Transfers
    <2>1. Len(outputs[c]) = 0 /\ Len(fetching[r][1].parts) \in Nat
      BY <1>1, <1>2, LenZero
    <2>2. Made(c) = 0 + Len(fetching[r][1].parts)
      BY <1>1, <2>1 DEF Made
    <2>3. QED
      BY <1>4, <2>1, <2>2
  <1>6. \A i \in DOMAIN fetching[r][1].parts :
          fetching[r][1].parts[i].conf = fetching[r][1].chunk /\ fetching[r][1].parts[i].data = fetching[r][1].chunk
    <2>1. DOMAIN fetching[r][1].parts = 1..Len(fetching[r][1].parts)
      BY <1>1
    <2>2. QED
      BY <1>1, <1>2, <2>1 DEF FetchedOwn
  <1>7. QED
    BY <1>5, <1>6 DEF Fetched

LEMMA FinishedDecodingRefines ==
  ASSUME SharedInv, NEW r \in Readers, FinishedDecoding(r)
  PROVE  /\ PendingChunks(r) # <<>> /\ PendingChunks(r)' = Tail(PendingChunks(r))
         /\ ReturnedChunks(r)' = Append(ReturnedChunks(r), Head(PendingChunks(r)))
  <1>0. TypeOK /\ BuffersHeld /\ RowsInOrder
    BY DEF SharedInv, IInv
  <1>1. /\ queue[r] \in Seq(Chunks) /\ queue'[r] = queue[r] /\ fetching'[r] = <<>> /\ pc[r] = "fetched"
        /\ returned'[r] = returned[r] \o fetching[r]
    BY <1>0 DEF FinishedDecoding, TypeOK
  <1>2. /\ fetching[r] \in Seq(Fetch) /\ Len(fetching[r]) = 1 /\ fetching[r][1] \in Fetch
        /\ returned[r] \in Seq(Fetch) /\ Len(returned[r]) \in Nat
    <2>1. Local(r) /\ Lengths(r)
      BY <1>0, LocalHolds
    <2>2. QED
      BY <1>1, <2>1 DEF Local, Lengths
  <1>3. PICK c \in Chunks : c = fetching[r][1].chunk
    BY <1>2 DEF Fetch
  <1>4. PendingChunks(r) = <<c>> \o queue[r]
    BY <1>2, <1>3, FetchingChunksIs DEF PendingChunks
  <1>5. PendingChunks(r)' = queue[r]
    <2>1. FetchingChunks(r)' = <<>>
      BY <1>1 DEF FetchingChunks
    <2>2. QED
      BY <1>1, <2>1, ConcatEmptySeq DEF PendingChunks
  <1>6. <<c>> \o queue[r] # <<>> /\ Head(<<c>> \o queue[r]) = c /\ Tail(<<c>> \o queue[r]) = queue[r]
    <2> DEFINE h == <<c>>
               p == h \o queue[r]
    <2>1. h \in Seq(Chunks) /\ Len(h) = 1 /\ h[1] = c /\ Len(queue[r]) \in Nat
      BY <1>1, LenZero
    <2> HIDE DEF h
    <2>2. /\ p \in Seq(Chunks) /\ Len(p) = 1 + Len(queue[r])
          /\ \A i \in 1..(1 + Len(queue[r])) : p[i] = IF i <= 1 THEN h[i] ELSE queue[r][i - 1]
      <3>1. /\ p \in Seq(Chunks) /\ Len(p) = Len(h) + Len(queue[r])
            /\ \A i \in 1..(Len(h) + Len(queue[r])) : p[i] = IF i <= Len(h) THEN h[i] ELSE queue[r][i - Len(h)]
        BY <1>1, <2>1, ConcatProperties
      <3>2. QED
        BY <2>1, <3>1
    <2> HIDE DEF p
    <2>3. p # <<>>
      BY <2>1, <2>2, LenZero
    <2>4. /\ Head(p) = p[1] /\ Tail(p) \in Seq(Chunks) /\ Len(Tail(p)) = Len(p) - 1
          /\ \A i \in 1..(Len(p) - 1) : Tail(p)[i] = p[i + 1]
      BY <2>2, <2>3, TailElements
    <2>5. Len(Tail(p)) = Len(queue[r]) /\ \A i \in 1..Len(queue[r]) : Tail(p)[i] = queue[r][i]
      <3>1. Len(p) - 1 = Len(queue[r])
        BY <2>1, <2>2
      <3>2. ASSUME NEW i \in 1..Len(queue[r]) PROVE p[i + 1] = queue[r][i]
        <4>1. i + 1 \in 1..(1 + Len(queue[r])) /\ ~(i + 1 <= 1) /\ (i + 1) - 1 = i
          BY <2>1
        <4>2. QED
          BY <2>2, <4>1
      <3>3. QED
        BY <2>4, <3>1, <3>2
    <2>6. Tail(p) = queue[r]
      BY <1>1, <2>4, <2>5, SeqEqual
    <2>7. p[1] = c
      BY <2>1, <2>2
    <2>8. QED
      BY <2>3, <2>4, <2>6, <2>7 DEF p, h
  <1>7. ReturnedChunks(r)' = Append(ReturnedChunks(r), c)
    <2> DEFINE k == Len(returned[r])
               R == ReturnedChunks(r)
    <2>1. /\ Len(returned'[r]) = k + 1 /\ returned'[r] \in Seq(Fetch)
          /\ \A i \in 1..k : returned'[r][i] = returned[r][i]
          /\ returned'[r][k + 1] = fetching[r][1]
      <3>1. /\ returned[r] \o fetching[r] \in Seq(Fetch) /\ Len(returned[r] \o fetching[r]) = k + Len(fetching[r])
            /\ \A i \in 1..(k + Len(fetching[r])) : (returned[r] \o fetching[r])[i] =
                 IF i <= k THEN returned[r][i] ELSE fetching[r][i - k]
        BY <1>2, ConcatProperties
      <3>2. \A i \in 1..k : i \in 1..(k + 1) /\ i <= k
        BY <1>2
      <3>3. k + 1 \in 1..(k + 1) /\ ~(k + 1 <= k) /\ (k + 1) - k = 1
        BY <1>2
      <3>4. QED
        BY <1>1, <1>2, <3>1, <3>2, <3>3
    <2>2. DOMAIN returned[r] = 1..k /\ DOMAIN returned'[r] = 1..(k + 1)
      BY <1>2, <2>1
    <2>3. Fetched(fetching[r][1]) = c
      BY <1>1, <1>3, FetchedIsWhole
    <2>4. \A f : Fetched(f)' = Fetched(f)
      BY DEF Fetched
    <2>5. R = [i \in 1..k |-> Fetched(returned[r][i])]
      BY <2>2 DEF ReturnedChunks
    <2>6. R' = [i \in 1..(k + 1) |-> IF i = k + 1 THEN c ELSE Fetched(returned[r][i])]
      <3>1. \A i \in 1..(k + 1) : i \in 1..k \/ i = k + 1
        BY <1>2
      <3>2. \A i \in 1..k : i # k + 1
        BY <1>2
      <3>3. \A i \in 1..(k + 1) : Fetched(returned'[r][i]) = IF i = k + 1 THEN c ELSE Fetched(returned[r][i])
        BY <2>1, <2>3, <3>1, <3>2
      <3>4. R' = [i \in 1..(k + 1) |-> Fetched(returned'[r][i])]
        BY <2>2, <2>4 DEF ReturnedChunks
      <3>5. QED
        BY <3>3, <3>4
    <2> HIDE DEF R, k
    <2>7. k \in Nat
      BY <1>2 DEF k
    <2>8. Len(R) = k
      BY <2>5, <2>7
    <2>9. Append(R, c) = [i \in 1..(k + 1) |-> IF i = k + 1 THEN c ELSE R[i]]
      BY <2>5, <2>7, <2>8
    <2>10. \A i \in 1..(k + 1) : i # k + 1 => i \in 1..k
      BY <2>7
    <2>11. R' = Append(R, c)
      BY <2>5, <2>6, <2>9, <2>10
    <2>12. QED
      BY <2>11 DEF R
  <1>8. QED
    BY <1>4, <1>5, <1>6, <1>7

\* A step of the shared decoder is, to each reader, a step of its interface or none.
LEMMA StepRefines ==
  ASSUME SharedInv, [Next]_vars, NEW s \in Readers
  PROVE  [Interface(s)!Next]_(Interface(s)!readerVars)
  <1>0. TypeOK /\ BuffersHeld /\ RowsInOrder /\ Counted
    BY DEF SharedInv, IInv
  <1>1. ASSUME PendingChunks(s)' = PendingChunks(s), returned'[s] = returned[s]
        PROVE  UNCHANGED Interface(s)!readerVars
    <2>1. ReturnedChunks(s)' = ReturnedChunks(s)
      BY <1>1 DEF ReturnedChunks, Fetched
    <2>2. QED
      BY <1>1, <2>1 DEF Interface!readerVars, PendingChunks, FetchingChunks, ReturnedChunks
  <1>2. ASSUME Idle(s) PROVE UNCHANGED Interface(s)!readerVars
    BY <1>1, <1>2 DEF Idle, PendingChunks, FetchingChunks
  <1>3. ASSUME NEW r \in Readers, Thread(r), r # s PROVE UNCHANGED Interface(s)!readerVars
    BY <1>0, <1>2, <1>3, OthersIdle
  <1>4. CASE DecodeColumnChunk(s) \/ GetChunkData(s) \/ InvokeTransfer(s)
    <2>1. UNCHANGED <<fetching, queue, returned>>
      BY <1>4 DEF DecodeColumnChunk, GetChunkData, InvokeTransfer
    <2>2. QED
      BY <1>1, <2>1 DEF PendingChunks, FetchingChunks
  <1>5. CASE EnqueueDone(s)
    <2>1. PendingChunks(s)' = Append(PendingChunks(s), Current(s)) /\ Current(s) \in Chunks
      BY <1>0, <1>5, EnqueueDoneRefines
    <2>2. ReturnedChunks(s)' = ReturnedChunks(s)
      BY <1>5 DEF EnqueueDone, ReturnedChunks, Fetched
    <2>3. PICK c \in Chunks : c = Current(s)
      BY <2>1
    <2>4. Interface(s)!EnqueueColumnChunk(c)
      BY <2>1, <2>2, <2>3 DEF Interface!EnqueueColumnChunk, PendingChunks, FetchingChunks, ReturnedChunks
    <2>5. QED
      BY <2>4 DEF Interface!Next
  <1>6. CASE NextColumnChunk(s) \/ FetchOutput(s)
    <2>1. PendingChunks(s)' = PendingChunks(s)
      BY <1>0, <1>6, NextColumnChunkRefines, FetchOutputRefines
    <2>2. returned' = returned
      BY <1>6 DEF NextColumnChunk, FetchOutput
    <2>3. QED
      BY <1>1, <2>1, <2>2
  <1>7. CASE FinishedDecoding(s)
    <2>1. /\ PendingChunks(s) # <<>> /\ PendingChunks(s)' = Tail(PendingChunks(s))
          /\ ReturnedChunks(s)' = Append(ReturnedChunks(s), Head(PendingChunks(s)))
      BY <1>7, FinishedDecodingRefines
    <2>2. Interface(s)!NextColumnChunk
      BY <2>1 DEF Interface!NextColumnChunk, PendingChunks, FetchingChunks, ReturnedChunks
    <2>3. QED
      BY <2>2 DEF Interface!Next
  <1>8. CASE Decode \/ UNCHANGED vars
    BY <1>2, <1>8, DecodeIdle
  <1>9. QED
    BY <1>3, <1>4, <1>5, <1>6, <1>7, <1>8 DEF Next, Done, Thread

LEMMA InitRefines == ASSUME Init, NEW r \in Readers PROVE Interface(r)!Init
  <1>1. fetching[r] = <<>> /\ queue[r] = <<>> /\ returned[r] = <<>>
    BY DEF Init
  <1>2. FetchingChunks(r) = <<>> /\ ReturnedChunks(r) = <<>>
    BY <1>1 DEF FetchingChunks, ReturnedChunks
  <1>3. <<>> \o <<>> = <<>>
    BY EmptySeq, ConcatEmptySeq
  <1>4. QED
    BY <1>1, <1>2, <1>3 DEF Interface!Init, FetchingChunks, ReturnedChunks

\* Readers that share a hardware decoder each keep the promise of reader.hpp: the chunks
\* that its thread enqueued come back to it, whole, in that order, decoded from their own
\* bytes with their own configuration, whatever the other threads do (ReaderSpec).
THEOREM ImplementsReaders == Spec => ReaderSpec
  <1>1. Init => \A r \in Readers : Interface(r)!Init
    BY InitRefines
  <1>2. SharedInv /\ [Next]_vars
        => [\A r \in Readers : [Interface(r)!Next]_(Interface(r)!readerVars)]_vars
    BY StepRefines
  <1>3. QED
    BY <1>1, <1>2, SharedInvAlways, PTL DEF Spec, ReaderSpec

=============================================================================
