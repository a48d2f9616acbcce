-------------------------- MODULE ReaderStackProofs --------------------------
(***************************************************************************)
(* Proofs about the stack of readers, for every number of decoders and of  *)
(* chunks and every positive cost.                                         *)
(***************************************************************************)
EXTENDS ReaderStack, TLAPS

-----------------------------------------------------------------------------
(* Facts about sequences: the i-th element after an Append and a Tail.     *)

LEMMA AppendElements ==
  ASSUME NEW S, NEW q \in Seq(S), NEW x \in S
  PROVE  /\ Append(q, x) \in Seq(S) /\ Len(Append(q, x)) = Len(q) + 1
         /\ \A i \in 1..Len(q) : Append(q, x)[i] = q[i]
         /\ Append(q, x)[Len(q) + 1] = x
OBVIOUS

LEMMA TailElements ==
  ASSUME NEW S, NEW q \in Seq(S), q # <<>>
  PROVE  /\ Head(q) \in S /\ Head(q) = q[1] /\ Tail(q) \in Seq(S)
         /\ Len(q) \in Nat \ {0} /\ Len(Tail(q)) = Len(q) - 1
         /\ \A i \in 1..(Len(q) - 1) : Tail(q)[i] = q[i + 1]
OBVIOUS

\* A queue entry that is replaced leaves a queue of entries.
LEMMA ExceptInSeq ==
  ASSUME NEW S, NEW q \in Seq(S), NEW i \in DOMAIN q, NEW x \in S
  PROVE  [q EXCEPT ![i] = x] \in Seq(S)
OBVIOUS

LEMMA JobDone ==
  ASSUME NEW j \in JobType
  PROVE  /\ [j EXCEPT !.done = TRUE] \in JobType
         /\ [j EXCEPT !.done = TRUE].chunk = j.chunk /\ j.chunk \in 1..NumChunks
BY DEF JobType

-----------------------------------------------------------------------------
(* What the actions do to the queues.                                      *)

\* The chunk that next_column_chunk takes from the hardware is there, and so is its
\* decoder.
LEMMA NextHardwareQueues ==
  ASSUME TypeOK, NextHardware
  PROVE  /\ chosen # <<>> /\ scheduled # <<>> /\ Head(scheduled) \in Decoders
         /\ output_queue[Head(scheduled)] # <<>>
  <1>1. chosen # <<>> /\ Head(chosen) = "HARDWARE" /\ HasNext
    BY DEF NextHardware, HasNext
  <1>2. scheduled # <<>> /\ output_queue[Head(scheduled)] # <<>>
    BY <1>1 DEF HasNext
  <1>3. Head(scheduled) \in Decoders
    BY <1>2, TailElements DEF TypeOK
  <1>4. QED
    BY <1>1, <1>2, <1>3

LEMMA NextSoftwareQueues ==
  ASSUME TypeOK, NextSoftware
  PROVE  chosen # <<>> /\ threads # <<>>
  <1>1. chosen # <<>> /\ Head(chosen) = "SOFTWARE" /\ HasNext
    BY DEF NextSoftware, HasNext
  <1>2. threads # <<>>
    BY <1>1 DEF HasNext
  <1>3. QED
    BY <1>1, <1>2

\* A cost that is charged keeps the heap a set of states of decoders.
LEMMA ChargeType ==
  ASSUME heap \subseteq [id : Decoders, available_time : Nat],
         NEW s \in Top, NEW cost \in Costs, Charge(s, cost)
  PROVE  /\ s \in heap /\ s.id \in Decoders /\ s.available_time \in Nat /\ cost \in Nat
         /\ heap' = (heap \ {s}) \cup {[id |-> s.id, available_time |-> s.available_time + cost]}
         /\ heap' \subseteq [id : Decoders, available_time : Nat]
  <1>1. s \in heap /\ cost \in Nat
    BY StackSizes DEF Top
  <1>2. s.id \in Decoders /\ s.available_time \in Nat
    BY <1>1
  <1>3. [s EXCEPT !.available_time = @ + cost]
          = [id |-> s.id, available_time |-> s.available_time + cost]
    BY <1>1
  <1>4. QED
    BY <1>1, <1>2, <1>3 DEF Charge

-----------------------------------------------------------------------------
(* Type correctness.                                                       *)

LEMMA TypeInductive ==
  ASSUME TypeOK, HandlesMatch, [Next]_vars
  PROVE  TypeOK'
  <1>1. CASE EnqueueHardware
    <2>1. calls' \in 1..NumChunks /\ Job(calls') \in JobType
      BY <1>1, StackSizes DEF EnqueueHardware, TypeOK, Job, JobType
    <2>2. PICK s \in Top, cost \in Costs :
            /\ output_queue' = [output_queue EXCEPT ![s.id] = Append(@, Job(calls'))]
            /\ handle_queue' = [handle_queue EXCEPT ![s.id] = Append(@, calls')]
            /\ Schedule(s) /\ Charge(s, cost)
      BY <1>1 DEF EnqueueHardware
    <2>3. s.id \in Decoders /\ heap' \subseteq [id : Decoders, available_time : Nat]
      BY <2>2, ChargeType DEF TypeOK
    <2>4. /\ Append(output_queue[s.id], Job(calls')) \in Seq(JobType)
          /\ Append(handle_queue[s.id], calls') \in Seq(1..NumChunks)
      BY <2>1, <2>3 DEF TypeOK
    <2>5. /\ output_queue' \in [Decoders -> Seq(JobType)]
          /\ handle_queue' \in [Decoders -> Seq(1..NumChunks)]
      BY <2>2, <2>4 DEF TypeOK
    <2>6. scheduled' \in Seq(Decoders) /\ chosen' \in Seq({"HARDWARE", "SOFTWARE"})
      BY <1>1, <2>2, <2>3 DEF TypeOK, Schedule, EnqueueHardware
    <2>7. QED
      BY <1>1, <2>1, <2>3, <2>5, <2>6, SMTT(60) DEF TypeOK, EnqueueHardware
  <1>2. CASE EnqueueSoftware
    <2>1. calls' \in 1..NumChunks /\ Job(calls') \in JobType
      BY <1>2, StackSizes DEF EnqueueSoftware, TypeOK, Job, JobType
    <2>2. threads' \in Seq(JobType) /\ chosen' \in Seq({"HARDWARE", "SOFTWARE"})
      BY <1>2, <2>1 DEF EnqueueSoftware, TypeOK
    <2>3. QED
      BY <1>2, <2>1, <2>2 DEF EnqueueSoftware, TypeOK
  <1>3. CASE NextHardware
    <2> DEFINE d == Head(scheduled)
               r == [chunk |-> Head(output_queue[d]).chunk, handle |-> Head(handle_queue[d])]
    <2>1. /\ chosen # <<>> /\ scheduled # <<>> /\ d \in Decoders /\ output_queue[d] # <<>>
      BY <1>3, NextHardwareQueues
    <2>2. handle_queue[d] # <<>>
      <3>1. Len(handle_queue[d]) # 0
        BY <2>1, TailElements DEF TypeOK, HandlesMatch
      <3>2. QED
        BY <3>1
    <2>3. /\ Head(output_queue[d]) \in JobType /\ Tail(output_queue[d]) \in Seq(JobType)
          /\ Head(handle_queue[d]) \in 1..NumChunks
          /\ Tail(handle_queue[d]) \in Seq(1..NumChunks)
      BY <2>1, <2>2, TailElements DEF TypeOK
    <2>4. r \in [chunk : 1..NumChunks, handle : 1..NumChunks]
      BY <2>3, JobDone
    <2>5. /\ output_queue' = [output_queue EXCEPT ![d] = Tail(@)]
          /\ handle_queue' = [handle_queue EXCEPT ![d] = Tail(@)]
          /\ returned' = Append(returned, r)
      BY <1>3 DEF NextHardware
    <2>6. returned' \in Seq([chunk : 1..NumChunks, handle : 1..NumChunks])
      BY <2>4, <2>5 DEF TypeOK
    <2>7. /\ output_queue' \in [Decoders -> Seq(JobType)]
          /\ handle_queue' \in [Decoders -> Seq(1..NumChunks)]
      BY <2>3, <2>5 DEF TypeOK
    <2>8. /\ Tail(chosen) \in Seq({"HARDWARE", "SOFTWARE"})
          /\ Tail(scheduled) \in Seq(Decoders)
      BY <2>1 DEF TypeOK
    <2>9. QED
      BY <1>3, <2>6, <2>7, <2>8 DEF NextHardware, TypeOK
  <1>4. CASE NextSoftware
    <2>1. chosen # <<>> /\ threads # <<>>
      BY <1>4, NextSoftwareQueues
    <2>2. Head(threads) \in JobType /\ Tail(threads) \in Seq(JobType)
      BY <2>1, TailElements DEF TypeOK
    <2>3. [chunk |-> Head(threads).chunk, handle |-> Head(threads).chunk]
            \in [chunk : 1..NumChunks, handle : 1..NumChunks]
      BY <2>2 DEF JobType
    <2>4. returned' \in Seq([chunk : 1..NumChunks, handle : 1..NumChunks])
      BY <1>4, <2>3 DEF NextSoftware, TypeOK
    <2>5. Tail(chosen) \in Seq({"HARDWARE", "SOFTWARE"})
      BY <2>1 DEF TypeOK
    <2>6. QED
      BY <1>4, <2>2, <2>4, <2>5 DEF NextSoftware, TypeOK
  <1>5. ASSUME NEW d \in Decoders, Decoded(d) PROVE TypeOK'
    <2>1. PICK i \in DOMAIN output_queue[d] :
            output_queue' = [output_queue EXCEPT ![d][i].done = TRUE]
      BY <1>5 DEF Decoded
    <2>2. [output_queue[d][i] EXCEPT !.done = TRUE] \in JobType
      <3>1. output_queue[d][i] \in JobType
        BY <2>1 DEF TypeOK
      <3>2. QED
        BY <3>1, JobDone
    <2>3. [output_queue[d] EXCEPT ![i].done = TRUE] \in Seq(JobType)
      BY <2>1, <2>2, ExceptInSeq DEF TypeOK
    <2>4. output_queue' \in [Decoders -> Seq(JobType)]
      BY <2>1, <2>3 DEF TypeOK
    <2>5. QED
      BY <1>5, <2>4 DEF Decoded, TypeOK
  <1>6. ASSUME NEW i \in 1..NumChunks, ThreadEnds(i) PROVE TypeOK'
    <2>1. [threads[i] EXCEPT !.done = TRUE] \in JobType
      <3>1. threads[i] \in JobType
        BY <1>6 DEF TypeOK, ThreadEnds
      <3>2. QED
        BY <3>1, JobDone
    <2>2. threads' \in Seq(JobType)
      BY <1>6, <2>1, ExceptInSeq DEF TypeOK, ThreadEnds
    <2>3. QED
      BY <1>6, <2>2 DEF ThreadEnds, TypeOK
  <1>7. CASE UNCHANGED vars
    BY <1>7 DEF vars, TypeOK
  <1>8. QED
    BY <1>1, <1>2, <1>3, <1>4, <1>5, <1>6, <1>7
    DEF Next, Enqueue, NextColumnChunk, Works, Done

-----------------------------------------------------------------------------
(* The Adaptors' handles.                                                  *)

LEMMA HandlesInductive ==
  ASSUME TypeOK, HandlesMatch, [Next]_vars
  PROVE  HandlesMatch'
  <1>1. CASE EnqueueHardware
    <2>1. calls' \in 1..NumChunks /\ Job(calls') \in JobType /\ Job(calls').chunk = calls'
      BY <1>1, StackSizes DEF EnqueueHardware, TypeOK, Job, JobType
    <2>2. PICK s \in Top, cost \in Costs :
            /\ output_queue' = [output_queue EXCEPT ![s.id] = Append(@, Job(calls'))]
            /\ handle_queue' = [handle_queue EXCEPT ![s.id] = Append(@, calls')]
            /\ Charge(s, cost)
      BY <1>1 DEF EnqueueHardware
    <2>3. s.id \in Decoders
      BY <2>2, ChargeType DEF TypeOK
    <2>4. ASSUME NEW d \in Decoders
          PROVE  /\ Len(handle_queue'[d]) = Len(output_queue'[d])
                 /\ \A i \in DOMAIN output_queue'[d] :
                      handle_queue'[d][i] = output_queue'[d][i].chunk
      <3> DEFINE o == output_queue[d]
                 h == handle_queue[d]
      <3>1. o \in Seq(JobType) /\ h \in Seq(1..NumChunks) /\ Len(h) = Len(o)
            /\ \A i \in 1..Len(o) : h[i] = o[i].chunk
        BY <2>4 DEF TypeOK, HandlesMatch
      <3>2. CASE d = s.id
        <4>1. output_queue'[d] = Append(o, Job(calls')) /\ handle_queue'[d] = Append(h, calls')
          BY <2>2, <2>3, <3>2 DEF TypeOK
        <4>2. /\ Len(Append(o, Job(calls'))) = Len(o) + 1 /\ Len(Append(h, calls')) = Len(h) + 1
              /\ \A i \in 1..Len(o) : Append(o, Job(calls'))[i] = o[i]
              /\ \A i \in 1..Len(h) : Append(h, calls')[i] = h[i]
              /\ Append(o, Job(calls'))[Len(o) + 1] = Job(calls')
              /\ Append(h, calls')[Len(h) + 1] = calls'
          BY <2>1, <3>1, AppendElements
        <4>3. DOMAIN Append(o, Job(calls')) = 1..(Len(o) + 1) /\ Len(o) \in Nat
          BY <2>1, <3>1
        <4>4. \A i \in 1..(Len(o) + 1) : i \in 1..Len(o) \/ i = Len(o) + 1
          BY <4>3
        <4> HIDE DEF o, h
        <4>5. QED
          BY <2>1, <3>1, <4>1, <4>2, <4>3, <4>4
      <3>3. CASE d # s.id
        BY <2>2, <3>1, <3>3 DEF TypeOK
      <3>4. QED
        BY <3>2, <3>3
    <2>5. QED
      BY <1>1, <2>4 DEF HandlesMatch, EnqueueHardware
  <1>2. CASE EnqueueSoftware
    BY <1>2 DEF EnqueueSoftware, HandlesMatch
  <1>3. CASE NextHardware
    <2> DEFINE k == Head(scheduled)
               r == [chunk |-> Head(output_queue[k]).chunk, handle |-> Head(handle_queue[k])]
    <2>1. k \in Decoders /\ output_queue[k] # <<>>
      BY <1>3, NextHardwareQueues
    <2>2. /\ output_queue' = [output_queue EXCEPT ![k] = Tail(@)]
          /\ handle_queue' = [handle_queue EXCEPT ![k] = Tail(@)]
          /\ returned' = Append(returned, r)
      BY <1>3 DEF NextHardware
    <2>3. ASSUME NEW d \in Decoders
          PROVE  /\ Len(handle_queue'[d]) = Len(output_queue'[d])
                 /\ \A i \in DOMAIN output_queue'[d] :
                      handle_queue'[d][i] = output_queue'[d][i].chunk
      <3> DEFINE o == output_queue[d]
                 h == handle_queue[d]
      <3>1. o \in Seq(JobType) /\ h \in Seq(1..NumChunks) /\ Len(h) = Len(o)
            /\ \A i \in 1..Len(o) : h[i] = o[i].chunk
        BY <2>3 DEF TypeOK, HandlesMatch
      <3>2. CASE d = k
        <4>1. output_queue'[d] = Tail(o) /\ handle_queue'[d] = Tail(h) /\ o # <<>>
          BY <2>1, <2>2, <3>2 DEF TypeOK
        <4>2. Len(o) \in Nat \ {0} /\ h # <<>>
          BY <3>1, <4>1
        <4>3. /\ Len(Tail(o)) = Len(o) - 1 /\ Len(Tail(h)) = Len(h) - 1
              /\ \A i \in 1..(Len(o) - 1) : Tail(o)[i] = o[i + 1]
              /\ \A i \in 1..(Len(h) - 1) : Tail(h)[i] = h[i + 1]
          BY <3>1, <4>1, <4>2, TailElements
        <4>4. DOMAIN Tail(o) = 1..(Len(o) - 1)
          BY <3>1, <4>1
        <4>5. \A i \in 1..(Len(o) - 1) : i + 1 \in 1..Len(o)
          BY <4>2
        <4> HIDE DEF o, h
        <4>6. QED
          BY <3>1, <4>1, <4>3, <4>4, <4>5
      <3>3. CASE d # k
        BY <2>2, <3>1, <3>3 DEF TypeOK
      <3>4. QED
        BY <3>2, <3>3
    <2>4. r.handle = r.chunk
      <3> DEFINE o == output_queue[k]
                 h == handle_queue[k]
      <3>1. o \in Seq(JobType) /\ h \in Seq(1..NumChunks) /\ Len(h) = Len(o)
            /\ \A i \in 1..Len(o) : h[i] = o[i].chunk
        BY <2>1 DEF TypeOK, HandlesMatch
      <3>2. 1 \in 1..Len(o)
        BY <2>1, <3>1
      <3>3. QED
        BY <3>1, <3>2
    <2>5. \A i \in DOMAIN returned' : returned'[i].handle = returned'[i].chunk
      <3>1. r \in [chunk : 1..NumChunks, handle : 1..NumChunks]
        <4>1. output_queue[k] \in Seq(JobType)
          BY <2>1 DEF TypeOK
        <4>2. Head(output_queue[k]).chunk \in 1..NumChunks
          BY <2>1, <4>1, TailElements, JobDone
        <4>3. QED
          BY <2>4, <4>2
      <3>2. returned \in Seq([chunk : 1..NumChunks, handle : 1..NumChunks])
        BY DEF TypeOK
      <3> HIDE DEF r
      <3>3. /\ Len(returned') = Len(returned) + 1 /\ returned'[Len(returned) + 1] = r
            /\ \A i \in 1..Len(returned) : returned'[i] = returned[i]
            /\ DOMAIN returned' = 1..(Len(returned) + 1)
        BY <2>2, <3>1, <3>2
      <3>4. \A i \in 1..Len(returned) : returned[i].handle = returned[i].chunk
        BY <3>2 DEF HandlesMatch
      <3>5. \A i \in 1..(Len(returned) + 1) : i \in 1..Len(returned) \/ i = Len(returned) + 1
        BY <3>2
      <3>6. QED
        BY <2>4, <3>3, <3>4, <3>5
    <2>6. QED
      BY <2>3, <2>5 DEF HandlesMatch
  <1>4. CASE NextSoftware
    <2>1. chosen # <<>> /\ threads # <<>>
      BY <1>4, NextSoftwareQueues
    <2> DEFINE c == Head(threads).chunk
               r == [chunk |-> c, handle |-> c]
    <2>2. c \in 1..NumChunks
      BY <2>1, TailElements, JobDone DEF TypeOK
    <2>3. returned' = Append(returned, r) /\ UNCHANGED <<output_queue, handle_queue>>
      BY <1>4 DEF NextSoftware
    <2>4. r \in [chunk : 1..NumChunks, handle : 1..NumChunks] /\ r.handle = r.chunk
      BY <2>2
    <2>5. returned \in Seq([chunk : 1..NumChunks, handle : 1..NumChunks])
      BY DEF TypeOK
    <2>6. \A i \in DOMAIN returned' : returned'[i].handle = returned'[i].chunk
      <3> HIDE DEF r
      <3>1. /\ Len(returned') = Len(returned) + 1 /\ returned'[Len(returned) + 1] = r
            /\ \A i \in 1..Len(returned) : returned'[i] = returned[i]
            /\ DOMAIN returned' = 1..(Len(returned) + 1)
        BY <2>3, <2>4, <2>5
      <3>2. \A i \in 1..Len(returned) : returned[i].handle = returned[i].chunk
        BY <2>5 DEF HandlesMatch
      <3>3. \A i \in 1..(Len(returned) + 1) : i \in 1..Len(returned) \/ i = Len(returned) + 1
        BY <2>5
      <3>4. QED
        BY <2>4, <3>1, <3>2, <3>3
    <2>7. QED
      BY <2>3, <2>6 DEF HandlesMatch
  <1>5. ASSUME NEW k \in Decoders, Decoded(k) PROVE HandlesMatch'
    <2>1. PICK j \in DOMAIN output_queue[k] :
            /\ output_queue' = [output_queue EXCEPT ![k][j].done = TRUE]
            /\ UNCHANGED <<handle_queue, returned>>
      BY <1>5 DEF Decoded
    <2>2. ASSUME NEW d \in Decoders
          PROVE  /\ Len(handle_queue[d]) = Len(output_queue'[d])
                 /\ \A i \in DOMAIN output_queue'[d] :
                      handle_queue[d][i] = output_queue'[d][i].chunk
      <3>1. output_queue[d] \in Seq(JobType) /\ Len(handle_queue[d]) = Len(output_queue[d])
            /\ \A i \in 1..Len(output_queue[d]) : handle_queue[d][i] = output_queue[d][i].chunk
        BY <2>2 DEF TypeOK, HandlesMatch
      <3>2. CASE d = k
        <4>1. output_queue'[d] = [output_queue[d] EXCEPT ![j] = [@ EXCEPT !.done = TRUE]]
          BY <2>1, <3>2 DEF TypeOK
        <4>2. \A i \in DOMAIN output_queue[d] :
                output_queue'[d][i].chunk = output_queue[d][i].chunk
          BY <3>1, <4>1, JobDone
        <4>3. /\ DOMAIN output_queue'[d] = DOMAIN output_queue[d]
              /\ Len(output_queue'[d]) = Len(output_queue[d])
          BY <3>1, <4>1
        <4>4. QED
          BY <3>1, <4>2, <4>3
      <3>3. CASE d # k
        BY <2>1, <3>1, <3>3 DEF TypeOK
      <3>4. QED
        BY <3>2, <3>3
    <2>3. QED
      BY <2>1, <2>2 DEF HandlesMatch
  <1>6. ASSUME NEW i \in 1..NumChunks, ThreadEnds(i) PROVE HandlesMatch'
    BY <1>6 DEF ThreadEnds, HandlesMatch
  <1>7. CASE UNCHANGED vars
    BY <1>7 DEF vars, HandlesMatch
  <1>8. QED
    BY <1>1, <1>2, <1>3, <1>4, <1>5, <1>6, <1>7
    DEF Next, Enqueue, NextColumnChunk, Works, Done

-----------------------------------------------------------------------------
(* The heap.                                                               *)

\* Only a chunk for the hardware touches the heap.
LEMMA HeapFrame ==
  ASSUME [Next]_vars, ~EnqueueHardware
  PROVE  UNCHANGED heap
  BY DEF Next, Enqueue, NextColumnChunk, Works, Done, vars, EnqueueSoftware, NextHardware,
         NextSoftware, Decoded, ThreadEnds

\* The heap after a charge, state by state.
LEMMA HeapAfter ==
  ASSUME TypeOK, EnqueueHardware
  PROVE  \E s \in Top, cost \in Costs :
           /\ s \in heap /\ s.id \in Decoders /\ s.available_time \in Nat /\ cost \in Nat
           /\ heap' = (heap \ {s}) \cup {[id |-> s.id, available_time |-> s.available_time + cost]}
  <1>1. PICK s \in Top, cost \in Costs : Charge(s, cost)
    BY DEF EnqueueHardware
  <1>2. QED
    BY <1>1, ChargeType DEF TypeOK

LEMMA HeapWholeInductive ==
  ASSUME TypeOK, HeapWhole, [Next]_vars
  PROVE  HeapWhole'
  <1>1. CASE EnqueueHardware
    <2>1. PICK s \in Top, cost \in Costs :
            /\ s \in heap /\ s.id \in Decoders
            /\ heap' = (heap \ {s})
                         \cup {[id |-> s.id, available_time |-> s.available_time + cost]}
      BY <1>1, HeapAfter
    <2> DEFINE n == [id |-> s.id, available_time |-> s.available_time + cost]
    <2>2. n.id = s.id /\ n \in heap'
      BY <2>1
    <2>3. \A t \in heap' : t = n \/ (t \in heap /\ t # s)
      BY <2>1
    <2>4. \A t \in heap : t.id = s.id => t = s
      BY <2>1 DEF HeapWhole
    <2>5. \A d \in Decoders : \E t \in heap' : t.id = d
      <3>1. ASSUME NEW d \in Decoders PROVE \E t \in heap' : t.id = d
        <4>1. PICK t \in heap : t.id = d
          BY <3>1 DEF HeapWhole
        <4>2. CASE t = s
          BY <2>2, <4>1, <4>2
        <4>3. CASE t # s
          BY <2>1, <4>1, <4>3
        <4>4. QED
          BY <4>2, <4>3
      <3>2. QED
        BY <3>1
    <2> HIDE DEF n
    <2>6. \A t, u \in heap' : t.id = u.id => t = u
      BY <2>2, <2>3, <2>4 DEF HeapWhole
    <2>7. QED
      BY <2>5, <2>6 DEF HeapWhole
  <1>2. CASE ~EnqueueHardware
    BY <1>2, HeapFrame DEF HeapWhole
  <1>3. QED
    BY <1>1, <1>2

LEMMA BalancedInductive ==
  ASSUME TypeOK, Balanced, [Next]_vars
  PROVE  Balanced'
  <1>1. CASE EnqueueHardware
    <2>1. PICK s \in Top, cost \in Costs :
            /\ s \in heap /\ s.available_time \in Nat /\ cost \in Nat
            /\ heap' = (heap \ {s})
                         \cup {[id |-> s.id, available_time |-> s.available_time + cost]}
      BY <1>1, HeapAfter
    <2> DEFINE n == [id |-> s.id, available_time |-> s.available_time + cost]
    <2>2. n.available_time = s.available_time + cost
      OBVIOUS
    <2>3. \A t \in heap' : t = n \/ t \in heap
      BY <2>1
    <2>4. \A t \in heap : t.available_time \in Nat /\ s.available_time <= t.available_time
      BY <2>1 DEF TypeOK, Top
    <2> HIDE DEF n
    <2>5. ASSUME NEW t \in heap', NEW u \in heap', t.available_time # 0
          PROVE  \E c \in Costs : t.available_time <= u.available_time + c
      <3>1. CASE t = n /\ u \in heap
        <4>1. t.available_time <= u.available_time + cost
          BY <2>1, <2>2, <2>4, <3>1
        <4>2. QED
          BY <4>1
      <3>2. CASE t = n /\ u = n
        <4>1. t.available_time <= u.available_time + cost
          BY <2>1, <2>2, <3>2
        <4>2. QED
          BY <4>1
      <3>3. CASE t \in heap /\ u \in heap
        BY <2>5, <3>3 DEF Balanced
      <3>4. CASE t \in heap /\ u = n
        <4>1. PICK c \in Costs : t.available_time <= s.available_time + c
          BY <2>1, <2>5, <3>4 DEF Balanced
        <4>2. t.available_time <= u.available_time + c
          BY <2>1, <2>2, <2>4, <3>4, <4>1, StackSizes
        <4>3. QED
          BY <4>2
      <3>5. QED
        BY <2>3, <3>1, <3>2, <3>3, <3>4
    <2>6. QED
      BY <2>5 DEF Balanced
  <1>2. CASE ~EnqueueHardware
    BY <1>2, HeapFrame DEF Balanced
  <1>3. QED
    BY <1>1, <1>2

-----------------------------------------------------------------------------
(* The theorems.                                                           *)

LEMMA InitHolds ==
  ASSUME Init
  PROVE  TypeOK /\ HandlesMatch /\ HeapWhole /\ Balanced
  <1>1. heap = {[id |-> d, available_time |-> 0] : d \in Decoders}
    BY DEF Init
  <1>2. TypeOK
    BY <1>1, StackSizes DEF Init, TypeOK
  <1>3. HandlesMatch
    BY DEF Init, HandlesMatch
  <1>4. HeapWhole
    <2>1. \A d \in Decoders : [id |-> d, available_time |-> 0] \in heap
                              /\ [id |-> d, available_time |-> 0].id = d
      BY <1>1
    <2>2. \A t \in heap : t = [id |-> t.id, available_time |-> 0]
      BY <1>1
    <2>3. \A d \in Decoders : \E t \in heap : t.id = d
      BY <2>1
    <2>4. \A t, u \in heap : t.id = u.id => t = u
      BY <2>2
    <2>5. QED
      BY <2>3, <2>4 DEF HeapWhole
  <1>5. Balanced
    BY <1>1 DEF Balanced
  <1>6. QED
    BY <1>2, <1>3, <1>4, <1>5

\* Every queue of every level holds chunks that were enqueued, and the heap decoders
\* with the cost they were charged, whatever the application and the decoders do.
THEOREM TypeCorrect == Spec => [](TypeOK /\ HandlesMatch)
  <1>1. Init => TypeOK /\ HandlesMatch
    BY InitHolds
  <1>2. TypeOK /\ HandlesMatch /\ [Next]_vars => (TypeOK /\ HandlesMatch)'
    BY TypeInductive, HandlesInductive
  <1>3. QED
    BY <1>1, <1>2, PTL DEF Spec

\* No column chunk is ever returned under the num_values and the type of another: the
\* Adaptor's handle_queue_ and its reader's output_queue_ always hold the same chunks.
THEOREM HandlesAlwaysMatch == Spec => []HandlesMatch
  BY TypeCorrect, PTL

\* The MultiReader never loses a decoder and never has one in its heap twice.
THEOREM HeapAlwaysWhole == Spec => []HeapWhole
  <1>1. Init => HeapWhole
    BY InitHolds
  <1>2. TypeOK /\ HeapWhole /\ [Next]_vars => HeapWhole'
    BY HeapWholeInductive
  <1>3. QED
    BY <1>1, <1>2, TypeCorrect, PTL DEF Spec

\* However many chunks are handed out, and whatever they cost, no decoder is charged
\* more than one chunk beyond any other.
THEOREM AlwaysBalanced == Spec => []Balanced
  <1>1. Init => Balanced
    BY InitHolds
  <1>2. TypeOK /\ Balanced /\ [Next]_vars => Balanced'
    BY BalancedInductive
  <1>3. QED
    BY <1>1, <1>2, TypeCorrect, PTL DEF Spec

-----------------------------------------------------------------------------
(***************************************************************************)
(* The stack of readers implements ReaderInterface, for every number of    *)
(* decoders and of chunks and every cost: chunks come back in the order    *)
(* of enqueue_column_chunk although four levels of queues are between, and *)
(* decoders and threads finish in any order.                               *)
(***************************************************************************)
(* The invariant.                                                          *)

\* The queue q holds the chunks of S, each once, oldest first.
Lists(q, S) ==
  /\ \A i \in DOMAIN q : q[i].chunk \in S
  /\ \A c \in S : \E i \in DOMAIN q : q[i].chunk = c
  /\ \A i, j \in DOMAIN q : i < j => q[i].chunk < q[j].chunk

Kinds == {"HARDWARE", "SOFTWARE"}

\* The chunks of calls that were not answered yet and went to this kind of reader.
Of(kind) == {c \in (Len(returned) + 1)..calls : chosen[c - Len(returned)] = kind}

\* The chunks that a plan gives decoder d.
Planned == [chunk : 1..NumChunks, id : Decoders]
On(plan, d) == {plan[j].chunk : j \in {k \in DOMAIN plan : plan[k].id = d}}

\* Every level has a queue of its own: HybridReader one entry for each unanswered call,
\* CPUReader the chunks for software; and there is a plan, chunks with their decoders,
\* of which MultiReader keeps the decoders and each HardwareReader its own chunks.
CallsCounted == Len(chosen) = calls - Len(returned)
ThreadsInOrder == Lists(threads, Of("SOFTWARE"))
HardwareInOrder ==
  \E plan \in Seq(Planned) :
    /\ Lists(plan, Of("HARDWARE"))
    /\ Len(plan) = Len(scheduled) /\ \A j \in DOMAIN plan : plan[j].id = scheduled[j]
    /\ \A d \in Decoders : Lists(output_queue[d], On(plan, d))

InOrder == CallsCounted /\ ThreadsInOrder /\ HardwareInOrder

-----------------------------------------------------------------------------
(* Queues in order.                                                        *)

LEMMA ListsAppend ==
  ASSUME NEW T, NEW q \in Seq(T), NEW x \in T, NEW S, S \subseteq Int, x.chunk \in Int,
         Lists(q, S), \A c \in S : c < x.chunk
  PROVE  Lists(Append(q, x), S \cup {x.chunk})
  <1> DEFINE r == Append(q, x)
  <1>1. /\ DOMAIN q = 1..Len(q) /\ DOMAIN r = 1..(Len(q) + 1) /\ Len(q) \in Nat
        /\ \A i \in 1..Len(q) : r[i] = q[i]
        /\ r[Len(q) + 1] = x
    BY AppendElements
  <1> HIDE DEF r
  <1>2. \A i \in DOMAIN r : i \in DOMAIN q \/ i = Len(q) + 1
    BY <1>1
  <1>3. \A i \in DOMAIN r : r[i].chunk \in S \cup {x.chunk}
    BY <1>1, <1>2 DEF Lists
  <1>4. \A c \in S \cup {x.chunk} : \E i \in DOMAIN r : r[i].chunk = c
    <2>1. Len(q) + 1 \in DOMAIN r /\ \A i \in DOMAIN q : i \in DOMAIN r
      BY <1>1
    <2>2. QED
      BY <1>1, <2>1 DEF Lists
  <1>5. ASSUME NEW i \in DOMAIN r, NEW j \in DOMAIN r, i < j
        PROVE  r[i].chunk < r[j].chunk
    <2>1. i \in 1..Len(q)
      BY <1>1, <1>5
    <2>2. CASE j \in 1..Len(q)
      BY <1>1, <1>5, <2>1, <2>2 DEF Lists
    <2>3. CASE j = Len(q) + 1
      BY <1>1, <2>1, <2>3 DEF Lists
    <2>4. QED
      BY <1>1, <1>2, <2>2, <2>3
  <1>6. QED
    BY <1>3, <1>4, <1>5 DEF Lists, r

\* The head of a queue is its oldest chunk.
LEMMA ListsHead ==
  ASSUME NEW T, NEW q \in Seq(T), NEW S, S \subseteq Int, Lists(q, S),
         NEW m \in S, \A c \in S : m <= c
  PROVE  q # <<>> /\ Head(q).chunk = m
  <1>1. PICK i \in DOMAIN q : q[i].chunk = m
    BY DEF Lists
  <1>2. DOMAIN q = 1..Len(q) /\ Len(q) \in Nat /\ 1 \in DOMAIN q /\ q # <<>>
    BY <1>1
  <1>3. q[1].chunk \in S
    BY <1>2 DEF Lists
  <1>4. i = 1
    <2>1. CASE 1 < i
      <3>1. q[1].chunk < q[i].chunk
        BY <1>1, <1>2, <2>1 DEF Lists
      <3>2. q[1].chunk < m /\ m <= q[1].chunk /\ m \in Int /\ q[1].chunk \in Int
        BY <1>1, <1>3, <3>1
      <3>3. QED
        BY <3>2
    <2>2. QED
      BY <1>1, <1>2, <2>1
  <1>5. Head(q) = q[1]
    BY <1>2, TailElements
  <1>6. QED
    BY <1>1, <1>2, <1>4, <1>5

LEMMA ListsTail ==
  ASSUME NEW T, NEW q \in Seq(T), NEW S, S \subseteq Int, Lists(q, S), q # <<>>
  PROVE  Lists(Tail(q), S \ {Head(q).chunk})
  <1> DEFINE r == Tail(q)
  <1>1. /\ Head(q) = q[1] /\ Len(q) \in Nat \ {0} /\ Len(r) = Len(q) - 1 /\ r \in Seq(T)
        /\ \A i \in 1..(Len(q) - 1) : r[i] = q[i + 1]
    BY TailElements
  <1>2. DOMAIN q = 1..Len(q) /\ DOMAIN r = 1..(Len(q) - 1)
    BY <1>1
  <1> HIDE DEF r
  <1>3. \A i \in DOMAIN r : i \in Nat /\ 1 \in DOMAIN q /\ i + 1 \in DOMAIN q /\ 1 < i + 1 /\ r[i] = q[i + 1]
    BY <1>1, <1>2
  <1>4. \A i \in DOMAIN r : r[i].chunk \in S \ {q[1].chunk}
    <2>1. ASSUME NEW i \in DOMAIN r PROVE r[i].chunk \in S /\ r[i].chunk # q[1].chunk
      <3>1. q[i + 1].chunk \in S /\ q[1].chunk \in S /\ q[1].chunk < q[i + 1].chunk
        BY <1>3 DEF Lists
      <3>2. q[i + 1].chunk \in Int /\ q[1].chunk \in Int /\ r[i].chunk = q[i + 1].chunk
        BY <1>3, <3>1
      <3>3. q[i + 1].chunk # q[1].chunk
        BY <3>1, <3>2
      <3>4. QED
        BY <3>1, <3>2, <3>3
    <2>2. QED
      BY <2>1
  <1>5. ASSUME NEW c \in S, c # q[1].chunk PROVE \E i \in DOMAIN r : r[i].chunk = c
    <2>1. PICK k \in DOMAIN q : q[k].chunk = c
      BY DEF Lists
    <2>2. k - 1 \in DOMAIN r /\ r[k - 1] = q[(k - 1) + 1] /\ (k - 1) + 1 = k
      BY <1>1, <1>2, <1>5, <2>1
    <2>3. QED
      BY <2>1, <2>2
  <1>6. ASSUME NEW i \in DOMAIN r, NEW j \in DOMAIN r, i < j PROVE r[i].chunk < r[j].chunk
    <2>1. i + 1 < j + 1
      BY <1>3, <1>6
    <2>2. q[i + 1].chunk < q[j + 1].chunk
      BY <1>3, <2>1 DEF Lists
    <2>3. QED
      BY <1>3, <2>2
  <1>7. QED
    BY <1>1, <1>4, <1>5, <1>6 DEF Lists, r

\* A job that is done is the same chunk's.
LEMMA ListsDone ==
  ASSUME NEW q \in Seq(JobType), NEW i \in DOMAIN q, NEW S, Lists(q, S)
  PROVE  Lists([q EXCEPT ![i].done = TRUE], S)
  <1> DEFINE r == [q EXCEPT ![i].done = TRUE]
  <1>1. DOMAIN r = DOMAIN q
    OBVIOUS
  <1>2. \A k \in DOMAIN q : r[k].chunk = q[k].chunk
    BY JobDone
  <1> HIDE DEF r
  <1>3. Lists(r, S)
    BY <1>1, <1>2 DEF Lists
  <1>4. QED
    BY <1>3 DEF r

-----------------------------------------------------------------------------
(* The calls.                                                              *)

LEMMA OfType ==
  ASSUME TypeOK, InOrder
  PROVE  /\ calls \in Nat /\ Len(returned) \in Nat /\ Len(chosen) \in Nat
         /\ Len(returned) <= calls /\ \A kind : Of(kind) \subseteq Int
         /\ \A kind : \A c \in Of(kind) : c <= calls /\ Len(returned) + 1 <= c
  <1>1. calls \in Nat /\ Len(returned) \in Nat /\ Len(chosen) \in Nat
    BY StackSizes DEF TypeOK
  <1>2. QED
    BY <1>1 DEF InOrder, CallsCounted, Of

\* A call of enqueue_column_chunk is the newest of its kind.
LEMMA OfEnqueue ==
  ASSUME TypeOK, InOrder, NEW kind \in Kinds,
         calls' = calls + 1, chosen' = Append(chosen, kind), returned' = returned
  PROVE  /\ CallsCounted'
         /\ \A k \in Kinds : Of(k)' = IF k = kind THEN Of(k) \cup {calls'} ELSE Of(k)
  <1>1. /\ calls \in Nat /\ Len(returned) \in Nat /\ Len(chosen) \in Nat
        /\ Len(chosen) = calls - Len(returned)
    BY OfType DEF InOrder, CallsCounted
  <1>2. /\ Len(chosen') = Len(chosen) + 1 /\ chosen'[Len(chosen) + 1] = kind
        /\ \A i \in 1..Len(chosen) : chosen'[i] = chosen[i]
    BY AppendElements DEF TypeOK, Kinds
  <1>3. CallsCounted'
    BY <1>1, <1>2 DEF CallsCounted
  <1>4. \A c \in (Len(returned) + 1)..calls : chosen'[c - Len(returned)] = chosen[c - Len(returned)]
    BY <1>1, <1>2
  <1>5. /\ (Len(returned) + 1)..(calls + 1) = ((Len(returned) + 1)..calls) \cup {calls + 1}
        /\ chosen'[(calls + 1) - Len(returned)] = kind
    BY <1>1, <1>2
  <1>6. ASSUME NEW k \in Kinds
        PROVE  Of(k)' = IF k = kind THEN Of(k) \cup {calls'} ELSE Of(k)
    <2>1. Of(k)' = {c \in (Len(returned) + 1)..(calls + 1) : chosen'[c - Len(returned)] = k}
      BY DEF Of
    <2>2. \A c : c \in Of(k)' <=> (c \in Of(k) \/ (c = calls + 1 /\ k = kind))
      BY <1>4, <1>5, <2>1 DEF Of
    <2>3. QED
      BY <2>2
  <1>7. QED
    BY <1>3, <1>6

\* A call of next_column_chunk answers the oldest.
LEMMA OfNext ==
  ASSUME TypeOK, InOrder, chosen # <<>>, NEW kind \in Kinds, Head(chosen) = kind,
         calls' = calls, chosen' = Tail(chosen), Len(returned') = Len(returned) + 1
  PROVE  /\ CallsCounted' /\ Len(returned) + 1 \in Of(kind)
         /\ \A k \in Kinds : Of(k)' = Of(k) \ {Len(returned) + 1}
         /\ \A k \in Kinds : k # kind => Of(k)' = Of(k)
  <1>1. /\ calls \in Nat /\ Len(returned) \in Nat /\ Len(chosen) \in Nat
        /\ Len(chosen) = calls - Len(returned)
    BY OfType DEF InOrder, CallsCounted
  <1>2. /\ chosen[1] = kind /\ Len(chosen) # 0 /\ Len(chosen') = Len(chosen) - 1
        /\ \A i \in 1..(Len(chosen) - 1) : chosen'[i] = chosen[i + 1]
    BY TailElements DEF TypeOK, Kinds
  <1>3. CallsCounted'
    BY <1>1, <1>2 DEF CallsCounted
  <1>4. Len(returned) + 1 \in Of(kind)
    <2>1. (Len(returned) + 1) - Len(returned) = 1
      BY <1>1
    <2>2. QED
      BY <1>1, <1>2, <2>1 DEF Of
  <1>5. \A c \in (Len(returned) + 2)..calls :
          chosen'[c - (Len(returned) + 1)] = chosen[c - Len(returned)]
    <2>1. ASSUME NEW c \in (Len(returned) + 2)..calls
          PROVE  chosen'[c - (Len(returned) + 1)] = chosen[c - Len(returned)]
      <3>1. /\ c - (Len(returned) + 1) \in 1..(Len(chosen) - 1)
            /\ (c - (Len(returned) + 1)) + 1 = c - Len(returned)
        BY <1>1
      <3>2. QED
        BY <1>2, <3>1
    <2>2. QED
      BY <2>1
  <1>6. ASSUME NEW k \in Kinds
        PROVE  Of(k)' = Of(k) \ {Len(returned) + 1}
    <2>1. Of(k)' = {c \in (Len(returned) + 2)..calls : chosen'[c - (Len(returned) + 1)] = k}
      <3>1. (Len(returned) + 1) + 1 = Len(returned) + 2
        BY <1>1
      <3>2. QED
        BY <3>1 DEF Of
    <2>2. \A c : c \in (Len(returned) + 2)..calls
                 <=> c \in (Len(returned) + 1)..calls /\ c # Len(returned) + 1
      BY <1>1
    <2>3. \A c : c \in Of(k)' <=> c \in Of(k) /\ c # Len(returned) + 1
      BY <1>5, <2>1, <2>2 DEF Of
    <2>4. QED
      BY <2>3
  <1>7. ASSUME NEW k \in Kinds, k # kind PROVE Of(k)' = Of(k)
    <2>1. Len(returned) + 1 \notin Of(k)
      <3>1. chosen[(Len(returned) + 1) - Len(returned)] # k
        BY <1>1, <1>2, <1>7
      <3>2. QED
        BY <3>1 DEF Of
    <2>2. QED
      BY <1>6, <2>1
  <1>8. QED
    BY <1>3, <1>4, <1>6, <1>7

-----------------------------------------------------------------------------
(* The plan.                                                               *)

LEMMA OnType ==
  ASSUME NEW plan \in Seq(Planned), NEW S, S \subseteq Int, Lists(plan, S), NEW d
  PROVE  /\ On(plan, d) \subseteq S
         /\ \A j \in DOMAIN plan : plan[j] \in Planned /\ plan[j].chunk \in On(plan, plan[j].id)
  <1>1. \A j \in DOMAIN plan : plan[j] \in Planned
    OBVIOUS
  <1>2. QED
    BY <1>1 DEF Lists, On

LEMMA OnAppend ==
  ASSUME NEW plan \in Seq(Planned), NEW x \in Planned, NEW d
  PROVE  On(Append(plan, x), d) = IF d = x.id THEN On(plan, d) \cup {x.chunk} ELSE On(plan, d)
  <1> DEFINE r == Append(plan, x)
  <1>1. /\ DOMAIN plan = 1..Len(plan) /\ DOMAIN r = 1..(Len(plan) + 1) /\ Len(plan) \in Nat
        /\ \A j \in 1..Len(plan) : r[j] = plan[j]
        /\ r[Len(plan) + 1] = x
    BY AppendElements
  <1> HIDE DEF r
  <1>2. \A j : j \in DOMAIN r <=> j \in DOMAIN plan \/ j = Len(plan) + 1
    BY <1>1
  <1>3. \A c : c \in On(r, d) <=> c \in On(plan, d) \/ (d = x.id /\ c = x.chunk)
    <2>1. ASSUME NEW c \in On(r, d) PROVE c \in On(plan, d) \/ (d = x.id /\ c = x.chunk)
      BY <1>1, <1>2 DEF On
    <2>2. ASSUME NEW c \in On(plan, d) PROVE c \in On(r, d)
      BY <1>1, <1>2 DEF On
    <2>3. d = x.id => x.chunk \in On(r, d)
      BY <1>1, <1>2 DEF On
    <2>4. QED
      BY <2>1, <2>2, <2>3
  <1>4. QED
    BY <1>3 DEF r

LEMMA OnTail ==
  ASSUME NEW plan \in Seq(Planned), plan # <<>>, NEW S, S \subseteq Int, Lists(plan, S), NEW d
  PROVE  On(Tail(plan), d) = IF d = Head(plan).id THEN On(plan, d) \ {Head(plan).chunk}
                             ELSE On(plan, d)
  <1> DEFINE r == Tail(plan)
  <1>1. /\ Head(plan) = plan[1] /\ Len(plan) \in Nat \ {0} /\ Len(r) = Len(plan) - 1
        /\ r \in Seq(Planned) /\ \A j \in 1..(Len(plan) - 1) : r[j] = plan[j + 1]
    BY TailElements
  <1>2. DOMAIN plan = 1..Len(plan) /\ DOMAIN r = 1..(Len(plan) - 1)
    BY <1>1
  <1> HIDE DEF r
  <1>3. \A j \in DOMAIN r : j + 1 \in DOMAIN plan /\ r[j] = plan[j + 1]
    BY <1>1, <1>2
  <1>4. \A k \in DOMAIN plan : k = 1 \/ (k - 1 \in DOMAIN r /\ r[k - 1] = plan[k])
    <2>1. ASSUME NEW k \in DOMAIN plan, k # 1 PROVE k - 1 \in DOMAIN r /\ r[k - 1] = plan[k]
      <3>1. k - 1 \in 1..(Len(plan) - 1) /\ (k - 1) + 1 = k
        BY <1>1, <1>2, <2>1
      <3>2. QED
        BY <1>1, <1>2, <3>1
    <2>2. QED
      BY <2>1
  <1>5. \A k \in DOMAIN plan : k = 1 \/ plan[k].chunk # plan[1].chunk
    <2>1. ASSUME NEW k \in DOMAIN plan, k # 1 PROVE plan[k].chunk # plan[1].chunk
      <3>1. 1 < k /\ 1 \in DOMAIN plan
        BY <1>1, <1>2, <2>1
      <3>2. plan[1].chunk < plan[k].chunk /\ plan[1].chunk \in Int /\ plan[k].chunk \in Int
        BY <3>1 DEF Lists
      <3>3. QED
        BY <3>2
    <2>2. QED
      BY <2>1
  <1>6. \A c : c \in On(r, d) <=> c \in On(plan, d) /\ ~(d = plan[1].id /\ c = plan[1].chunk)
    <2>1. ASSUME NEW c \in On(r, d)
          PROVE  c \in On(plan, d) /\ ~(d = plan[1].id /\ c = plan[1].chunk)
      <3>1. PICK j \in DOMAIN r : r[j].id = d /\ c = r[j].chunk
        BY DEF On
      <3>2. j + 1 \in DOMAIN plan /\ r[j] = plan[j + 1] /\ j + 1 # 1
        BY <1>2, <1>3
      <3>3. c \in On(plan, d)
        BY <3>1, <3>2 DEF On
      <3>4. c # plan[1].chunk
        BY <1>5, <3>1, <3>2
      <3>5. QED
        BY <3>3, <3>4
    <2>2. ASSUME NEW c \in On(plan, d), ~(d = plan[1].id /\ c = plan[1].chunk)
          PROVE  c \in On(r, d)
      <3>1. PICK k \in DOMAIN plan : plan[k].id = d /\ c = plan[k].chunk
        BY DEF On
      <3>2. k # 1
        BY <2>2, <3>1
      <3>3. QED
        BY <1>4, <3>1, <3>2 DEF On
    <2>3. QED
      BY <2>1, <2>2
  <1>7. d # plan[1].id => On(r, d) = On(plan, d)
    BY <1>6
  <1>8. d = plan[1].id => On(r, d) = On(plan, d) \ {plan[1].chunk}
    BY <1>6
  <1>9. QED
    BY <1>1, <1>7, <1>8 DEF r

-----------------------------------------------------------------------------
(* The steps.                                                              *)

LEMMA EnqueueHardwareInOrder ==
  ASSUME TypeOK, InOrder, EnqueueHardware
  PROVE  InOrder'
  <1>1. /\ calls' = calls + 1 /\ chosen' = Append(chosen, "HARDWARE")
        /\ UNCHANGED <<threads, returned>> /\ calls' \in 1..NumChunks
    BY StackSizes DEF EnqueueHardware, TypeOK
  <1>2. PICK s \in Top, cost \in Costs :
          /\ output_queue' = [output_queue EXCEPT ![s.id] = Append(@, Job(calls'))]
          /\ scheduled' = Append(scheduled, s.id) /\ Charge(s, cost)
    BY DEF EnqueueHardware, Schedule
  <1>3. s.id \in Decoders
    BY <1>2, ChargeType DEF TypeOK
  <1>4. /\ CallsCounted' /\ Of("SOFTWARE")' = Of("SOFTWARE")
        /\ Of("HARDWARE")' = Of("HARDWARE") \cup {calls'}
    <2>1. \A k \in Kinds : Of(k)' = IF k = "HARDWARE" THEN Of(k) \cup {calls'} ELSE Of(k)
      BY <1>1, OfEnqueue DEF Kinds
    <2>2. CallsCounted'
      BY <1>1, OfEnqueue DEF Kinds
    <2>3. QED
      BY <2>1, <2>2 DEF Kinds
  <1>5. \A c \in Of("HARDWARE") : c < calls'
    BY <1>1, OfType
  <1>6. PICK plan \in Seq(Planned) :
          /\ Lists(plan, Of("HARDWARE"))
          /\ Len(plan) = Len(scheduled) /\ \A j \in DOMAIN plan : plan[j].id = scheduled[j]
          /\ \A d \in Decoders : Lists(output_queue[d], On(plan, d))
    BY DEF InOrder, HardwareInOrder
  <1> DEFINE x == [chunk |-> calls', id |-> s.id]
             r == Append(plan, x)
  <1>7. x \in Planned /\ x.chunk = calls' /\ x.id = s.id /\ calls' \in Int
    BY <1>1, <1>3 DEF Planned
  <1> HIDE DEF x
  <1>8. Of("HARDWARE") \subseteq Int
    BY OfType
  <1>9. r \in Seq(Planned) /\ Lists(r, Of("HARDWARE")')
    BY <1>4, <1>5, <1>6, <1>7, <1>8, ListsAppend, AppendElements
  <1>10. Len(r) = Len(scheduled') /\ \A j \in DOMAIN r : r[j].id = scheduled'[j]
    <2>1. /\ Len(r) = Len(plan) + 1 /\ DOMAIN r = 1..(Len(plan) + 1) /\ Len(plan) \in Nat
          /\ DOMAIN plan = 1..Len(plan)
          /\ \A i \in 1..Len(plan) : r[i] = plan[i]
          /\ r[Len(plan) + 1] = x
      BY <1>7, AppendElements
    <2>2. /\ Len(scheduled') = Len(scheduled) + 1
          /\ \A i \in 1..Len(scheduled) : scheduled'[i] = scheduled[i]
          /\ scheduled'[Len(scheduled) + 1] = s.id
      BY <1>2, <1>3, AppendElements DEF TypeOK
    <2> HIDE DEF r
    <2>3. \A j \in DOMAIN r : j \in 1..Len(plan) \/ j = Len(plan) + 1
      BY <2>1
    <2>4. QED
      BY <1>6, <1>7, <2>1, <2>2, <2>3
  <1>11. ASSUME NEW d \in Decoders PROVE Lists(output_queue'[d], On(r, d))
    <2>1. On(r, d) = IF d = s.id THEN On(plan, d) \cup {calls'} ELSE On(plan, d)
      BY <1>7, OnAppend
    <2>2. CASE d = s.id
      <3>1. output_queue'[d] = Append(output_queue[d], Job(calls'))
        BY <1>2, <1>3, <2>2 DEF TypeOK
      <3>2. /\ Job(calls') \in JobType /\ Job(calls').chunk = calls'
            /\ output_queue[d] \in Seq(JobType)
        BY <1>1 DEF Job, JobType, TypeOK
      <3>3. On(plan, d) \subseteq Of("HARDWARE")
        BY <1>6, <1>8, OnType
      <3>4. Lists(Append(output_queue[d], Job(calls')), On(plan, d) \cup {Job(calls').chunk})
        <4>1. On(plan, d) \subseteq Int /\ \A c \in On(plan, d) : c < Job(calls').chunk
          BY <1>5, <1>8, <3>2, <3>3
        <4>2. Lists(output_queue[d], On(plan, d)) /\ Job(calls').chunk \in Int
          BY <1>6, <1>7, <3>2
        <4>3. QED
          BY <3>2, <4>1, <4>2, ListsAppend
      <3>5. QED
        BY <2>1, <2>2, <3>1, <3>2, <3>4
    <2>3. CASE d # s.id
      <3>1. output_queue'[d] = output_queue[d]
        BY <1>2, <2>3 DEF TypeOK
      <3>2. QED
        BY <1>6, <2>1, <2>3, <3>1
    <2>4. QED
      BY <2>2, <2>3
  <1> HIDE DEF r
  <1>12. HardwareInOrder'
    BY <1>9, <1>10, <1>11 DEF HardwareInOrder
  <1>13. ThreadsInOrder'
    BY <1>1, <1>4 DEF InOrder, ThreadsInOrder
  <1>14. QED
    BY <1>4, <1>12, <1>13 DEF InOrder

LEMMA EnqueueSoftwareInOrder ==
  ASSUME TypeOK, InOrder, EnqueueSoftware
  PROVE  InOrder'
  <1>1. /\ calls' = calls + 1 /\ chosen' = Append(chosen, "SOFTWARE")
        /\ UNCHANGED <<scheduled, output_queue, returned>> /\ calls' \in 1..NumChunks
        /\ threads' = Append(threads, Job(calls'))
    BY StackSizes DEF EnqueueSoftware, TypeOK
  <1>2. /\ CallsCounted' /\ Of("HARDWARE")' = Of("HARDWARE")
        /\ Of("SOFTWARE")' = Of("SOFTWARE") \cup {calls'}
    <2>1. \A k \in Kinds : Of(k)' = IF k = "SOFTWARE" THEN Of(k) \cup {calls'} ELSE Of(k)
      BY <1>1, OfEnqueue DEF Kinds
    <2>2. CallsCounted'
      BY <1>1, OfEnqueue DEF Kinds
    <2>3. QED
      BY <2>1, <2>2 DEF Kinds
  <1>3. /\ Job(calls') \in JobType /\ Job(calls').chunk = calls' /\ calls' \in Int
        /\ threads \in Seq(JobType)
    BY <1>1 DEF Job, JobType, TypeOK
  <1>4. Of("SOFTWARE") \subseteq Int /\ \A c \in Of("SOFTWARE") : c < Job(calls').chunk
    BY <1>1, <1>3, OfType
  <1>5. Lists(threads', Of("SOFTWARE")')
    BY <1>1, <1>2, <1>3, <1>4, ListsAppend DEF InOrder, ThreadsInOrder
  <1>6. HardwareInOrder'
    BY <1>1, <1>2 DEF InOrder, HardwareInOrder
  <1>7. QED
    BY <1>2, <1>5, <1>6 DEF InOrder, ThreadsInOrder

\* next_column_chunk returns the oldest chunk there is.
LEMMA NextHardwareInOrder ==
  ASSUME TypeOK, InOrder, NextHardware
  PROVE  InOrder' /\ Head(output_queue[Head(scheduled)]).chunk = Len(returned) + 1
  <1> DEFINE k == Head(scheduled)
             m == Len(returned) + 1
  <1>1. chosen # <<>> /\ scheduled # <<>> /\ k \in Decoders /\ output_queue[k] # <<>>
    BY NextHardwareQueues
  <1>2. /\ output_queue' = [output_queue EXCEPT ![k] = Tail(@)]
        /\ Head(chosen) = "HARDWARE" /\ chosen' = Tail(chosen)
        /\ scheduled' = Tail(scheduled) /\ UNCHANGED <<calls, threads>>
        /\ Len(returned') = Len(returned) + 1
    <2>1. \E r : returned' = Append(returned, r)
      BY DEF NextHardware
    <2>2. returned \in Seq([chunk : 1..NumChunks, handle : 1..NumChunks])
      BY DEF TypeOK
    <2>3. Len(returned') = Len(returned) + 1
      BY <2>1, <2>2
    <2>4. QED
      BY <2>3 DEF NextHardware
  <1>3. /\ CallsCounted' /\ m \in Of("HARDWARE")
        /\ Of("HARDWARE")' = Of("HARDWARE") \ {m} /\ Of("SOFTWARE")' = Of("SOFTWARE")
    BY <1>1, <1>2, OfNext DEF Kinds
  <1>4. Of("HARDWARE") \subseteq Int /\ \A c \in Of("HARDWARE") : m <= c
    BY OfType
  <1>5. PICK plan \in Seq(Planned) :
          /\ Lists(plan, Of("HARDWARE"))
          /\ Len(plan) = Len(scheduled) /\ \A j \in DOMAIN plan : plan[j].id = scheduled[j]
          /\ \A d \in Decoders : Lists(output_queue[d], On(plan, d))
    BY DEF InOrder, HardwareInOrder
  <1> HIDE DEF m
  <1>6. plan # <<>> /\ Head(plan).chunk = m
    BY <1>3, <1>4, <1>5, ListsHead
  <1>7. Head(plan) = plan[1] /\ 1 \in DOMAIN plan /\ Len(plan) \in Nat \ {0}
    BY <1>6, TailElements
  <1>8. Head(plan).id = k
    <2>1. k = scheduled[1]
      BY <1>1, TailElements DEF TypeOK
    <2>2. QED
      BY <1>5, <1>7, <2>1
  <1>9. m \in On(plan, k) /\ \A d : On(plan, d) \subseteq Of("HARDWARE")
    <2>1. \A d : On(plan, d) \subseteq Of("HARDWARE")
      BY <1>4, <1>5, OnType
    <2>2. plan[1].chunk \in On(plan, plan[1].id)
      BY <1>4, <1>5, <1>7, OnType
    <2>3. QED
      BY <1>6, <1>7, <1>8, <2>1, <2>2
  <1>10. Head(output_queue[k]).chunk = m
    <2>1. On(plan, k) \subseteq Int /\ \A c \in On(plan, k) : m <= c
      BY <1>4, <1>9
    <2>2. output_queue[k] \in Seq(JobType) /\ Lists(output_queue[k], On(plan, k))
      BY <1>1, <1>5 DEF TypeOK
    <2>3. QED
      BY <1>9, <2>1, <2>2, ListsHead
  <1> DEFINE r == Tail(plan)
  <1>11. r \in Seq(Planned) /\ Lists(r, Of("HARDWARE")')
    BY <1>3, <1>4, <1>5, <1>6, ListsTail, TailElements
  <1>12. Len(r) = Len(scheduled') /\ \A j \in DOMAIN r : r[j].id = scheduled'[j]
    <2>1. /\ Len(r) = Len(plan) - 1 /\ DOMAIN r = 1..(Len(plan) - 1)
          /\ DOMAIN plan = 1..Len(plan)
          /\ \A i \in 1..(Len(plan) - 1) : r[i] = plan[i + 1]
      BY <1>6, <1>7, TailElements
    <2>2. /\ Len(scheduled') = Len(scheduled) - 1
          /\ \A i \in 1..(Len(scheduled) - 1) : scheduled'[i] = scheduled[i + 1]
      BY <1>1, <1>2, TailElements DEF TypeOK
    <2> HIDE DEF r
    <2>3. \A j \in 1..(Len(plan) - 1) : j + 1 \in 1..Len(plan)
      BY <1>7
    <2>4. QED
      BY <1>5, <2>1, <2>2, <2>3
  <1>13. ASSUME NEW d \in Decoders PROVE Lists(output_queue'[d], On(r, d))
    <2>1. On(r, d) = IF d = k THEN On(plan, d) \ {m} ELSE On(plan, d)
      BY <1>4, <1>5, <1>6, <1>8, OnTail
    <2>2. CASE d = k
      <3>1. output_queue'[d] = Tail(output_queue[d]) /\ output_queue[d] \in Seq(JobType)
        BY <1>2, <2>2 DEF TypeOK
      <3>2. Lists(output_queue[d], On(plan, d)) /\ On(plan, d) \subseteq Int
        BY <1>4, <1>5, <1>9
      <3>3. Lists(Tail(output_queue[d]), On(plan, d) \ {m})
        BY <1>1, <1>10, <2>2, <3>1, <3>2, ListsTail
      <3>4. QED
        BY <2>1, <2>2, <3>1, <3>3
    <2>3. CASE d # k
      <3>1. output_queue'[d] = output_queue[d]
        BY <1>2, <2>3 DEF TypeOK
      <3>2. QED
        BY <1>5, <2>1, <2>3, <3>1
    <2>4. QED
      BY <2>2, <2>3
  <1> HIDE DEF r
  <1>14. HardwareInOrder'
    BY <1>11, <1>12, <1>13 DEF HardwareInOrder
  <1>15. ThreadsInOrder'
    BY <1>2, <1>3 DEF InOrder, ThreadsInOrder
  <1>16. QED
    BY <1>3, <1>10, <1>14, <1>15 DEF InOrder, m

LEMMA NextSoftwareInOrder ==
  ASSUME TypeOK, InOrder, NextSoftware
  PROVE  InOrder' /\ Head(threads).chunk = Len(returned) + 1
  <1> DEFINE m == Len(returned) + 1
  <1>1. chosen # <<>> /\ threads # <<>> /\ threads \in Seq(JobType)
    BY NextSoftwareQueues DEF TypeOK
  <1>2. /\ Head(chosen) = "SOFTWARE" /\ chosen' = Tail(chosen) /\ threads' = Tail(threads)
        /\ UNCHANGED <<calls, scheduled, output_queue>>
        /\ Len(returned') = Len(returned) + 1
    <2>1. \E r : returned' = Append(returned, r)
      BY DEF NextSoftware
    <2>2. returned \in Seq([chunk : 1..NumChunks, handle : 1..NumChunks])
      BY DEF TypeOK
    <2>3. Len(returned') = Len(returned) + 1
      BY <2>1, <2>2
    <2>4. QED
      BY <2>3 DEF NextSoftware
  <1>3. /\ CallsCounted' /\ m \in Of("SOFTWARE")
        /\ Of("SOFTWARE")' = Of("SOFTWARE") \ {m} /\ Of("HARDWARE")' = Of("HARDWARE")
    BY <1>1, <1>2, OfNext DEF Kinds
  <1>4. Of("SOFTWARE") \subseteq Int /\ \A c \in Of("SOFTWARE") : m <= c
    BY OfType
  <1>5. Lists(threads, Of("SOFTWARE"))
    BY DEF InOrder, ThreadsInOrder
  <1> HIDE DEF m
  <1>6. Head(threads).chunk = m
    BY <1>1, <1>3, <1>4, <1>5, ListsHead
  <1>7. Lists(threads', Of("SOFTWARE")')
    BY <1>1, <1>2, <1>3, <1>4, <1>5, <1>6, ListsTail
  <1>8. HardwareInOrder'
    BY <1>2, <1>3 DEF InOrder, HardwareInOrder
  <1>9. QED
    BY <1>3, <1>6, <1>7, <1>8 DEF InOrder, ThreadsInOrder, m

\* Decoders and threads that finish leave the order alone.
LEMMA WorksInOrder ==
  ASSUME TypeOK, InOrder, Works
  PROVE  InOrder' /\ UNCHANGED <<calls, returned>>
  <1>1. ASSUME NEW d \in Decoders, Decoded(d)
        PROVE  InOrder' /\ UNCHANGED <<calls, returned>>
    <2>1. PICK i \in DOMAIN output_queue[d] :
            output_queue' = [output_queue EXCEPT ![d][i].done = TRUE]
      BY <1>1 DEF Decoded
    <2>2. UNCHANGED <<calls, chosen, scheduled, threads, returned>>
      BY <1>1 DEF Decoded
    <2>3. ASSUME NEW e \in Decoders, NEW S, Lists(output_queue[e], S)
          PROVE  Lists(output_queue'[e], S)
      <3>1. CASE e = d
        <4>1. output_queue'[d] = [output_queue[d] EXCEPT ![i].done = TRUE]
              /\ output_queue[d] \in Seq(JobType)
          BY <1>1, <2>1 DEF TypeOK
        <4>2. QED
          BY <2>1, <2>3, <3>1, <4>1, ListsDone
      <3>2. CASE e # d
        <4>1. output_queue'[e] = output_queue[e]
          BY <2>1, <3>2 DEF TypeOK
        <4>2. QED
          BY <2>3, <4>1
      <3>3. QED
        BY <3>1, <3>2
    <2>4. Of("HARDWARE")' = Of("HARDWARE") /\ Of("SOFTWARE")' = Of("SOFTWARE")
      BY <2>2 DEF Of
    <2>5. HardwareInOrder'
      BY <2>2, <2>3, <2>4 DEF InOrder, HardwareInOrder
    <2>6. CallsCounted' /\ ThreadsInOrder'
      BY <2>2, <2>4 DEF InOrder, CallsCounted, ThreadsInOrder
    <2>7. QED
      BY <2>2, <2>5, <2>6 DEF InOrder
  <1>2. ASSUME NEW i \in 1..NumChunks, ThreadEnds(i)
        PROVE  InOrder' /\ UNCHANGED <<calls, returned>>
    <2>1. /\ i \in DOMAIN threads /\ threads' = [threads EXCEPT ![i].done = TRUE]
          /\ UNCHANGED <<calls, chosen, scheduled, output_queue, returned>>
      BY <1>2 DEF ThreadEnds
    <2>2. Of("HARDWARE")' = Of("HARDWARE") /\ Of("SOFTWARE")' = Of("SOFTWARE")
      BY <2>1 DEF Of
    <2>3. Lists(threads', Of("SOFTWARE"))
      BY <2>1, ListsDone DEF InOrder, ThreadsInOrder, TypeOK
    <2>4. ThreadsInOrder'
      BY <2>2, <2>3 DEF ThreadsInOrder
    <2>5. CallsCounted' /\ HardwareInOrder'
      BY <2>1, <2>2 DEF InOrder, CallsCounted, HardwareInOrder
    <2>6. QED
      BY <2>1, <2>4, <2>5 DEF InOrder
  <1>3. QED
    BY <1>1, <1>2 DEF Works

LEMMA InOrderInductive ==
  ASSUME TypeOK, InOrder, [Next]_vars
  PROVE  InOrder'
  <1>1. CASE UNCHANGED vars
    <2>1. Of("HARDWARE")' = Of("HARDWARE") /\ Of("SOFTWARE")' = Of("SOFTWARE")
      BY <1>1 DEF vars, Of
    <2>2. QED
      BY <1>1, <2>1 DEF vars, InOrder, CallsCounted, ThreadsInOrder, HardwareInOrder
  <1>2. QED
    BY <1>1, EnqueueHardwareInOrder, EnqueueSoftwareInOrder, NextHardwareInOrder,
       NextSoftwareInOrder, WorksInOrder
    DEF Next, Enqueue, NextColumnChunk, Done

LEMMA InitInOrder ==
  ASSUME Init
  PROVE  InOrder
  <1>1. calls = 0 /\ Len(returned) = 0 /\ Len(chosen) = 0
    BY DEF Init
  <1>2. Of("HARDWARE") = {} /\ Of("SOFTWARE") = {}
    BY <1>1 DEF Of
  <1>3. CallsCounted
    BY <1>1 DEF CallsCounted
  <1>4. \A q : q = <<>> => Lists(q, {})
    BY DEF Lists
  <1>5. HardwareInOrder
    <2> DEFINE plan == <<>>
    <2>1. plan \in Seq(Planned) /\ DOMAIN plan = {} /\ Len(plan) = Len(scheduled)
      BY DEF Init
    <2>2. \A d \in Decoders : On(plan, d) = {} /\ output_queue[d] = <<>>
      BY <2>1 DEF Init, On
    <2>3. QED
      BY <1>2, <1>4, <2>1, <2>2 DEF HardwareInOrder
  <1>6. ThreadsInOrder
    BY <1>2, <1>4 DEF Init, ThreadsInOrder
  <1>7. QED
    BY <1>3, <1>5, <1>6 DEF InOrder

-----------------------------------------------------------------------------
(* The steps of the interface.                                             *)

\* A queue of numbers in a row, one more behind it, and one less before it.
LEMMA RowAppend ==
  ASSUME NEW r \in Nat, NEW n \in Nat
  PROVE  [i \in 1..(n + 1) |-> r + i] = Append([i \in 1..n |-> r + i], r + (n + 1))
  <1> DEFINE p == [i \in 1..n |-> r + i]
  <1>1. p \in Seq(Nat) /\ Len(p) = n /\ r + (n + 1) \in Nat
    OBVIOUS
  <1>2. /\ Append(p, r + (n + 1)) \in Seq(Nat) /\ Len(Append(p, r + (n + 1))) = n + 1
        /\ \A i \in 1..n : Append(p, r + (n + 1))[i] = r + i
        /\ Append(p, r + (n + 1))[n + 1] = r + (n + 1)
    BY <1>1, AppendElements
  <1>3. DOMAIN Append(p, r + (n + 1)) = 1..(n + 1)
    BY <1>2
  <1>4. \A i \in 1..(n + 1) : i \in 1..n \/ i = n + 1
    OBVIOUS
  <1>5. Append(p, r + (n + 1)) = [i \in 1..(n + 1) |-> Append(p, r + (n + 1))[i]]
    BY <1>2, <1>3
  <1> HIDE DEF p
  <1>6. \A i \in 1..(n + 1) : Append(p, r + (n + 1))[i] = r + i
    BY <1>2, <1>4
  <1>7. Append(p, r + (n + 1)) = [i \in 1..(n + 1) |-> r + i]
    BY <1>5, <1>6
  <1>8. QED
    BY <1>7 DEF p

LEMMA RowTail ==
  ASSUME NEW r \in Nat, NEW n \in Nat \ {0}
  PROVE  LET p == [i \in 1..n |-> r + i]
         IN  /\ p # <<>> /\ Head(p) = r + 1
             /\ Tail(p) = [i \in 1..(n - 1) |-> (r + 1) + i]
  <1> DEFINE p == [i \in 1..n |-> r + i]
  <1>1. p \in Seq(Nat) /\ Len(p) = n /\ p # <<>> /\ \A i \in 1..n : p[i] = r + i
    OBVIOUS
  <1>2. /\ Head(p) = p[1] /\ Tail(p) \in Seq(Nat) /\ Len(Tail(p)) = n - 1
        /\ \A i \in 1..(n - 1) : Tail(p)[i] = p[i + 1]
    BY <1>1, TailElements
  <1>3. DOMAIN Tail(p) = 1..(n - 1)
    BY <1>2
  <1>4. Tail(p) = [i \in 1..(n - 1) |-> Tail(p)[i]]
    BY <1>2, <1>3
  <1>5. Head(p) = r + 1
    BY <1>1, <1>2
  <1> HIDE DEF p
  <1>6. \A i \in 1..(n - 1) : Tail(p)[i] = (r + 1) + i
    <2>1. ASSUME NEW i \in 1..(n - 1) PROVE Tail(p)[i] = (r + 1) + i
      <3>1. i + 1 \in 1..n /\ r + (i + 1) = (r + 1) + i
        OBVIOUS
      <3>2. QED
        BY <1>1, <1>2, <3>1
    <2>2. QED
      BY <2>1
  <1>7. Tail(p) = [i \in 1..(n - 1) |-> (r + 1) + i]
    BY <1>4, <1>6
  <1>8. QED
    BY <1>1, <1>5, <1>7 DEF p

\* A call of enqueue_column_chunk is one of the interface.
LEMMA EnqueueImplements ==
  ASSUME TypeOK, InOrder, Enqueue
  PROVE  Interface!Next
  <1>1. calls' = calls + 1 /\ returned' = returned /\ calls < NumChunks
    BY DEF Enqueue, EnqueueHardware, EnqueueSoftware
  <1>2. calls \in Nat /\ Len(returned) \in Nat /\ Len(returned) <= calls
        /\ calls + 1 \in 1..NumChunks
    BY <1>1, OfType, StackSizes DEF TypeOK
  <1> DEFINE r == Len(returned)
             n == calls - Len(returned)
  <1>3. n \in Nat /\ r \in Nat /\ r + (n + 1) = calls + 1 /\ (calls + 1) - r = n + 1
    BY <1>2
  <1>4. Unanswered' = [i \in 1..(n + 1) |-> r + i] /\ Unanswered = [i \in 1..n |-> r + i]
    BY <1>1, <1>3 DEF Unanswered
  <1> HIDE DEF r, n
  <1>5. Unanswered' = Append(Unanswered, calls + 1)
    BY <1>3, <1>4, RowAppend
  <1>6. Answers' = Answers
    BY <1>1 DEF Answers
  <1>7. Interface!EnqueueColumnChunk(calls + 1)
    BY <1>5, <1>6 DEF Interface!EnqueueColumnChunk
  <1>8. QED
    BY <1>2, <1>7 DEF Interface!Next

\* A call of next_column_chunk is one of the interface: it returns the oldest chunk.
LEMMA NextImplements ==
  ASSUME TypeOK, InOrder, HandlesMatch, HandlesMatch', NextColumnChunk
  PROVE  Interface!Next
  <1> DEFINE Answer == [chunk : 1..NumChunks, handle : 1..NumChunks]
             m == Len(returned) + 1
             n == calls - Len(returned)
  <1>1. calls' = calls /\ chosen # <<>>
    BY DEF NextColumnChunk, NextHardware, NextSoftware, HasNext
  <1>2. \E x \in Answer : returned' = Append(returned, x) /\ x.chunk = m
    <2>1. CASE NextHardware
      <3> DEFINE k == Head(scheduled)
                 x == [chunk |-> Head(output_queue[k]).chunk, handle |-> Head(handle_queue[k])]
      <3>1. x.chunk = m /\ returned' = Append(returned, x)
        BY <2>1, NextHardwareInOrder DEF NextHardware
      <3>2. k \in Decoders /\ output_queue[k] # <<>> /\ output_queue[k] \in Seq(JobType)
            /\ handle_queue[k] \in Seq(1..NumChunks)
        BY <2>1, NextHardwareQueues DEF TypeOK
      <3>3. handle_queue[k] # <<>>
        BY <3>2, TailElements DEF HandlesMatch
      <3>4. Head(output_queue[k]).chunk \in 1..NumChunks /\ Head(handle_queue[k]) \in 1..NumChunks
        BY <3>2, <3>3, TailElements, JobDone
      <3>5. x \in Answer
        BY <3>4
      <3>6. QED
        BY <3>1, <3>5
    <2>2. CASE NextSoftware
      <3> DEFINE c == Head(threads).chunk
      <3>1. c = m /\ returned' = Append(returned, [chunk |-> c, handle |-> c])
        BY <2>2, NextSoftwareInOrder DEF NextSoftware
      <3>2. c \in 1..NumChunks
        BY <2>2, NextSoftwareQueues, TailElements, JobDone DEF TypeOK
      <3> HIDE DEF c
      <3>3. [chunk |-> c, handle |-> c] \in Answer
        BY <3>2
      <3>4. QED
        BY <3>1, <3>3
    <2>3. QED
      BY <2>1, <2>2 DEF NextColumnChunk
  <1>3. PICK x \in Answer : returned' = Append(returned, x) /\ x.chunk = m
    BY <1>2
  <1>4. returned \in Seq(Answer) /\ Len(returned) \in Nat
    BY DEF TypeOK
  <1>5. /\ Len(returned') = m /\ returned'[m] = x /\ DOMAIN returned' = 1..m
        /\ DOMAIN returned = 1..Len(returned)
        /\ \A i \in 1..Len(returned) : returned'[i] = returned[i]
    BY <1>3, <1>4, AppendElements
  <1>6. x.handle = x.chunk
    <2>1. m \in DOMAIN returned'
      BY <1>4, <1>5
    <2>2. QED
      BY <1>5, <2>1 DEF HandlesMatch
  <1>7. n \in Nat \ {0} /\ calls - m = n - 1
    BY <1>1, <1>4, OfType DEF InOrder, CallsCounted, TypeOK
  <1>8. /\ Unanswered = [i \in 1..n |-> Len(returned) + i]
        /\ Unanswered' = [i \in 1..(n - 1) |-> (Len(returned) + 1) + i]
    BY <1>1, <1>5, <1>7 DEF Unanswered
  <1>9. Unanswered # <<>> /\ Head(Unanswered) = m /\ Tail(Unanswered) = Unanswered'
    <2> HIDE DEF n
    <2>1. QED
      BY <1>4, <1>7, <1>8, RowTail
  <1>10. Answers' = Append(Answers, m)
    <2> DEFINE a == Append(Answers, m)
    <2>1. Answers \in Seq(Nat) /\ Len(Answers) = Len(returned) /\ m \in Nat
      <3>1. \A i \in 1..Len(returned) : returned[i] \in Answer
        <4> HIDE DEF Answer
        <4>1. QED
          BY <1>4
      <3>2. \A y \in Answer : y.chunk \in Nat
        OBVIOUS
      <3>3. \A i \in 1..Len(returned) : returned[i].chunk \in Nat
        BY <3>1, <3>2
      <3>4. /\ Answers = [i \in 1..Len(returned) |-> Answers[i]]
            /\ \A i \in 1..Len(returned) : Answers[i] \in Nat
        BY <1>5, <3>3 DEF Answers
      <3>5. Answers \in Seq(Nat) /\ Len(Answers) = Len(returned)
        BY <1>4, <3>4
      <3>6. QED
        BY <1>4, <3>5
    <2>2. /\ a \in Seq(Nat) /\ Len(a) = m /\ a[m] = m
          /\ \A i \in 1..Len(returned) : a[i] = Answers[i]
      BY <2>1, AppendElements
    <2>3. DOMAIN a = 1..m
      BY <2>2
    <2> HIDE DEF a
    <2>4. \A i \in 1..m : i \in 1..Len(returned) \/ i = m
      BY <1>4
    <2>5. \A i \in 1..m : Answers'[i] = a[i]
      <3>1. Answers'[m] = m
        BY <1>3, <1>4, <1>5, <1>6 DEF Answers
      <3>2. \A i \in 1..Len(returned) : Answers'[i] = Answers[i]
        BY <1>4, <1>5 DEF Answers
      <3>3. QED
        BY <2>2, <2>4, <3>1, <3>2
    <2>6. Answers' = [i \in 1..m |-> Answers'[i]] /\ a = [i \in 1..m |-> a[i]]
      <3>1. DOMAIN Answers' = 1..m /\ Answers' = [i \in DOMAIN Answers' |-> Answers'[i]]
        BY <1>5 DEF Answers
      <3>2. a = [i \in DOMAIN a |-> a[i]]
        BY <2>2
      <3>3. QED
        BY <2>3, <3>1, <3>2
    <2>7. Answers' = a
      BY <2>5, <2>6
    <2>8. QED
      BY <2>7 DEF a
  <1>11. Interface!NextColumnChunk
    BY <1>9, <1>10 DEF Interface!NextColumnChunk
  <1>12. QED
    BY <1>11 DEF Interface!Next

LEMMA OtherImplements ==
  ASSUME UNCHANGED <<calls, returned>>
  PROVE  UNCHANGED Interface!readerVars
  <1>1. Unanswered' = Unanswered
    BY DEF Unanswered
  <1>2. Answers' = Answers
    BY DEF Answers
  <1>3. QED
    BY <1>1, <1>2 DEF Interface!readerVars

-----------------------------------------------------------------------------
(* The theorems.                                                           *)

\* All levels of queues tell the same story: HybridReader's choices, MultiReader's
\* schedule, the readers' own queues and the threads agree on the order of the calls.
THEOREM AlwaysInOrder == Spec => []InOrder
  <1>1. Init => InOrder
    BY InitInOrder
  <1>2. TypeOK /\ InOrder /\ [Next]_vars => InOrder'
    BY InOrderInductive
  <1>3. QED
    BY <1>1, <1>2, TypeCorrect, PTL DEF Spec

\* The stack of readers implements reader.hpp: whatever the order in which decoders and
\* threads finish, the n-th call of next_column_chunk returns the chunk of the n-th call
\* of enqueue_column_chunk, under its own type.
THEOREM ImplementsReader == Spec => ReaderSpec
  <1>1. Init => Interface!Init
    <2>1. ASSUME Init PROVE Unanswered = <<>> /\ Answers = <<>>
      <3>1. calls = 0 /\ returned = <<>>
        BY <2>1 DEF Init
      <3>2. QED
        BY <3>1 DEF Unanswered, Answers
    <2>2. QED
      BY <2>1 DEF Interface!Init
  <1>2. /\ TypeOK /\ HandlesMatch /\ InOrder /\ [Next]_vars /\ (TypeOK /\ HandlesMatch)'
        => [Interface!Next]_(Interface!readerVars)
    <2> SUFFICES ASSUME TypeOK, HandlesMatch, InOrder, [Next]_vars, HandlesMatch'
                 PROVE  [Interface!Next]_(Interface!readerVars)
      OBVIOUS
    <2>1. CASE UNCHANGED vars
      BY <2>1, OtherImplements DEF vars
    <2>2. CASE Works
      BY <2>2, WorksInOrder, OtherImplements
    <2>3. QED
      BY <2>1, <2>2, EnqueueImplements, NextImplements DEF Next, Done
  <1>3. QED
    BY <1>1, <1>2, AlwaysInOrder, TypeCorrect, PTL DEF Spec, ReaderSpec, Interface!Spec
=============================================================================
