----------------------- MODULE PageHeaderParserProofs -----------------------
(***************************************************************************)
(* Theorems about the PageHeaderParser that hold whatever bytes arrive:    *)
(* its registers keep their sizes, it never flushes an empty buffer, and   *)
(* an announced page stays announced as it is until it is taken.           *)
(***************************************************************************)
EXTENDS PageHeaderParser, FiniteSetTheorems, WellFoundedInduction, TLAPS

-----------------------------------------------------------------------------
(* Induction on numbers, and what FlattenSeq makes of sequences.           *)

\* Induction for a set in place of a predicate.
LEMMA NatSetInduction ==
  ASSUME NEW S, 0 \in S, \A n \in Nat : n \in S => n + 1 \in S
  PROVE  Nat \subseteq S
  <1> DEFINE R == OpToRel(<, Nat)
             T == {n \in Nat : n \notin S}
  <1>1. IsWellFoundedOn(R, Nat)
    BY NatLessThanWellFounded
  <1>2. SUFFICES ASSUME T # {} PROVE FALSE
    OBVIOUS
  <1>3. T \subseteq Nat
    OBVIOUS
  <1> HIDE DEF T, R
  <1>4. PICK m \in T : \A y \in T : ~(<<y, m>> \in R)
    BY <1>1, <1>2, <1>3, WFMin
  <1>5. m \in Nat /\ m \notin S
    BY <1>4 DEF T
  <1>6. m # 0
    BY <1>5
  <1>7. m - 1 \in Nat /\ m - 1 < m /\ (m - 1) + 1 = m
    BY <1>5, <1>6
  <1>8. m - 1 \notin S
    BY <1>5, <1>7
  <1>9. m - 1 \in T
    BY <1>7, <1>8 DEF T
  <1>10. <<m - 1, m>> \in R
    BY <1>5, <1>7 DEF R, OpToRel
  <1>11. QED
    BY <1>4, <1>9, <1>10

\* g is the function that FlattenSeq defines, for the first n sequences.
Flattens(g, ss, n) == g = [i \in 1..n |-> IF i = 1 THEN ss[i] ELSE g[i - 1] \o ss[i]]

LEMMA FlattensAt ==
  ASSUME NEW ss, NEW g, NEW n \in Nat, Flattens(g, ss, n), NEW i \in 1..n
  PROVE  g[i] = IF i = 1 THEN ss[i] ELSE g[i - 1] \o ss[i]
BY Zenon DEF Flattens

LEMMA FlattensExists ==
  ASSUME NEW ss, NEW n \in Nat
  PROVE  \E g : Flattens(g, ss, n)
  <1> DEFINE I == {m \in Nat : \E g : Flattens(g, ss, m)}
  <1>1. 0 \in I
    <2>1. Flattens([i \in 1..0 |-> 0], ss, 0)
      BY DEF Flattens
    <2>2. QED
      BY <2>1
  <1>2. ASSUME NEW m \in Nat, m \in I PROVE m + 1 \in I
    <2>1. PICK g : Flattens(g, ss, m)
      BY <1>2
    <2>2. PICK h : h = [i \in 1..(m + 1) |-> IF i = 1 THEN ss[i] ELSE g[i - 1] \o ss[i]]
      OBVIOUS
    <2>3. \A i \in 1..m : h[i] = g[i]
      <3>1. SUFFICES ASSUME NEW i \in 1..m PROVE h[i] = g[i]
        OBVIOUS
      <3>2. i \in 1..(m + 1)
        OBVIOUS
      <3>3. h[i] = IF i = 1 THEN ss[i] ELSE g[i - 1] \o ss[i]
        BY <2>2, <3>2, Zenon
      <3>4. QED
        BY <2>1, <3>3, FlattensAt
    <2>4. \A i \in 1..(m + 1) : i # 1 => i - 1 \in 1..m
      OBVIOUS
    <2>5. Flattens(h, ss, m + 1)
      BY <2>2, <2>3, <2>4 DEF Flattens
    <2>6. QED
      BY <2>5
  <1> HIDE DEF I
  <1>3. n \in I
    BY <1>1, <1>2, NatSetInduction
  <1>4. QED
    BY <1>3 DEF I

\* Sequences over a set, put together, are a sequence over that set.
LEMMA FlattenType ==
  ASSUME NEW S, NEW ss \in Seq(Seq(S))
  PROVE  FlattenSeq(ss) \in Seq(S)
  <1>1. Len(ss) \in Nat /\ \A i \in 1..Len(ss) : ss[i] \in Seq(S)
    OBVIOUS
  <1>2. CASE Len(ss) = 0
    <2>1. ss = <<>>
      BY <1>2
    <2>2. FlattenSeq(ss) = ss
      BY <1>2 DEF FlattenSeq
    <2>3. <<>> \in Seq(S)
      OBVIOUS
    <2>4. QED
      BY <2>1, <2>2, <2>3, Zenon
  <1>3. CASE Len(ss) # 0
    <2> DEFINE flatten == CHOOSE g : Flattens(g, ss, Len(ss))
    <2>1. FlattenSeq(ss) = flatten[Len(ss)]
      BY <1>3, Zenon DEF FlattenSeq, Flattens
    <2>2. Flattens(flatten, ss, Len(ss))
      BY <1>1, FlattensExists
    <2> HIDE DEF flatten
    <2> DEFINE I == {n \in Nat : n + 1 <= Len(ss) => flatten[n + 1] \in Seq(S)}
    <2>3. 0 \in I
      <3>1. 1 \in 1..Len(ss)
        BY <1>1, <1>3
      <3>2. flatten[1] = ss[1]
        BY <1>1, <2>2, <3>1, FlattensAt
      <3>3. QED
        BY <1>1, <3>1, <3>2
    <2>4. ASSUME NEW n \in Nat, n \in I PROVE n + 1 \in I
      <3>1. SUFFICES ASSUME n + 2 <= Len(ss) PROVE flatten[n + 2] \in Seq(S)
        OBVIOUS
      <3>2. n + 2 \in 1..Len(ss) /\ n + 2 # 1 /\ (n + 2) - 1 = n + 1
        BY <1>1, <3>1
      <3>3. flatten[n + 1] \in Seq(S) /\ ss[n + 2] \in Seq(S)
        BY <1>1, <2>4, <3>2
      <3>4. flatten[n + 2] = flatten[n + 1] \o ss[n + 2]
        <4>1. PICK i \in 1..Len(ss) : i = n + 2 /\ i # 1 /\ i - 1 = n + 1
          BY <3>2
        <4>2. flatten[i] = IF i = 1 THEN ss[i] ELSE flatten[i - 1] \o ss[i]
          BY <1>1, <2>2, FlattensAt
        <4>3. QED
          BY <4>1, <4>2
      <3>5. QED
        BY <3>3, <3>4
    <2> HIDE DEF I
    <2>5. Nat \subseteq I
      BY <2>3, <2>4, NatSetInduction
    <2>6. Len(ss) - 1 \in I
      BY <1>1, <1>3, <2>5
    <2>7. (Len(ss) - 1) + 1 = Len(ss)
      BY <1>1
    <2>8. QED
      BY <1>1, <1>3, <2>1, <2>6, <2>7 DEF I
  <1>4. QED
    BY <1>1, <1>2, <1>3

-----------------------------------------------------------------------------
(* The beats of a chunk.                                                   *)

LEMMA ChunkFields ==
  ASSUME NEW w \in Workloads, NEW k \in 1..Len(w)
  PROVE  /\ Len(w) \in Nat /\ w[k] \in Chunk /\ w[k].num_values \in 0..(SizeMod - 1)
         /\ w[k].pages \in Seq(Page)
  <1>1. w \in Seq(Chunk)
    BY WorkloadsAssumption
  <1>2. w[k] \in Chunk /\ Len(w) \in Nat
    BY <1>1
  <1>3. QED
    BY <1>2 DEF Chunk

\* Rounded up, a number of bytes is that of full beats and one that is not empty.
LEMMA BeatsCover ==
  ASSUME NEW len \in Nat, NEW n \in Nat \ {0}, NEW beats, beats = (len + n - 1) \div n
  PROVE  beats \in Nat /\ beats * n < len + n /\ len <= beats * n
OBVIOUS

\* Beats are bytes, as many as a databeat holds at most.
LEMMA BeatsType ==
  ASSUME NEW ch \in Chunk
  PROVE  /\ Beats(ch) \in Seq(Seq(Byte))
         /\ \A b \in 1..Len(Beats(ch)) : Len(Beats(ch)[b]) <= NumBytes
  <1> DEFINE parts == [i \in DOMAIN ch.pages |-> ch.pages[i].header \o ch.pages[i].payload]
  <1>1. parts \in Seq(Seq(Byte))
    <2>1. ch.pages \in Seq(Page)
      BY DEF Chunk
    <2>2. \A i \in 1..Len(ch.pages) : ch.pages[i].header \o ch.pages[i].payload \in Seq(Byte)
      <3>1. SUFFICES ASSUME NEW i \in 1..Len(ch.pages)
                     PROVE  ch.pages[i].header \o ch.pages[i].payload \in Seq(Byte)
        OBVIOUS
      <3>2. ch.pages[i] \in Page
        BY <2>1
      <3>3. ch.pages[i].header \in Seq(Byte) /\ ch.pages[i].payload \in Seq(Byte)
        BY <3>2 DEF Page
      <3>4. QED
        BY <3>3
    <2>3. DOMAIN ch.pages = 1..Len(ch.pages) /\ Len(ch.pages) \in Nat
      BY <2>1
    <2>4. QED
      BY <2>2, <2>3
  <1>2. PICK bytes \in Seq(Byte) : bytes = FlattenSeq(parts)
    BY <1>1, FlattenType
  <1> HIDE DEF parts
  <1>3. PICK len \in Nat : len = Len(bytes)
    OBVIOUS
  <1>4. PICK beats : beats = (len + NumBytes - 1) \div NumBytes
    OBVIOUS
  <1>5. beats \in Nat /\ beats * NumBytes < len + NumBytes /\ len <= beats * NumBytes
    <2>1. NumBytes \in Nat \ {0}
      BY SizesAssumption
    <2>2. QED
      BY <1>4, <2>1, BeatsCover
  <1> DEFINE Part(b) == SubSeq(bytes, (b - 1) * NumBytes + 1, IF b = beats THEN len ELSE b * NumBytes)
  <1>6. Beats(ch) = [b \in 1..beats |-> Part(b)]
    BY <1>2, <1>3, <1>4 DEF Beats, parts
  <1>7. ASSUME NEW b \in 1..beats PROVE Part(b) \in Seq(Byte) /\ Len(Part(b)) <= NumBytes
    <2>1. PICK from \in Nat : from = (b - 1) * NumBytes
      BY <1>5, SizesAssumption
    <2>2. PICK to \in Nat : to = IF b = beats THEN len ELSE b * NumBytes
      BY <1>5, SizesAssumption
    <2>3. b * NumBytes = from + NumBytes
      BY <1>5, <2>1, SizesAssumption
    <2>4. b # beats => b * NumBytes <= (beats - 1) * NumBytes
      BY <1>5, SizesAssumption
    <2>5. (beats - 1) * NumBytes = beats * NumBytes - NumBytes /\ beats * NumBytes \in Nat
      BY <1>5, SizesAssumption
    <2>6. to <= len /\ to <= from + NumBytes
      BY <1>5, <2>2, <2>3, <2>4, <2>5, SizesAssumption
    <2>7. SubSeq(bytes, from + 1, to) \in Seq(Byte) /\ Len(SubSeq(bytes, from + 1, to)) <= NumBytes
      BY <1>3, <2>6, SizesAssumption
    <2>8. QED
      BY <2>1, <2>2, <2>7
  <1> HIDE DEF Part
  <1>8. QED
    BY <1>5, <1>6, <1>7

-----------------------------------------------------------------------------
(* The VarintDecoder.                                                      *)

LEMMA VarintLengthType == VarintLength \in Nat /\ VarintLength >= 1
  <1> DEFINE C == {i \in 1..4 : Continues(i)}
  <1>1. IsFiniteSet(1..4)
    <2>1. \A a, b \in Int : IsFiniteSet(a..b)
      BY FS_Interval
    <2>2. 1 \in Int /\ 4 \in Int
      OBVIOUS
    <2>3. QED
      BY <2>1, <2>2, Zenon
  <1>2. C \subseteq 1..4
    OBVIOUS
  <1>3. IsFiniteSet(C)
    BY <1>1, <1>2, FS_Subset
  <1>4. Cardinality(C) \in Nat
    BY <1>3, FS_CardinalityType
  <1>5. VarintLength = 1 + Cardinality(C)
    BY Zenon DEF VarintLength
  <1> HIDE DEF C
  <1>6. QED
    BY <1>4, <1>5

\* What the decoder reads of four buffered bytes is a number, and a word once zig-zag decoded.
LEMMA VarintType ==
  ASSUME buffer \in Seq(Byte), Len(buffer) >= 4
  PROVE  VarintValue \in Nat /\ CurValue \in 0..(SizeMod - 1)
  <1>1. \A i \in 1..4 : VarintByte(i) \in Nat
    <2>1. SUFFICES ASSUME NEW i \in 1..4 PROVE VarintByte(i) \in Nat
      OBVIOUS
    <2>2. buffer[i] \in Nat
      <3>1. i \in 1..Len(buffer)
        OBVIOUS
      <3>2. buffer[i] \in Byte
        BY <3>1
      <3>3. \A x \in Byte : x \in Nat
        BY DEF Byte
      <3>4. QED
        BY <3>2, <3>3, Zenon
    <2>3. buffer[i] % 128 \in Nat
      BY <2>2
    <2>4. VarintByte(i) = buffer[i] % 128 \/ VarintByte(i) = 0
      BY Zenon DEF VarintByte
    <2>5. QED
      BY <2>3, <2>4
  <1>2. VarintValue \in Nat
    <2>1. VarintByte(1) \in Nat /\ VarintByte(2) \in Nat /\ VarintByte(3) \in Nat /\ VarintByte(4) \in Nat
      BY <1>1
    <2>2. PICK v1 \in Nat : v1 = VarintByte(1)
      BY <2>1
    <2>3. PICK v2 \in Nat : v2 = VarintByte(2)
      BY <2>1
    <2>4. PICK v3 \in Nat : v3 = VarintByte(3)
      BY <2>1
    <2>5. PICK v4 \in Nat : v4 = VarintByte(4)
      BY <2>1
    <2>6. VarintValue = v1 + 128 * v2 + 16384 * v3 + 2097152 * v4
      BY <2>2, <2>3, <2>4, <2>5, SMT DEF VarintValue
    <2>7. QED
      BY <2>6
  <1>3. \A n \in Nat : ZigZag(n) \in 0..(SizeMod - 1)
    <2>1. SUFFICES ASSUME NEW n \in Nat PROVE ZigZag(n) \in 0..(SizeMod - 1)
      OBVIOUS
    <2>2. PICK h \in Nat : h = n \div 2
      OBVIOUS
    <2>3. h % SizeMod \in 0..(SizeMod - 1)
      BY SizesAssumption
    <2>4. SizeMod - 1 - (h % SizeMod) \in 0..(SizeMod - 1)
      BY <2>3, SizesAssumption
    <2>5. QED
      BY <2>2, <2>3, <2>4 DEF ZigZag
  <1>4. QED
    BY <1>2, <1>3 DEF CurValue

-----------------------------------------------------------------------------
(* The invariant.                                                          *)

PayloadStates == {"PAYLOAD_FLUSH_BUF", "PAYLOAD_BYPASS", "FLUSH_CONF"}

\* A beat is at most NUM_BYTES.
BeatsShort == \A b \in 1..Len(input) : Len(input[b]) <= NumBytes

\* A refill adds a beat to at most three bytes.
BufferRoom == Len(buffer) <= NumBytes + 3

\* A page is announced when its header ends, and the next header waits until it is taken.
ConfState == conf => state \in PayloadStates

\* The optional fields are inside the structure of the page header.
InStruct ==
  state \in {"IS_END", "SKIP_BINARY"} \/ (state = "SKIP_VARINT" /\ next_state = "IS_END")
    => depth >= 1

IInv == TypeOK /\ BeatsShort /\ BufferRoom /\ ConfState /\ InStruct

LEMMA InitIInv == Init => IInv
  <1> SUFFICES ASSUME Init PROVE IInv
    OBVIOUS
  <1>1. work \in Workloads /\ 0 \in 0..Len(work)
    <2>1. work \in Seq(Chunk)
      BY WorkloadsAssumption DEF Init
    <2>2. QED
      BY <2>1 DEF Init
  <1>2. TypeOK
    <2>1. input \in Seq(Seq(Byte)) /\ buffer \in Seq(Byte) /\ Len(buffer) = 0
      BY DEF Init
    <2>2. confs \in Seq([kind : PageKind, n : Nat, last : BOOLEAN])
      BY DEF Init
    <2>3. Len(payload) \in 0..1 /\ \A i \in 1..Len(payload) : payload[i].last \in BOOLEAN
      BY DEF Init
    <2>4. /\ work \in Workloads /\ chunk \in 0..Len(work) /\ state = "IDLE"
          /\ next_state \in {"IDLE", "IS_CRC", "IS_END"} /\ kind \in PageKind /\ conf \in BOOLEAN
      BY <1>1 DEF Init, PageKind
    <2>5. /\ skip \in Nat /\ depth \in Nat
          /\ left \in 0..(SizeMod - 1) /\ comp \in 0..(SizeMod - 1) /\ nvals \in 0..(SizeMod - 1)
      BY SizesAssumption DEF Init
    <2>6. Len(buffer) <= NumBytes + 4
      BY <2>1, SizesAssumption
    <2>7. QED
      BY <2>1, <2>2, <2>3, <2>4, <2>5, <2>6 DEF TypeOK
  <1>3. BeatsShort /\ BufferRoom /\ ConfState /\ InStruct
    BY SizesAssumption DEF Init, BeatsShort, BufferRoom, ConfState, InStruct
  <1>4. QED
    BY <1>2, <1>3 DEF IInv

-----------------------------------------------------------------------------
(* The invariant holds over every cycle of the FSM and every handshake.    *)

LEMMA TakeChunkConfStep == IInv /\ TakeChunkConf => IInv'
  <1> SUFFICES ASSUME IInv, TakeChunkConf PROVE IInv'
    OBVIOUS
  <1>1. TypeOK /\ BeatsShort /\ ConfState
    BY DEF IInv
  <1>2. work \in Workloads /\ chunk \in 0..Len(work) /\ chunk < Len(work) /\ chunk' = chunk + 1
    BY <1>1 DEF TypeOK, TakeChunkConf
  <1>3. Len(work) \in Nat
    BY <1>2, WorkloadsAssumption
  <1>4. chunk' \in 1..Len(work)
    BY <1>2, <1>3
  <1>5. work[chunk'] \in Chunk /\ work[chunk'].num_values \in 0..(SizeMod - 1)
    BY <1>2, <1>4, ChunkFields
  <1>6. PICK beats : beats = Beats(work[chunk'])
    OBVIOUS
  <1>7. beats \in Seq(Seq(Byte)) /\ \A b \in 1..Len(beats) : Len(beats[b]) <= NumBytes
    BY <1>5, <1>6, BeatsType
  <1>8. input \in Seq(Seq(Byte)) /\ input' = input \o beats
    BY <1>1, <1>6 DEF TypeOK, TakeChunkConf
  <1>9. input' \in Seq(Seq(Byte)) /\ BeatsShort'
    BY <1>1, <1>7, <1>8 DEF BeatsShort
  <1>10. TypeOK'
    BY <1>1, <1>3, <1>4, <1>5, <1>9, SizesAssumption DEF TypeOK, TakeChunkConf, header_vars, out_vars, HeaderStates, Fields
  <1>11. BufferRoom' /\ ConfState' /\ InStruct'
    BY <1>1, SizesAssumption DEF TakeChunkConf, BufferRoom, ConfState, InStruct, PayloadStates
  <1>12. QED
    BY <1>9, <1>10, <1>11 DEF IInv

\* The FSM moves on by one byte, and leaves three at least.
LEMMA AdvanceType ==
  ASSUME IInv, Advance
  PROVE  /\ buffer' \in Seq(Byte) /\ Len(buffer') \in 3..(NumBytes + 2)
         /\ buffer \in Seq(Byte) /\ Len(buffer) >= 4
  <1>1. buffer \in Seq(Byte) /\ Len(buffer) >= 4 /\ Len(buffer) <= NumBytes + 3 /\ buffer' = Tail(buffer)
    BY DEF IInv, TypeOK, BufferRoom, Advance
  <1>2. QED
    BY <1>1, SizesAssumption

\* A beat that is taken was short, and leaves short ones.
LEMMA TakeBeatType ==
  ASSUME IInv, input # <<>>
  PROVE  /\ Head(input) \in Seq(Byte) /\ Len(Head(input)) <= NumBytes
         /\ Tail(input) \in Seq(Seq(Byte))
         /\ \A b \in 1..Len(Tail(input)) : Len(Tail(input)[b]) <= NumBytes
BY DEF IInv, TypeOK, BeatsShort

LEMMA RefillStep == IInv /\ (Refill \/ WaitInVarint) => IInv'
  <1> SUFFICES ASSUME IInv, Refill \/ WaitInVarint PROVE IInv'
    OBVIOUS
  <1>1. TypeOK /\ BeatsShort /\ BufferRoom /\ ConfState /\ InStruct
    BY DEF IInv
  <1>2. /\ state' = (IF VarintEnds THEN next_state ELSE state)
        /\ state \in HeaderStates
        /\ VarintEnds => state = "SKIP_VARINT"
    BY DEF Refill, WaitInVarint, VarintEnds, HeaderStates
  <1>3. /\ input' \in Seq(Seq(Byte)) /\ buffer' \in Seq(Byte)
        /\ Len(buffer') <= NumBytes + 3 /\ BeatsShort'
    <2>1. CASE Refill
      BY <1>1, <2>1, TakeBeatType, SizesAssumption DEF Refill, BeatsShort, TypeOK
    <2>2. CASE WaitInVarint
      BY <1>1, <2>2 DEF WaitInVarint, BeatsShort, TypeOK, BufferRoom
    <2>3. QED
      BY <2>1, <2>2
  <1>4. UNCHANGED <<host_vars, skip, header_vars, left, conf, payload, out_vars>>
    BY DEF Refill, WaitInVarint
  <1>5. TypeOK'
    BY <1>1, <1>2, <1>3, <1>4, SizesAssumption
    DEF TypeOK, host_vars, header_vars, out_vars, HeaderStates, Fields
  <1>6. ConfState' /\ InStruct'
    BY <1>1, <1>2, <1>4 DEF TypeOK, ConfState, InStruct, header_vars, HeaderStates, Fields, PayloadStates
  <1>7. QED
    BY <1>3, <1>5, <1>6 DEF IInv, BufferRoom

\* What the fields of a header leave in order: a cycle that moves on by one byte stays among
\* the header's states, and enters the optional fields inside the structure.
LEMMA HeaderStep ==
  ASSUME IInv, Advance, Frame, state \in HeaderStates,
         state' \in HeaderStates \cup {"IDLE"}, next_state' \in {"IDLE", "IS_CRC", "IS_END"},
         skip' \in Nat, depth' \in Nat, kind' \in PageKind, conf' = conf,
         left' \in 0..(SizeMod - 1), comp' \in 0..(SizeMod - 1), nvals' \in 0..(SizeMod - 1),
         InStruct'
  PROVE  IInv'
  <1>1. TypeOK /\ BeatsShort /\ ConfState
    BY DEF IInv
  <1>2. buffer' \in Seq(Byte) /\ Len(buffer') \in 3..(NumBytes + 2)
    BY AdvanceType
  <1>3. UNCHANGED <<work, chunk, input, payload, confs, transfers>> /\ Len(buffer') <= NumBytes + 4
    BY <1>2, SizesAssumption DEF Frame, host_vars, out_vars
  <1>4. ~conf /\ ~conf'
    BY <1>1 DEF ConfState, PayloadStates, HeaderStates, Fields
  <1>5. state' # "PAYLOAD_FLUSH_BUF"
    BY DEF HeaderStates, Fields
  <1>6. TypeOK'
    BY <1>1, <1>2, <1>3, <1>4, <1>5 DEF TypeOK
  <1>7. BeatsShort' /\ BufferRoom' /\ ConfState'
    BY <1>1, <1>2, <1>3, <1>4, SizesAssumption DEF BeatsShort, BufferRoom, ConfState
  <1>8. QED
    BY <1>6, <1>7 DEF IInv

LEMMA FieldsType ==
  ASSUME IInv
  PROVE  /\ next_state \in {"IDLE", "IS_CRC", "IS_END"}
         /\ skip \in Nat /\ depth \in Nat /\ kind \in PageKind /\ conf \in BOOLEAN
         /\ left \in 0..(SizeMod - 1) /\ comp \in 0..(SizeMod - 1) /\ nvals \in 0..(SizeMod - 1)
         /\ InStruct
BY DEF IInv, TypeOK

LEMMA SkipStep == IInv /\ Skip => IInv'
  <1> SUFFICES ASSUME IInv, Skip PROVE IInv'
    OBVIOUS
  <1>1. Advance /\ Frame /\ UNCHANGED <<state, header_vars, left, conf>>
    BY DEF Skip
  <1>2. state \in HeaderStates /\ state' \in HeaderStates
    BY <1>1 DEF Skip, HeaderStates
  <1>3. skip' \in Nat
    BY FieldsType DEF Skip
  <1>4. InStruct'
    BY <1>1, FieldsType DEF InStruct, header_vars
  <1>5. QED
    BY <1>1, <1>2, <1>3, <1>4, FieldsType, HeaderStep DEF header_vars

\* The fields that only move on to the next one.
LEMMA ParseStep ==
  IInv /\ (ParseType \/ SkipUncomp \/ ParseComp \/ IsCrc \/ ParseNvals \/ ParseEnc) => IInv'
  <1> SUFFICES ASSUME IInv, ParseType \/ SkipUncomp \/ ParseComp \/ IsCrc \/ ParseNvals \/ ParseEnc
               PROVE  IInv'
    OBVIOUS
  <1>1. Advance /\ Frame /\ state \in HeaderStates /\ conf' = conf
    BY DEF ParseType, SkipUncomp, ParseComp, IsCrc, ParseNvals, ParseEnc, Field, HeaderStates, Fields
  <1>2. CurValue \in 0..(SizeMod - 1)
    BY <1>1, AdvanceType, VarintType
  <1>3. VarintLength \in Nat /\ VarintLength - 1 \in Nat
    BY VarintLengthType
  <1> DEFINE Fine == /\ state' \in HeaderStates /\ next_state' \in {"IDLE", "IS_CRC", "IS_END"}
                     /\ skip' \in Nat /\ depth' \in Nat /\ kind' \in PageKind
                     /\ left' \in 0..(SizeMod - 1) /\ comp' \in 0..(SizeMod - 1)
                     /\ nvals' \in 0..(SizeMod - 1) /\ InStruct'
  <1>4. ASSUME ParseType PROVE Fine
    BY <1>3, <1>4, FieldsType DEF ParseType, InStruct, HeaderStates, Fields, PageKind
  <1>5. ASSUME SkipUncomp PROVE Fine
    BY <1>3, <1>5, FieldsType DEF SkipUncomp, InStruct, HeaderStates, Fields, header_vars
  <1>6. ASSUME ParseComp PROVE Fine
    BY <1>2, <1>3, <1>6, FieldsType DEF ParseComp, InStruct, HeaderStates, Fields
  <1>7. ASSUME IsCrc PROVE Fine
    BY <1>7, FieldsType DEF IsCrc, InStruct, HeaderStates, Fields
  <1>8. ASSUME ParseNvals PROVE Fine
    BY <1>2, <1>3, <1>8, FieldsType DEF ParseNvals, InStruct, HeaderStates, Fields
  <1>9. ASSUME ParseEnc PROVE Fine
    <2>1. (left + SizeMod - nvals) % SizeMod \in 0..(SizeMod - 1)
      BY FieldsType, SizesAssumption
    <2>2. QED
      BY <1>3, <1>9, <2>1, FieldsType DEF ParseEnc, InStruct, HeaderStates, Fields, PageKind
  <1>10. QED
    BY <1>1, <1>4, <1>5, <1>6, <1>7, <1>8, <1>9, HeaderStep

\* The page header ends with the tag that closes its structure, and only there is depth 0.
LEMMA IsEndStep == IInv /\ IsEnd => IInv'
  <1> SUFFICES ASSUME IInv, IsEnd PROVE IInv'
    OBVIOUS
  <1>1. Advance /\ Frame /\ state = "IS_END" /\ UNCHANGED <<skip, kind, comp, nvals, left>>
    BY DEF IsEnd, Field
  <1>2. depth \in Nat /\ depth >= 1
    BY <1>1, FieldsType DEF InStruct
  <1>3. PICK type : type = buffer[1] % 16
    OBVIOUS
  <1>4. buffer[1] = 0 => type = 0
    BY <1>3
  <1> DEFINE end == buffer[1] = 0 /\ depth = 1
  <1>5. /\ state' = CASE type = 5 -> "SKIP_VARINT"
                       [] type = 8 -> "SKIP_BINARY"
                       [] end      -> "PAYLOAD_FLUSH_BUF"
                       [] OTHER    -> "IS_END"
        /\ next_state' = IF type = 5 THEN "IS_END" ELSE next_state
        /\ depth' = CASE type = 12     -> depth + 1
                       [] buffer[1] = 0 -> depth - 1
                       [] OTHER         -> depth
        /\ conf' = (conf \/ end)
    BY <1>3 DEF IsEnd
  <1>6. depth' \in Nat /\ (~end => depth' >= 1)
    BY <1>2, <1>5
  <1>7. next_state' \in {"IDLE", "IS_CRC", "IS_END"}
    BY <1>5, FieldsType
  <1>8. CASE end
    <2>1. state' = "PAYLOAD_FLUSH_BUF" /\ conf' \in BOOLEAN
      BY <1>4, <1>5, <1>8
    <2>2. TypeOK /\ BeatsShort
      BY DEF IInv
    <2>3. buffer' \in Seq(Byte) /\ Len(buffer') \in 3..(NumBytes + 2)
      BY <1>1, AdvanceType
    <2>4. UNCHANGED <<host_vars, input, payload, out_vars>>
      BY <1>1 DEF Frame
    <2>5. TypeOK'
      BY <1>1, <1>6, <1>7, <2>1, <2>2, <2>3, <2>4, SizesAssumption DEF TypeOK, host_vars, out_vars
    <2>6. BeatsShort' /\ BufferRoom' /\ ConfState' /\ InStruct'
      BY <2>1, <2>2, <2>3, <2>4, SizesAssumption
      DEF BeatsShort, BufferRoom, ConfState, PayloadStates, InStruct
    <2>7. QED
      BY <2>5, <2>6 DEF IInv
  <1>9. CASE ~end
    <2>1. state' \in HeaderStates
      BY <1>5, <1>9 DEF HeaderStates, Fields
    <2>2. InStruct'
      BY <1>6, <1>9 DEF InStruct
    <2>3. state \in HeaderStates
      BY <1>1 DEF HeaderStates, Fields
    <2>4. conf' = conf
      BY <1>5, <1>9, FieldsType
    <2>5. QED
      BY <1>1, <1>6, <1>7, <2>1, <2>2, <2>3, <2>4, FieldsType, HeaderStep
  <1>10. QED
    BY <1>8, <1>9

LEMMA SkipFieldStep == IInv /\ (SkipVarint \/ SkipBinary) => IInv'
  <1> SUFFICES ASSUME IInv, SkipVarint \/ SkipBinary PROVE IInv'
    OBVIOUS
  <1>1. Advance /\ Frame /\ UNCHANGED <<header_vars, left, conf>> /\ state \in HeaderStates
    BY DEF SkipVarint, SkipBinary, HeaderStates
  <1>2. state' \in HeaderStates \cup {"IDLE"} /\ skip' \in Nat /\ InStruct'
    <2>1. CASE SkipVarint
      BY <1>1, <2>1, FieldsType DEF SkipVarint, VarintEnds, InStruct, HeaderStates, Fields, header_vars
    <2>2. CASE SkipBinary
      <3>1. VarintValue \in Nat /\ VarintLength \in Nat /\ VarintLength >= 1
        BY <1>1, AdvanceType, VarintType, VarintLengthType
      <3>2. skip' \in Nat
        BY <2>2, <3>1 DEF SkipBinary
      <3>3. state = "SKIP_BINARY" /\ state' = "IS_END" /\ UNCHANGED depth
        BY <2>2 DEF SkipBinary, header_vars
      <3>4. QED
        BY <3>2, <3>3, FieldsType DEF InStruct, HeaderStates, Fields
    <2>3. QED
      BY <2>1, <2>2
  <1>3. QED
    BY <1>1, <1>2, FieldsType, HeaderStep DEF header_vars

-----------------------------------------------------------------------------
\* A cycle that forwards payload fills the free register and stays among the payload states.
LEMMA PayloadStep ==
  ASSUME IInv, state \in PayloadStates, state' \in PayloadStates,
         NEW bytes, NEW last \in BOOLEAN, Emit(bytes, last), PayloadUnchanged,
         input' \in Seq(Seq(Byte)), BeatsShort',
         buffer' \in Seq(Byte), BufferRoom',
         state' = "PAYLOAD_FLUSH_BUF" => Len(buffer') \in 1..(NumBytes + 2),
         skip' \in Nat, comp' \in 0..(SizeMod - 1)
  PROVE  IInv'
  <1>1. TypeOK
    BY DEF IInv
  <1>2. UNCHANGED <<work, chunk, kind, nvals, depth, next_state, left, conf, confs, transfers>>
    BY DEF PayloadUnchanged, host_vars, out_vars
  <1>3. payload' = <<[bytes |-> bytes, last |-> last]>>
    BY DEF Emit
  <1>4. Len(payload') \in 0..1 /\ \A i \in 1..Len(payload') : payload'[i].last \in BOOLEAN
    BY <1>3
  <1>5. Len(buffer') <= NumBytes + 4
    BY SizesAssumption DEF BufferRoom
  <1>6. TypeOK'
    BY <1>1, <1>2, <1>4, <1>5 DEF TypeOK, PayloadStates
  <1>7. ConfState' /\ InStruct'
    BY DEF ConfState, InStruct, PayloadStates
  <1>8. QED
    BY <1>6, <1>7 DEF IInv

LEMMA FlushOverfullStep == IInv /\ FlushOverfull => IInv'
  <1> SUFFICES ASSUME IInv, FlushOverfull PROVE IInv'
    OBVIOUS
  <1>1. TypeOK /\ BeatsShort /\ BufferRoom
    BY DEF IInv
  <1>2. /\ state = "PAYLOAD_FLUSH_BUF" /\ Len(buffer) > NumBytes /\ comp > NumBytes
        /\ buffer' = SubSeq(buffer, NumBytes + 1, Len(buffer)) /\ comp' = comp - NumBytes
        /\ UNCHANGED <<input, state, skip>>
    BY DEF FlushOverfull, FlushBuf, Overfull
  <1>3. buffer \in Seq(Byte) /\ Len(buffer) \in 1..(NumBytes + 2) /\ comp \in 0..(SizeMod - 1)
    BY <1>1, <1>2 DEF TypeOK
  <1>4. buffer' \in Seq(Byte) /\ Len(buffer') = Len(buffer) - NumBytes
    BY <1>2, <1>3, SizesAssumption
  <1>5. Len(buffer') \in 1..(NumBytes + 2) /\ Len(buffer') <= NumBytes + 3
    BY <1>2, <1>3, <1>4, SizesAssumption
  <1>6. comp' \in 0..(SizeMod - 1)
    BY <1>2, <1>3, SizesAssumption
  <1>7. input' \in Seq(Seq(Byte)) /\ BeatsShort' /\ skip' \in Nat /\ state' \in PayloadStates
    BY <1>1, <1>2 DEF TypeOK, BeatsShort, PayloadStates
  <1>8. PICK last \in BOOLEAN : Emit(SubSeq(buffer, 1, NumBytes), last)
    <2>1. /\ Emit(SubSeq(buffer, 1, NumBytes), comp <= Len(buffer))
          /\ (comp <= Len(buffer)) \in BOOLEAN
      BY DEF FlushOverfull
    <2>2. QED
      BY <2>1
  <1>9. PayloadUnchanged /\ state \in PayloadStates /\ BufferRoom'
    BY <1>2, <1>5 DEF FlushOverfull, PayloadStates, BufferRoom
  <1>10. QED
    BY <1>4, <1>5, <1>6, <1>7, <1>8, <1>9, PayloadStep

LEMMA FlushEndStep == IInv /\ (FlushPart \/ FlushWhole) => IInv'
  <1> SUFFICES ASSUME IInv, FlushPart \/ FlushWhole PROVE IInv'
    OBVIOUS
  <1>1. TypeOK /\ BeatsShort /\ BufferRoom
    BY DEF IInv
  <1>2. /\ state = "PAYLOAD_FLUSH_BUF" /\ state' \in {"FLUSH_CONF", "PAYLOAD_BYPASS"}
        /\ UNCHANGED input /\ PayloadUnchanged
    BY DEF FlushPart, FlushWhole, FlushBuf
  <1>3. buffer \in Seq(Byte) /\ Len(buffer) \in Nat /\ comp \in 0..(SizeMod - 1)
    BY <1>1 DEF TypeOK
  <1>4. /\ buffer' \in Seq(Byte) /\ BufferRoom'
        /\ skip' \in Nat /\ comp' \in 0..(SizeMod - 1)
    <2>1. CASE FlushPart
      BY <1>1, <1>3, <2>1, SizesAssumption DEF FlushPart, BufferRoom
    <2>2. CASE FlushWhole
      <3>1. buffer' = <<>> /\ skip' = 1 /\ comp' = comp - Len(buffer) /\ comp >= Len(buffer)
        BY <2>2 DEF FlushWhole
      <3>2. buffer' \in Seq(Byte) /\ Len(buffer') = 0
        BY <3>1
      <3>3. comp' \in 0..(SizeMod - 1)
        BY <1>3, <3>1, SizesAssumption
      <3>4. QED
        BY <3>1, <3>2, <3>3, SizesAssumption DEF BufferRoom
    <2>3. QED
      BY <2>1, <2>2
  <1>5. input' \in Seq(Seq(Byte)) /\ BeatsShort'
    BY <1>1, <1>2 DEF TypeOK, BeatsShort
  <1>6. \E bytes : \E last \in BOOLEAN : Emit(bytes, last)
    <2>1. CASE FlushPart
      BY <2>1 DEF FlushPart
    <2>2. CASE FlushWhole
      <3>1. Emit(buffer, comp = Len(buffer)) /\ (comp = Len(buffer)) \in BOOLEAN
        BY <2>2 DEF FlushWhole
      <3>2. QED
        BY <3>1
    <2>3. QED
      BY <2>1, <2>2
  <1>7. state \in PayloadStates /\ state' \in PayloadStates /\ state' # "PAYLOAD_FLUSH_BUF"
    BY <1>2 DEF PayloadStates
  <1>8. QED
    BY <1>2, <1>4, <1>5, <1>6, <1>7, PayloadStep

LEMMA BypassStep == IInv /\ (BypassEnd \/ BypassBeat) => IInv'
  <1> SUFFICES ASSUME IInv, BypassEnd \/ BypassBeat PROVE IInv'
    OBVIOUS
  <1>1. TypeOK /\ BeatsShort /\ BufferRoom
    BY DEF IInv
  <1>2. /\ state = "PAYLOAD_BYPASS" /\ state' \in {"FLUSH_CONF", "PAYLOAD_BYPASS"}
        /\ input # <<>> /\ input' = Tail(input) /\ PayloadUnchanged
    BY DEF BypassEnd, BypassBeat
  <1>3. buffer \in Seq(Byte) /\ comp \in 0..(SizeMod - 1) /\ skip \in Nat
    BY <1>1 DEF TypeOK
  <1>4. /\ Head(input) \in Seq(Byte) /\ Len(Head(input)) <= NumBytes
        /\ input' \in Seq(Seq(Byte)) /\ BeatsShort'
    BY <1>2, TakeBeatType DEF BeatsShort
  <1>5. /\ buffer' \in Seq(Byte) /\ BufferRoom'
        /\ skip' \in Nat /\ comp' \in 0..(SizeMod - 1)
    <2>1. CASE BypassEnd
      BY <1>3, <1>4, <2>1, SizesAssumption DEF BypassEnd, BufferRoom
    <2>2. CASE BypassBeat
      BY <1>1, <1>3, <2>2, SizesAssumption DEF BypassBeat, BufferRoom
    <2>3. QED
      BY <2>1, <2>2
  <1>6. \E bytes : \E last \in BOOLEAN : Emit(bytes, last)
    <2>1. CASE BypassEnd
      BY <2>1 DEF BypassEnd
    <2>2. CASE BypassBeat
      <3>1. Emit(Head(input), comp = NumBytes) /\ (comp = NumBytes) \in BOOLEAN
        BY <2>2 DEF BypassBeat
      <3>2. QED
        BY <3>1
    <2>3. QED
      BY <2>1, <2>2
  <1>7. state \in PayloadStates /\ state' \in PayloadStates /\ state' # "PAYLOAD_FLUSH_BUF"
    BY <1>2 DEF PayloadStates
  <1>8. QED
    BY <1>2, <1>4, <1>5, <1>6, <1>7, PayloadStep

\* A parser that waits for page_conf to be taken starts over when it is.
LEMMA FlushConfStep == IInv /\ FlushConf => IInv'
  <1> SUFFICES ASSUME IInv, FlushConf PROVE IInv'
    OBVIOUS
  <1>1. TypeOK /\ BeatsShort /\ BufferRoom
    BY DEF IInv
  <1>2. /\ UNCHANGED <<work, chunk, input, buffer, skip, kind, comp, nvals, depth, next_state>>
        /\ UNCHANGED <<left, conf, payload, confs, transfers>>
        /\ ~conf /\ state' \in {"IDLE", "PARSE_TYPE"}
    BY DEF FlushConf, host_vars, header_vars, out_vars
  <1>3. TypeOK'
    BY <1>1, <1>2 DEF TypeOK, HeaderStates, Fields
  <1>4. BeatsShort' /\ BufferRoom' /\ ConfState' /\ InStruct'
    BY <1>1, <1>2 DEF BeatsShort, BufferRoom, ConfState, InStruct
  <1>5. QED
    BY <1>3, <1>4 DEF IInv

LEMMA AcceptStep == IInv /\ (AcceptConf \/ AcceptPayload) => IInv'
  <1> SUFFICES ASSUME IInv, AcceptConf \/ AcceptPayload PROVE IInv'
    OBVIOUS
  <1>1. TypeOK /\ BeatsShort /\ BufferRoom /\ ConfState /\ InStruct
    BY DEF IInv
  <1>2. /\ UNCHANGED <<work, chunk, input, state, buffer, skip, kind, comp, nvals, depth>>
        /\ UNCHANGED <<next_state, left>> /\ (conf' = FALSE \/ conf' = conf)
    BY DEF AcceptConf, AcceptPayload, host_vars, header_vars
  <1>3. /\ confs' \in Seq([kind : PageKind, n : Nat, last : BOOLEAN])
        /\ Len(payload') \in 0..1 /\ \A i \in 1..Len(payload') : payload'[i].last \in BOOLEAN
    <2>1. CASE AcceptConf
      <3>1. PageConf \in [kind : PageKind, n : Nat, last : BOOLEAN]
        BY <1>1, SizesAssumption DEF TypeOK, PageConf
      <3>2. confs' = Append(confs, PageConf) /\ payload' = payload
        BY <2>1 DEF AcceptConf
      <3>3. confs \in Seq([kind : PageKind, n : Nat, last : BOOLEAN])
        BY <1>1, Zenon DEF TypeOK
      <3>4. confs' \in Seq([kind : PageKind, n : Nat, last : BOOLEAN])
        BY <3>1, <3>2, <3>3
      <3>5. QED
        BY <1>1, <3>2, <3>4, Zenon DEF TypeOK
    <2>2. CASE AcceptPayload
      <3>1. payload' = <<>> /\ confs' = confs
        BY <2>2 DEF AcceptPayload
      <3>2. Len(payload') \in 0..1 /\ \A i \in 1..Len(payload') : payload'[i].last \in BOOLEAN
        BY <3>1
      <3>3. confs' \in Seq([kind : PageKind, n : Nat, last : BOOLEAN])
        BY <1>1, <3>1 DEF TypeOK
      <3>4. QED
        BY <3>2, <3>3
    <2>3. QED
      BY <2>1, <2>2
  <1>4. TypeOK'
    BY <1>1, <1>2, <1>3 DEF TypeOK
  <1>5. BeatsShort' /\ BufferRoom' /\ ConfState' /\ InStruct'
    BY <1>1, <1>2 DEF BeatsShort, BufferRoom, ConfState, InStruct
  <1>6. QED
    BY <1>4, <1>5 DEF IInv

-----------------------------------------------------------------------------
LEMMA NextIInv == IInv /\ [Next]_vars => IInv'
  <1> SUFFICES ASSUME IInv, [Next]_vars PROVE IInv'
    OBVIOUS
  <1>1. CASE UNCHANGED vars
    <2>1. /\ UNCHANGED <<work, chunk, input, state, buffer, skip, kind, comp, nvals, depth>>
          /\ UNCHANGED <<next_state, left, conf, payload, confs, transfers>>
      BY <1>1 DEF vars, host_vars, header_vars, out_vars
    <2>2. QED
      BY <2>1 DEF IInv, TypeOK, BeatsShort, BufferRoom, ConfState, InStruct
  <1>2. CASE Parser
    BY <1>2, TakeChunkConfStep, RefillStep, SkipStep, ParseStep, IsEndStep, SkipFieldStep,
       FlushOverfullStep, FlushEndStep, BypassStep, FlushConfStep, AcceptStep DEF Parser
  <1>3. QED
    BY <1>1, <1>2 DEF Next, Done

LEMMA Invariant == Spec => []IInv
  <1>1. QED
    BY InitIInv, NextIInv, PTL DEF Spec

\* The registers of the parser hold what their declarations say, whatever bytes arrive: the
\* buffer is never over its NUM_BYTES + 4 bytes, struct_depth never goes below 0, and the payload
\* is flushed from a buffer that is not empty and holds a beat and two bytes at most.
THEOREM TypeCorrect == Spec => []TypeOK
  <1>1. IInv => TypeOK
    BY DEF IInv
  <1>2. QED
    BY <1>1, Invariant, PTL

\* What page_conf announces stands until the HybridPageDecoder takes it, whatever bytes
\* arrive: the registers it is driven by belong to the header states, where none is offered.
THEOREM ConfAlwaysHeld == Spec => ConfHeld
  <1>1. IInv /\ [Next]_vars => [conf /\ conf' => PageConf' = PageConf]_vars
    <2> SUFFICES ASSUME IInv, Next, conf, conf' PROVE PageConf' = PageConf
      OBVIOUS
    <2>1. state \in PayloadStates
      BY DEF IInv, ConfState
    <2>2. UNCHANGED <<kind, nvals, left>>
      BY <2>1
      DEF Next, Parser, Done, PayloadStates, TakeChunkConf, Refill, WaitInVarint, Skip, ParseType,
          SkipUncomp, ParseComp, IsCrc, ParseNvals, ParseEnc, IsEnd, SkipVarint, SkipBinary,
          Field, HeaderStates, Fields, FlushOverfull, FlushPart, FlushWhole, BypassEnd,
          BypassBeat, FlushConf, AcceptConf, AcceptPayload, PayloadUnchanged, VarintEnds,
          header_vars, vars
    <2>3. QED
      BY <2>2 DEF PageConf
  <1>2. QED
    BY <1>1, Invariant, PTL DEF Spec, ConfHeld
=============================================================================
