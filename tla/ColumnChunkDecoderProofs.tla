---------------------- MODULE ColumnChunkDecoderProofs ----------------------
(***************************************************************************)
(* Proofs about the column-chunk decoder, for every workload, every width  *)
(* and every depth that meets the assumptions of ColumnChunkDecoder.       *)
(***************************************************************************)
EXTENDS ColumnChunkDecoder, TLAPS

-----------------------------------------------------------------------------
(* Facts about the operators the model is built from.                      *)

LEMMA ModNat ==
  ASSUME NEW a \in Int, NEW m \in Nat \ {0}
  PROVE  a % m \in Nat
OBVIOUS

LEMMA DivInt ==
  ASSUME NEW a \in Int, NEW m \in Nat \ {0}
  PROVE  a \div m \in Int
OBVIOUS

LEMMA DivPos ==
  ASSUME NEW a \in Nat, NEW m \in 1..a
  PROVE  a \div m \in Nat \ {0}
OBVIOUS

\* A databeat holds a value of every type.
LEMMA PerBeatPos ==
  ASSUME NEW t \in Types
  PROVE  PerBeat(t) \in Nat \ {0}
  <1>1. Width[t] \in 1..BeatBytes /\ BeatBytes \in Nat
    BY WidthAssumption, DepthAssumption
  <1>2. QED
    BY <1>1, DivPos DEF PerBeat

\* A chunk of a workload, and a page of it, have the fields the FSM reads.
LEMMA ChunkFields ==
  ASSUME NEW w \in Workloads, NEW k \in DOMAIN w
  PROVE  /\ w[k].typ \in Types /\ w[k].num_values \in Nat
         /\ \A j \in DOMAIN w[k].pages :
              w[k].pages[j].kind \in PageKind /\ w[k].pages[j].n \in Nat
                /\ w[k].pages[j].beats \in Nat
         /\ w[k].pages \in Seq(Page)
  <1>1. w \in Seq(Chunk)
    BY WorkloadsAssumption
  <1>2. w[k] \in Chunk
    BY <1>1
  <1>3. w[k].pages \in Seq(Page)
    BY <1>2 DEF Chunk
  <1>4. \A j \in DOMAIN w[k].pages : w[k].pages[j] \in Page
    BY <1>3
  <1>5. QED
    BY <1>2, <1>3, <1>4 DEF Chunk, Page

\* What a beat at the output multiplexer leaves in the registers behind it.
LEMMA ConfigureTypes ==
  ASSUME NEW b \in OutBeat, TypeOK, Configure(b)
  PROVE  remaining' \in Nat /\ in_typ' \in Types \cup {NoType}
         /\ typ_fifo' \in Seq(Types)
  <1>1. data.num_values \in Nat /\ b.typ \in Types
    BY DEF TypeOK, FsmTypeOK, DataType, OutBeat
  <1>2. /\ remaining \in Nat /\ in_typ \in Types \cup {NoType}
        /\ typ_fifo \in Seq(Types)
    BY DEF TypeOK, OutTypeOK
  <1>3. CASE TakesSize
    BY <1>1, <1>2, <1>3 DEF Configure
  <1>4. CASE ~TakesSize
    BY <1>1, <1>2, <1>4 DEF Configure
  <1>5. QED
    BY <1>3, <1>4


\* A handshake drops some valid signals and leaves what the FSM drives alone.
LEMMA ConsumeOnlyDrops ==
  ASSUME NEW S, Consume(S)
  PROVE  valid' \subseteq valid /\ data' = data
  BY DEF Consume

-----------------------------------------------------------------------------
(* Type correctness, one group of variables at a time.                     *)

\* Every action but the three of the FSM leaves its registers alone and at most
\* drops valid signals.
LEMMA FsmFrame ==
  ASSUME System, ~TakeChunkConf, ~TakePageConf, ~FinishPage
  PROVE  /\ UNCHANGED <<work, fsm_vars, data>>
         /\ valid' \subseteq valid
  <1>1. CASE ParserTakeConf \/ ParseHeader \/ EmitPayload \/ FlushConf
    BY <1>1 DEF ParserTakeConf, ParseHeader, EmitPayload, FlushConf, ParserUnchanged, conf_vars
  <1>2. CASE Decompress \/ DictLookup \/ NormalizeGate \/ Deliver
    BY <1>2 DEF Decompress, DictLookup, NormalizeGate, Deliver, conf_vars
  <1>3. CASE HpdTakeConf \/ RewriteLastTake
    BY <1>3, ConsumeOnlyDrops DEF HpdTakeConf, RewriteLastTake, HpdUnchanged
  <1>4. CASE HpdProcessFirstDatabeat \/ HpdDummy \/ \E n \in 1..MaxBeat : HpdEmit(n)
    BY <1>4 DEF HpdProcessFirstDatabeat, HpdDummy, HpdEmit, HpdUnchanged, conf_vars
  <1>5. CASE HpdTakeBeat \/ HpdDrain \/ DictLoad \/ PlainIn
    BY <1>5, ConsumeOnlyDrops
    DEF HpdTakeBeat, HpdDrain, DictLoad, PlainIn, TakeOffered, HpdUnchanged
  <1>6. CASE HybridOut \/ PlainOut
    BY <1>6, ConsumeOnlyDrops
    DEF HybridOut, PlainOut, NormalizeAccept
  <1>7. QED
    BY <1>1, <1>2, <1>3, <1>4, <1>5, <1>6 DEF System

LEMMA FsmTypes ==
  ASSUME TypeOK, [Next]_vars
  PROVE  FsmTypeOK'
  <1>1. CASE TakeChunkConf
    <2>1. chunk' \in DOMAIN work /\ chunk' \in 0..Len(work)
      BY <1>1, WorkloadsAssumption DEF TakeChunkConf, TypeOK, FsmTypeOK
    <2>2. work[chunk'].num_values \in Nat
      BY <2>1, ChunkFields DEF TypeOK, FsmTypeOK
    <2>3. data' \in DataType
      BY <1>1, <2>2 DEF TakeChunkConf, TypeOK, FsmTypeOK, DataType
    <2>4. \A c \in {"dict_type", "plain_type"} \cap valid' : c \in valid /\ data'[c] = data[c]
      BY <1>1 DEF TakeChunkConf, TypeOK, FsmTypeOK, DataType
    <2>5. QED
      BY <1>1, <2>1, <2>3, <2>4 DEF TakeChunkConf, TypeOK, FsmTypeOK, Confs
  <1>2. CASE TakePageConf
    <2>1. PageConf.kind \in PageKind /\ PageConf.n \in Nat /\ PageConf.last \in BOOLEAN
      BY <1>2, ChunkFields DEF TakePageConf, PageConf, TypeOK, FsmTypeOK, ParserTypeOK
    <2>2. work[chunk].typ \in Types
      BY <1>2, ChunkFields DEF TakePageConf, TypeOK, FsmTypeOK
    <2>3. CASE PageConf.kind = "HYBRID"
      <3>1. ConfigureHybrid(PageConf)
        BY <1>2, <2>3 DEF TakePageConf
      <3>2. data' \in DataType
        BY <2>1, <3>1 DEF ConfigureHybrid, TypeOK, FsmTypeOK, DataType, PageKind
      <3>3. valid' \subseteq Confs /\ dict_seen' \in BOOLEAN
            /\ \A c \in {"dict_type", "plain_type"} \cap valid' :
                  c \in valid /\ data'[c] = data[c]
        BY <3>1 DEF ConfigureHybrid, TypeOK, FsmTypeOK, DataType, Confs
      <3>4. QED
        BY <1>2, <2>1, <3>2, <3>3 DEF TakePageConf, TypeOK, FsmTypeOK
    <2>4. CASE PageConf.kind = "DICT"
      <3>1. ConfigureDict
        BY <1>2, <2>4 DEF TakePageConf
      <3>2. data' \in DataType
        BY <2>2, <3>1 DEF ConfigureDict, TypeOK, FsmTypeOK, DataType, PageKind
      <3>3. valid' \subseteq Confs /\ dict_seen' \in BOOLEAN
            /\ data'["dict_type"] \in Types
            /\ ("plain_type" \in valid' => "plain_type" \in valid)
            /\ data'["plain_type"] = data["plain_type"]
        BY <2>2, <3>1 DEF ConfigureDict, TypeOK, FsmTypeOK, DataType, Confs
      <3>4. QED
        BY <1>2, <2>1, <3>2, <3>3 DEF TakePageConf, TypeOK, FsmTypeOK
    <2>5. CASE PageConf.kind = "PLAIN"
      <3>1. ConfigurePlain(PageConf)
        BY <1>2, <2>5 DEF TakePageConf
      <3>2. data' \in DataType
        BY <2>1, <2>2, <3>1 DEF ConfigurePlain, TypeOK, FsmTypeOK, DataType, PageKind
      <3>3. valid' \subseteq Confs /\ dict_seen' \in BOOLEAN
            /\ data'["plain_type"] \in Types
            /\ ("dict_type" \in valid' => "dict_type" \in valid)
            /\ data'["dict_type"] = data["dict_type"]
        BY <2>2, <3>1 DEF ConfigurePlain, TypeOK, FsmTypeOK, DataType, Confs
      <3>4. QED
        BY <1>2, <2>1, <3>2, <3>3 DEF TakePageConf, TypeOK, FsmTypeOK
    <2>6. QED
      BY <2>1, <2>3, <2>4, <2>5 DEF PageKind
  <1>3. CASE FinishPage
    BY <1>3 DEF FinishPage, TypeOK, FsmTypeOK, conf_vars
  <1>4. CASE System /\ ~TakeChunkConf /\ ~TakePageConf /\ ~FinishPage
    BY <1>4, FsmFrame DEF TypeOK, FsmTypeOK, fsm_vars
  <1>5. CASE UNCHANGED vars
    BY <1>5 DEF TypeOK, FsmTypeOK, vars, fsm_vars, conf_vars
  <1>6. QED
    BY <1>1, <1>2, <1>3, <1>4, <1>5 DEF Next, Done

\* The values of a payload beat are a number.
LEMMA BeatValuesInt ==
  ASSUME NEW pg, pg.n \in Nat, pg.beats \in Nat, NEW t \in Types, NEW j \in Nat
  PROVE  BeatValues(pg, t, j) \in Int
  <1>2. PerBeat(t) \in Int
    BY PerBeatPos
  <1>3. (pg.beats - 1) * PerBeat(t) \in Int
    BY <1>2
  <1>4. QED
    BY <1>2, <1>3 DEF BeatValues

\* A beat leaves the demultiplexer's register whole or not at all.
LEMMA TakeOfferedTypes ==
  ASSUME TypeOK, NEW to, Offered(to), NEW S, TakeOffered(S)
  PROVE  /\ Head(dec) \in InBeat
         /\ dec' \in Seq(InBeat)
  BY DEF TypeOK, ParserTypeOK, Offered, TakeOffered

LEMMA ParserTypes ==
  ASSUME TypeOK, [Next]_vars
  PROVE  ParserTypeOK'
  <1>1. CASE ParserTakeConf
    <2>1. parser.chunk + 1 \in DOMAIN work /\ parser.chunk + 1 \in 0..Len(work)
      BY <1>1, WorkloadsAssumption DEF ParserTakeConf, TypeOK, FsmTypeOK, ParserTypeOK, ParserRegs
    <2>2. work[parser.chunk + 1].num_values \in Int
      BY <2>1, ChunkFields DEF TypeOK, FsmTypeOK
    <2>3. parser' = [state |-> "HEADER", chunk |-> parser.chunk + 1, page |-> 0,
                     sent |-> parser.sent, conf |-> parser.conf,
                     remaining |-> work[parser.chunk + 1].num_values]
      BY <1>1 DEF ParserTakeConf, TypeOK, ParserTypeOK, ParserRegs
    <2>4. ~parser.conf
      BY <1>1 DEF ParserTakeConf, TypeOK, ParserTypeOK, ParserRegs
    <2>5. parser' \in ParserRegs
      BY <2>1, <2>2, <2>3, <2>4 DEF TypeOK, ParserTypeOK, ParserRegs
    <2>6. UNCHANGED <<work, payload, dec>>
      BY <1>1 DEF ParserTakeConf, ParserUnchanged
    <2>7. QED
      BY <2>1, <2>3, <2>4, <2>5, <2>6 DEF TypeOK, ParserTypeOK
  <1>2. CASE ParseHeader
    <2> DEFINE pg == work[parser.chunk].pages[parser.page + 1]
               left == IF pg.kind = "DICT" THEN parser.remaining ELSE parser.remaining - pg.n
    <2>1. parser.chunk \in DOMAIN work
      BY <1>2 DEF ParseHeader, TypeOK, ParserTypeOK, ParserRegs
    <2>2. parser.page + 1 \in DOMAIN work[parser.chunk].pages
      BY <1>2, <2>1, ChunkFields DEF ParseHeader, TypeOK, FsmTypeOK, ParserTypeOK, ParserRegs
    <2>3. left \in Int
      BY <2>1, <2>2, ChunkFields DEF TypeOK, FsmTypeOK, ParserTypeOK, ParserRegs
    <2>4. parser' = [state |-> "PAYLOAD", chunk |-> parser.chunk, page |-> parser.page + 1,
                     sent |-> 0, conf |-> TRUE, remaining |-> left]
      BY <1>2 DEF ParseHeader, TypeOK, ParserTypeOK, ParserRegs
    <2>5. parser' \in ParserRegs
      BY <2>3, <2>4 DEF TypeOK, ParserTypeOK, ParserRegs
    <2>6. UNCHANGED <<work, payload, dec>>
      BY <1>2 DEF ParseHeader, ParserUnchanged
    <2>7. QED
      BY <2>1, <2>2, <2>4, <2>5, <2>6 DEF TypeOK, ParserTypeOK
  <1>3. CASE EmitPayload
    <2> DEFINE ch == work[parser.chunk]
               pg == ch.pages[parser.page]
               j  == parser.sent + 1
               beat == [c |-> parser.chunk, p |-> parser.page, last |-> j = pg.beats,
                        at |-> IF pg.kind = "PLAIN" THEN (j - 1) * PerBeat(ch.typ) ELSE 0,
                        n |-> IF pg.kind = "PLAIN" THEN BeatValues(pg, ch.typ, j) ELSE 0]
    <2>1. parser.chunk \in DOMAIN work /\ parser.page \in DOMAIN ch.pages
      BY <1>3 DEF EmitPayload, TypeOK, ParserTypeOK, ParserRegs
    <2>2. ch.typ \in Types /\ pg.n \in Nat /\ pg.beats \in Nat /\ j \in Nat
      BY <2>1, ChunkFields DEF TypeOK, FsmTypeOK, ParserTypeOK, ParserRegs
    <2>3. BeatValues(pg, ch.typ, j) \in Int /\ (j - 1) * PerBeat(ch.typ) \in Int
      <3>1. PerBeat(ch.typ) \in Nat
        BY <2>2, PerBeatPos
      <3>2. QED
        BY <2>2, <3>1, BeatValuesInt
    <2>4. beat \in InBeat
      BY <2>1, <2>3 DEF InBeat, TypeOK, ParserTypeOK, ParserRegs
    <2>5. payload' \in Seq(InBeat)
      <3>1. payload' = Append(payload, beat)
        BY <1>3 DEF EmitPayload
      <3>2. QED
        BY <2>4, <3>1 DEF TypeOK, ParserTypeOK, ParserRegs
    <2>6. parser' = [parser EXCEPT !.sent = j,
                       !.state = IF j = pg.beats THEN "FLUSH_CONF" ELSE @]
      BY <1>3 DEF EmitPayload
    <2>7. UNCHANGED <<work, dec>>
      BY <1>3 DEF EmitPayload, ParserUnchanged
    <2>8. QED
      BY <1>3, <2>1, <2>2, <2>5, <2>6, <2>7 DEF EmitPayload, TypeOK, ParserTypeOK, ParserRegs
  <1>4. CASE FlushConf
    BY <1>4 DEF FlushConf, ParserUnchanged, TypeOK, ParserTypeOK, ParserRegs
  <1>5. CASE TakePageConf
    BY <1>5 DEF TakePageConf, TypeOK, ParserTypeOK, ParserRegs
  <1>6. CASE Decompress
    BY <1>6 DEF Decompress, TypeOK, ParserTypeOK, ParserRegs
  <1>7. CASE HpdTakeBeat \/ HpdDrain \/ DictLoad \/ PlainIn
    <2>1. dec' \in Seq(InBeat)
      BY <1>7, TakeOfferedTypes DEF HpdTakeBeat, HpdDrain, DictLoad, PlainIn
    <2>2. UNCHANGED <<work, in_vars>>
      BY <1>7 DEF HpdTakeBeat, HpdDrain, DictLoad, PlainIn, HpdUnchanged
    <2>3. QED
      BY <2>1, <2>2 DEF TypeOK, ParserTypeOK, in_vars
  <1>8. CASE TakeChunkConf \/ FinishPage \/ HpdTakeConf \/ HpdProcessFirstDatabeat
             \/ HpdDummy \/ \E n \in 1..MaxBeat : HpdEmit(n)
    <2>1. UNCHANGED <<work, in_vars, dec>>
      BY <1>8 DEF TakeChunkConf, FinishPage, HpdTakeConf, HpdProcessFirstDatabeat, HpdDummy,
                  HpdEmit, HpdUnchanged
    <2>2. QED
      BY <2>1 DEF TypeOK, ParserTypeOK, in_vars
  <1>9. CASE DictLookup \/ RewriteLastTake \/ HybridOut \/ PlainOut
             \/ NormalizeGate \/ Deliver
    <2>1. UNCHANGED <<work, in_vars, dec>>
      BY <1>9 DEF DictLookup, RewriteLastTake, HybridOut, PlainOut,
                  NormalizeGate, Deliver
    <2>2. QED
      BY <2>1 DEF TypeOK, ParserTypeOK, in_vars
  <1>10. CASE UNCHANGED vars
    BY <1>10 DEF TypeOK, ParserTypeOK, vars, in_vars
  <1>11. QED
    BY <1>1, <1>2, <1>3, <1>4, <1>5, <1>6, <1>7, <1>8, <1>9, <1>10 DEF Next, System, Done

LEMMA HybridTypes ==
  ASSUME TypeOK, [Next]_vars
  PROVE  HybridTypeOK'
  <1>1. CASE HpdTakeConf
    <2>1. data.hybrid_conf.n \in Nat /\ data.hybrid_conf.last \in BOOLEAN
      BY DEF TypeOK, FsmTypeOK, DataType
    <2>2. hpd' = [hpd EXCEPT !.last = data.hybrid_conf.last, !.n = data.hybrid_conf.n,
                    !.at = 0, !.state = IF data.hybrid_conf.keep THEN "WAIT" ELSE "DUMMY"]
      BY <1>1 DEF HpdTakeConf
    <2>3. UNCHANGED <<ids, dict, looked, rw>>
      BY <1>1 DEF HpdTakeConf, HpdUnchanged
    <2>4. QED
      BY <2>1, <2>2, <2>3 DEF TypeOK, HybridTypeOK, HpdRegs
  <1>2. CASE HpdProcessFirstDatabeat
    BY <1>2 DEF HpdProcessFirstDatabeat, HpdUnchanged, TypeOK, HybridTypeOK, HpdRegs
  <1>3. CASE HpdTakeBeat
    <2>1. Head(dec) \in InBeat
      BY <1>3, TakeOfferedTypes DEF HpdTakeBeat
    <2>2. hpd' = [state |-> hpd.state, n |-> hpd.n, at |-> hpd.at, last |-> hpd.last, taken |-> hpd.taken + 1,
                  seen_last |-> Head(dec).last, c |-> Head(dec).c, p |-> Head(dec).p]
      BY <1>3 DEF HpdTakeBeat, TypeOK, HybridTypeOK, HpdRegs
    <2>3. UNCHANGED <<ids, dict, looked, rw>>
      BY <1>3 DEF HpdTakeBeat, HpdUnchanged
    <2>4. Head(dec).c \in Nat /\ Head(dec).p \in Nat /\ Head(dec).last \in BOOLEAN
      BY <2>1 DEF InBeat
    <2>5. hpd \in HpdRegs
      BY DEF TypeOK, HybridTypeOK
    <2>6. hpd' \in HpdRegs
      BY <2>2, <2>4, <2>5 DEF HpdRegs
    <2>7. QED
      BY <2>3, <2>6 DEF TypeOK, HybridTypeOK, HpdRegs
  <1>4. CASE HpdDrain
    BY <1>4 DEF HpdDrain, HpdUnchanged, TypeOK, HybridTypeOK, HpdRegs
  <1>5. CASE HpdDummy
    <2>1. [c |-> 0, p |-> 0, at |-> 0, n |-> 0, last |-> TRUE] \in IdBeat
      BY DEF IdBeat
    <2>2. ids' = Append(ids, [c |-> 0, p |-> 0, at |-> 0, n |-> 0, last |-> TRUE])
      BY <1>5 DEF HpdDummy
    <2>3. ids' \in Seq(IdBeat)
      BY <2>1, <2>2 DEF TypeOK, HybridTypeOK, HpdRegs
    <2>4. QED
      BY <1>5, <2>3 DEF HpdDummy, HpdUnchanged, TypeOK, HybridTypeOK, HpdRegs
  <1>6. ASSUME NEW n \in 1..MaxBeat, HpdEmit(n)
        PROVE  HybridTypeOK'
    <2> DEFINE beat == [c |-> hpd.c, p |-> hpd.p, at |-> hpd.at, n |-> n,
                        last |-> n = hpd.n /\ hpd.last]
    <2>1. n \in Nat /\ n <= hpd.n
      BY <1>6, DepthAssumption DEF HpdEmit, MaxBeat
    <2>2. beat \in IdBeat
      BY <2>1 DEF IdBeat, TypeOK, HybridTypeOK, HpdRegs
    <2>3. ids' = Append(ids, beat)
      BY <1>6 DEF HpdEmit
    <2>4. ids' \in Seq(IdBeat)
      BY <2>2, <2>3 DEF TypeOK, HybridTypeOK, HpdRegs
    <2> DEFINE l == IF n = hpd.n THEN FALSE ELSE hpd.seen_last
               s == CASE ~(n = hpd.n)                -> "PIPE"
                      [] n = hpd.n /\ hpd.seen_last  -> "IDLE"
                      [] n = hpd.n /\ ~hpd.seen_last -> "DRAIN"
    <2>5. hpd' = [state |-> s, n |-> hpd.n - n, at |-> hpd.at + n, last |-> hpd.last, taken |-> hpd.taken,
                  seen_last |-> l, c |-> hpd.c, p |-> hpd.p]
      BY <1>6 DEF HpdEmit, TypeOK, HybridTypeOK, HpdRegs
    <2>6. hpd \in HpdRegs
      BY DEF TypeOK, HybridTypeOK
    <2>7. /\ s \in {"PIPE", "IDLE", "DRAIN"}
          /\ l \in BOOLEAN
          /\ hpd.n - n \in Nat
      <3>1. hpd.n \in Nat /\ hpd.seen_last \in BOOLEAN
        BY <2>6 DEF HpdRegs
      <3>2. hpd.n - n \in Nat
        BY <2>1, <3>1
      <3>3. QED
        BY <3>1, <3>2
    <2> HIDE DEF s, l
    <2>8. hpd' \in HpdRegs
      BY <2>5, <2>6, <2>7 DEF HpdRegs
    <2>9. QED
      BY <1>6, <2>4, <2>8 DEF HpdEmit, HpdUnchanged, TypeOK, HybridTypeOK, HpdRegs
  <1>7. CASE DictLoad
    <2>1. Head(dec) \in InBeat
      BY <1>7, TakeOfferedTypes DEF DictLoad
    <2>2. data.dict_type \in Types
      BY <1>7 DEF DictLoad, TypeOK, FsmTypeOK
    <2>3. dict' = [c |-> Head(dec).c, typ |-> data.dict_type,
                   state |-> IF Head(dec).last THEN "SERVE" ELSE "LOAD"]
      BY <1>7 DEF DictLoad
    <2>4. UNCHANGED <<hpd, ids, looked, rw>>
      BY <1>7 DEF DictLoad
    <2>5. QED
      BY <2>1, <2>2, <2>3, <2>4 DEF TypeOK, HybridTypeOK, InBeat
  <1>8. CASE DictLookup
    <2> DEFINE b == Head(ids)
               fit == PerBeat(dict.typ)
               all == b.n <= fit
               beat == [c |-> b.c, p |-> b.p, at |-> b.at, n |-> IF all THEN b.n ELSE fit,
                        typ |-> dict.typ, dict |-> dict.c]
               left == [c |-> b.c, p |-> b.p, at |-> b.at + fit, n |-> b.n - fit,
                        last |-> b.last]
    <2>1. b \in IdBeat /\ Tail(ids) \in Seq(IdBeat) /\ fit \in Nat
      BY <1>8, PerBeatPos DEF DictLookup, TypeOK, HybridTypeOK, HpdRegs
    <2>2. beat \in DictIds
      BY <1>8, <2>1 DEF DictLookup, DictIds, IdBeat, TypeOK, HybridTypeOK
    <2>3. looked' = (IF b.n = 0 THEN looked ELSE Append(looked, beat))
      BY <1>8 DEF DictLookup
    <2>4. looked' \in Seq(DictIds)
      BY <2>2, <2>3 DEF TypeOK, HybridTypeOK, HpdRegs
    <2>5. dict' = (IF all /\ b.last THEN [state |-> "LOAD", c |-> 0, typ |-> NoType] ELSE dict)
      BY <1>8 DEF DictLookup
    <2>6. ids' \in Seq(IdBeat)
      <3>1. ids' = IF all THEN Tail(ids) ELSE <<left>> \o Tail(ids)
        BY <1>8 DEF DictLookup
      <3>2. ~all => left \in IdBeat
        <4> HIDE DEF b, fit
        <4>1. SUFFICES ASSUME ~(b.n <= fit) PROVE left \in IdBeat
          OBVIOUS
        <4>2. QED
          BY <2>1, <4>1, SMTT(60) DEF IdBeat
      <3> HIDE DEF left, all
      <3>3. ~all => <<left>> \o Tail(ids) \in Seq(IdBeat)
        BY <2>1, <3>2
      <3>4. QED
        BY <2>1, <3>1, <3>3
    <2>7. UNCHANGED <<hpd, rw>>
      BY <1>8 DEF DictLookup
    <2> HIDE DEF b, all, beat
    <2>8. QED
      BY <2>4, <2>5, <2>6, <2>7 DEF TypeOK, HybridTypeOK
  <1>9. CASE RewriteLastTake
    BY <1>9 DEF RewriteLastTake, hyb_vars, TypeOK, FsmTypeOK, DataType, HybridTypeOK, HpdRegs
  <1>10. CASE HybridOut
    <2>1. looked \in Seq(DictIds) /\ looked # <<>>
      BY <1>10 DEF HybridOut, HybridAtMux, TypeOK, HybridTypeOK, HpdRegs
    <2>2. looked[1] \in DictIds
      BY <2>1
    <2>3. looked' \in Seq(DictIds)
      BY <1>10, <2>1 DEF HybridOut
    <2>4. rw' = rw - looked[1].n
      BY <1>10 DEF HybridOut, HybridBeat
    <2>5. QED
      BY <1>10, <2>2, <2>3, <2>4, SMTT(60) DEF HybridOut, DictIds, TypeOK, HybridTypeOK
  <1>11. CASE TakeChunkConf \/ TakePageConf \/ FinishPage \/ ParserTakeConf \/ ParseHeader
              \/ EmitPayload \/ FlushConf \/ Decompress
    <2>1. UNCHANGED <<hyb_vars, rw>>
      BY <1>11 DEF TakeChunkConf, TakePageConf, FinishPage, ParserTakeConf, ParseHeader,
                   EmitPayload, FlushConf, Decompress, ParserUnchanged
    <2>2. QED
      BY <2>1 DEF TypeOK, HybridTypeOK, hyb_vars
  <1>12. CASE PlainIn \/ PlainOut \/ NormalizeGate \/ Deliver
    <2>1. UNCHANGED <<hyb_vars, rw>>
      BY <1>12 DEF PlainIn, PlainOut, NormalizeGate, Deliver
    <2>2. QED
      BY <2>1 DEF TypeOK, HybridTypeOK, hyb_vars
  <1>13. CASE UNCHANGED vars
    BY <1>13 DEF TypeOK, HybridTypeOK, vars, hyb_vars
  <1>14. QED
    BY <1>1, <1>2, <1>3, <1>4, <1>5, <1>6, <1>7, <1>8, <1>9, <1>10, <1>11, <1>12, <1>13
    DEF Next, System, Done

\* A beat at either input of the output multiplexer is well typed.
LEMMA MuxBeatTypes ==
  ASSUME TypeOK
  PROVE  /\ HybridAtMux => HybridBeat \in OutBeat
         /\ PlainAtMux => PlainBeat \in OutBeat
  <1>1. ASSUME HybridAtMux PROVE HybridBeat \in OutBeat
    <2>1. looked[1] \in DictIds
      BY <1>1 DEF HybridAtMux, TypeOK, HybridTypeOK
    <2>2. QED
      BY <2>1 DEF HybridBeat, OutBeat, DictIds
  <1>2. ASSUME PlainAtMux PROVE PlainBeat \in OutBeat
    <2>1. plain[1] \in InBeat
      BY <1>2 DEF PlainAtMux, TypeOK, OutTypeOK
    <2>2. data.plain_type \in Types
      BY <1>2 DEF PlainAtMux, TypeOK, FsmTypeOK
    <2>3. QED
      BY <2>1, <2>2 DEF PlainBeat, OutBeat, InBeat
  <1>3. QED
    BY <1>1, <1>2

\* What the type-correct beat b may leave in the output registers.
LEMMA NormalizeInTypes ==
  ASSUME TypeOK, NEW b \in OutBeat, NEW S, NormalizeAccept(b, S)
  PROVE  /\ skid' \in Seq(OutBeat) /\ pipe' = pipe /\ out' = out
         /\ remaining' \in Nat /\ in_typ' \in Types \cup {NoType} /\ typ_fifo' \in Seq(Types)
  <1>1. Configure(b) /\ pipe' = pipe /\ out' = out
    BY DEF NormalizeAccept
  <1>2. skid' = Append(skid, b)
    BY DEF NormalizeAccept
  <1>3. skid' \in Seq(OutBeat)
    <2>1. skid \in Seq(OutBeat)
      BY DEF TypeOK, OutTypeOK
    <2>2. Append(skid, b) \in Seq(OutBeat)
      BY <2>1
    <2>3. QED
      BY <1>2, <2>1, <2>2
  <1>4. QED
    BY <1>1, <1>3, ConfigureTypes

\* The gate's count stays a data32_t.
LEMMA NextRemainingNat ==
  ASSUME TypeOK, NEW b \in OutBeat
  PROVE  NextRemaining(b) \in Nat
  <1>1. b.n \in Int /\ Width[b.typ] \in Int /\ remaining \in Int /\ SizeMod \in Nat \ {0}
    BY WidthAssumption, SizeModAssumption DEF OutBeat, TypeOK, OutTypeOK
  <1>2. InNumValues(b) \in Int
    <2>1. CASE in_typ = NoType
      BY <2>1 DEF InNumValues
    <2>2. CASE in_typ # NoType
      <3>1. Width[in_typ] \in Nat \ {0}
        BY <2>2, WidthAssumption DEF TypeOK, OutTypeOK
      <3>2. b.n * Width[b.typ] \in Int
        BY <1>1
      <3>3. (b.n * Width[b.typ]) \div Width[in_typ] \in Int
        BY <3>1, <3>2, DivInt
      <3>4. QED
        BY <2>2, <3>3 DEF InNumValues
    <2>3. QED
      BY <2>1, <2>2
  <1>3. remaining + SizeMod - InNumValues(b) \in Int
    BY <1>1, <1>2
  <1>4. QED
    BY <1>1, <1>3, ModNat DEF NextRemaining

\* Extending an open transfer leaves a transfer.
LEMMA ExtendTransfer ==
  ASSUME NEW t \in Transfer, NEW v \in Seq(Nat \X Nat \X Int \X Nat), NEW l \in BOOLEAN
  PROVE  Extended(t, v, l) \in Transfer
  <1>1. t.typ \in Types /\ t.vals \o v \in Seq(Nat \X Nat \X Int \X Nat)
    BY DEF Transfer
  <1>2. QED
    BY <1>1 DEF Transfer, Extended

\* Replacing an element leaves a sequence of the same kind.
LEMMA ReplaceInSeq ==
  ASSUME NEW S, NEW s \in Seq(S), NEW i \in DOMAIN s, NEW e \in S
  PROVE  [s EXCEPT ![i] = e] \in Seq(S)
  OBVIOUS

LEMMA OutTypes ==
  ASSUME TypeOK, [Next]_vars
  PROVE  OutTypeOK'
  <1>1. CASE PlainIn
    <2>1. plain' = Append(plain, Head(dec)) /\ Head(dec) \in InBeat
      BY <1>1, TakeOfferedTypes DEF PlainIn
    <2>2. plain' \in Seq(InBeat)
      BY <2>1 DEF TypeOK, OutTypeOK
    <2>3. QED
      BY <1>1, <2>2 DEF PlainIn, norm_vars, out_vars, TypeOK, OutTypeOK
  <1>2. CASE HybridOut
    BY <1>2, MuxBeatTypes, NormalizeInTypes DEF HybridOut, TypeOK, OutTypeOK
  <1>3. CASE PlainOut
    <2>1. plain' \in Seq(InBeat)
      BY <1>3 DEF PlainOut, PlainAtMux, TypeOK, OutTypeOK
    <2>2. QED
      BY <1>3, <2>1, MuxBeatTypes, NormalizeInTypes DEF PlainOut, TypeOK, OutTypeOK
  <1>4. CASE NormalizeGate
    <2> DEFINE b == Head(skid)
               last == b.last /\ NextRemaining(b) = 0
    <2>1. b \in OutBeat /\ skid' \in Seq(OutBeat)
      BY <1>4 DEF NormalizeGate, TypeOK, OutTypeOK
    <2>2. remaining' \in Nat
      BY <1>4, <2>1, NextRemainingNat DEF NormalizeGate
    <2>3. pipe' = Append(pipe, [b EXCEPT !.last = last])
      BY <1>4 DEF NormalizeGate
    <2>4. [b EXCEPT !.last = last] \in OutBeat
      BY <2>1 DEF OutBeat
    <2>5. pipe' \in Seq(OutBeat)
      BY <2>3, <2>4 DEF TypeOK, OutTypeOK
    <2>6. in_typ' \in Types \cup {NoType}
      BY <1>4 DEF NormalizeGate, TypeOK, OutTypeOK
    <2>7. QED
      BY <1>4, <2>1, <2>2, <2>5, <2>6 DEF NormalizeGate, TypeOK, OutTypeOK
  <1>5. CASE Deliver
    <2> DEFINE b    == Head(pipe)
               vals == [i \in 1..b.n |-> <<b.c, b.p, b.at + i, b.dict>>]
               k    == Len(out)
               open == k > 0 /\ ~out[k].closed
    <2>1. b \in OutBeat /\ pipe' \in Seq(OutBeat)
      BY <1>5 DEF Deliver, TypeOK, OutTypeOK
    <2>2. Head(typ_fifo) \in Types /\ typ_fifo' \in Seq(Types)
      BY <1>5 DEF Deliver, TypeOK, OutTypeOK
    <2>3. vals \in Seq(Nat \X Nat \X Int \X Nat)
      <3> HIDE DEF b
      <3>1. b.c \in Nat /\ b.p \in Nat /\ b.at \in Int /\ b.n \in Int /\ b.dict \in Nat
        BY <2>1 DEF OutBeat
      <3>2. \A i \in 1..b.n : <<b.c, b.p, b.at + i, b.dict>> \in Nat \X Nat \X Int \X Nat
        BY <3>1
      <3>3. CASE b.n \in Nat
        BY <3>2, <3>3
      <3>4. CASE b.n \notin Nat
        BY <3>1, <3>4
      <3>5. QED
        BY <3>3, <3>4
    <2>4. out' = IF open
                 THEN [out EXCEPT ![k] = Extended(@, vals, b.last)]
                 ELSE Append(out, [typ |-> Head(typ_fifo), vals |-> vals, closed |-> b.last])
      BY <1>5 DEF Deliver
    <2>5. CASE open
      <3>1. k \in DOMAIN out /\ out[k] \in Transfer
        BY <2>5 DEF TypeOK, OutTypeOK
      <3>2. b.last \in BOOLEAN
        BY <2>1 DEF OutBeat
      <3>3. DEFINE rec == Extended(out[k], vals, b.last)
      <3>4. rec \in Transfer
        <4> HIDE DEF vals, b, k, open
        <4> QED
          BY <2>3, <3>1, <3>2, ExtendTransfer
      <3>5. out' \in Seq(Transfer)
        <4>1. out' = [out EXCEPT ![k] = rec]
          <5> HIDE DEF vals, b, k, open
          <5> QED
            BY <2>4, <2>5
        <4>2. out \in Seq(Transfer)
          BY DEF TypeOK, OutTypeOK
        <4> HIDE DEF vals, b, k, open, rec
        <4>3. QED
          BY <3>1, <3>4, <4>1, <4>2, ReplaceInSeq
      <3>6. QED
        BY <1>5, <2>1, <2>2, <3>5 DEF Deliver, norm_vars, TypeOK, OutTypeOK
    <2>6. CASE ~open
      <3>1. [typ |-> Head(typ_fifo), vals |-> vals, closed |-> b.last] \in Transfer
        BY <2>1, <2>2, <2>3 DEF Transfer, OutBeat
      <3>2. out' \in Seq(Transfer)
        BY <2>4, <2>6, <3>1 DEF TypeOK, OutTypeOK
      <3>3. QED
        BY <1>5, <2>1, <2>2, <3>2 DEF Deliver, norm_vars, TypeOK, OutTypeOK
    <2>7. QED
      BY <2>5, <2>6
  <1>6. CASE TakeChunkConf \/ TakePageConf \/ FinishPage \/ ParserTakeConf \/ ParseHeader
             \/ EmitPayload \/ FlushConf \/ Decompress
    <2>1. UNCHANGED <<plain, norm_vars, out_vars>>
      BY <1>6 DEF TakeChunkConf, TakePageConf, FinishPage, ParserTakeConf, ParseHeader,
                  EmitPayload, FlushConf, Decompress, ParserUnchanged
    <2>2. QED
      BY <2>1 DEF TypeOK, OutTypeOK, norm_vars, out_vars
  <1>7. CASE HpdTakeConf \/ HpdProcessFirstDatabeat \/ HpdTakeBeat \/ HpdDrain \/ HpdDummy
             \/ (\E n \in 1..MaxBeat : HpdEmit(n)) \/ DictLoad \/ DictLookup
             \/ RewriteLastTake
    <2>1. UNCHANGED <<plain, norm_vars, out_vars>>
      BY <1>7 DEF HpdTakeConf, HpdProcessFirstDatabeat, HpdTakeBeat, HpdDrain, HpdDummy,
                  HpdEmit, DictLoad, DictLookup, RewriteLastTake, HpdUnchanged
    <2>2. QED
      BY <2>1 DEF TypeOK, OutTypeOK, norm_vars, out_vars
  <1>8. CASE UNCHANGED vars
    BY <1>8 DEF TypeOK, OutTypeOK, vars, norm_vars, out_vars
  <1>9. QED
    BY <1>1, <1>2, <1>3, <1>4, <1>5, <1>6, <1>7, <1>8 DEF Next, System, Done

\* Registers and streams hold what they are declared to hold, for every workload.
THEOREM TypeCorrect == Spec => []TypeOK
  <1>1. ASSUME Init PROVE TypeOK
    <2>1. Len(work) \in Nat
      BY <1>1, WorkloadsAssumption DEF Init
    <2>2. FsmTypeOK
      <3>1. [n |-> 0, keep |-> FALSE, last |-> FALSE]
              \in [n : Nat, keep : BOOLEAN, last : BOOLEAN]
        OBVIOUS
      <3>2. data \in DataType
        BY <1>1, <3>1 DEF Init, DataType, PageKind
      <3>3. state = "IDLE" /\ valid = {} /\ chunk = 0 /\ work \in Workloads
            /\ last_page = FALSE /\ dict_seen = FALSE
        BY <1>1 DEF Init
      <3>4. chunk \in 0..Len(work)
        BY <2>1, <3>3
      <3>5. valid \subseteq Confs /\ \A c \in {"dict_type", "plain_type"} \cap valid : data[c] \in Types
        BY <3>3
      <3>6. QED
        BY <3>2, <3>3, <3>4, <3>5, Zenon DEF FsmTypeOK
    <2>3. ParserTypeOK
      BY <1>1, <2>1 DEF Init, ParserTypeOK, ParserRegs
    <2>4. HybridTypeOK
      BY <1>1 DEF Init, HybridTypeOK, HpdRegs
    <2>5. OutTypeOK
      BY <1>1 DEF Init, OutTypeOK
    <2>6. QED
      BY <2>2, <2>3, <2>4, <2>5 DEF TypeOK
  <1>2. TypeOK /\ [Next]_vars => TypeOK'
    BY FsmTypes, ParserTypes, HybridTypes, OutTypes DEF TypeOK
  <1>3. QED
    BY <1>1, <1>2, PTL DEF Spec

-----------------------------------------------------------------------------
(* The page configurations.  ST_PROCESS_PAGE does not wait for             *)
(* hybrid_num_values, so PageConfsConsumed is not inductive by itself; it  *)
(* needs what ties that count to out_select (PageConfsInv).                *)

\* Only the multiplexer's last beats drop out_select, only the two FSM steps and
\* RewriteLast touch what the invariant says of the count.
LEMMA CountFrame ==
  ASSUME System, ~TakeChunkConf, ~TakePageConf, ~FinishPage, ~RewriteLastTake,
         ~HybridOut, ~PlainOut
  PROVE  rw' = rw /\ ("out_select" \in valid => "out_select" \in valid')
  <1>1. CASE ParserTakeConf \/ ParseHeader \/ EmitPayload \/ FlushConf
    BY <1>1 DEF ParserTakeConf, ParseHeader, EmitPayload, FlushConf, ParserUnchanged, conf_vars
  <1>2. CASE Decompress \/ DictLookup \/ NormalizeGate \/ Deliver
    BY <1>2 DEF Decompress, DictLookup, NormalizeGate, Deliver, conf_vars
  <1>3. CASE HpdTakeConf
    BY <1>3 DEF HpdTakeConf, Consume, HpdUnchanged
  <1>4. CASE HpdProcessFirstDatabeat \/ HpdDummy \/ \E n \in 1..MaxBeat : HpdEmit(n)
    BY <1>4 DEF HpdProcessFirstDatabeat, HpdDummy, HpdEmit, HpdUnchanged, conf_vars
  <1>5. CASE HpdTakeBeat \/ HpdDrain \/ DictLoad \/ PlainIn
    BY <1>5 DEF HpdTakeBeat, HpdDrain, DictLoad, PlainIn, TakeOffered, Consume, HpdUnchanged
  <1>6. QED
    BY <1>1, <1>2, <1>3, <1>4, <1>5 DEF System

LEMMA PageConfsStep ==
  ASSUME TypeOK, PageConfsInv, [Next]_vars
  PROVE  PageConfsInv'
  <1> USE DEF PageConfsInv, PageConfsConsumed, CountNeedsSelect, CountTakenOnce
  <1>1. CASE TakeChunkConf
    <2>1. rw = 0 /\ valid' = {"num_values"} /\ rw' = rw
      BY <1>1 DEF TakeChunkConf
    <2>2. QED
      BY <2>1
  <1>2. CASE TakePageConf
    <2>1. state' = "PROCESS_PAGE" /\ rw = 0 /\ rw' = rw /\ valid \subseteq {"num_values"}
      BY <1>2 DEF TakePageConf
    <2>2. "hybrid_num_values" \in valid' =>
            "out_select" \in valid' /\ data'.out_select = "HYBRID"
      <3>1. CASE PageConf.kind = "HYBRID" /\ ConfigureHybrid(PageConf)
        BY <3>1 DEF ConfigureHybrid, TypeOK, FsmTypeOK, DataType
      <3>2. CASE PageConf.kind = "DICT" /\ ConfigureDict
        BY <2>1, <3>2 DEF ConfigureDict
      <3>3. CASE PageConf.kind = "PLAIN" /\ ConfigurePlain(PageConf)
        BY <2>1, <3>3 DEF ConfigurePlain
      <3>4. PageConf.kind \in PageKind
        BY <1>2, ChunkFields DEF TakePageConf, PageConf, TypeOK, FsmTypeOK, ParserTypeOK
      <3>5. QED
        BY <1>2, <3>1, <3>2, <3>3, <3>4 DEF TakePageConf, PageKind
    <2>3. QED
      BY <2>1, <2>2
  <1>3. CASE FinishPage
    <2>1. "out_select" \notin valid /\ valid' = valid /\ rw' = rw
      BY <1>3 DEF FinishPage, Awaited, Confs, conf_vars
    <2>2. rw = 0 /\ "hybrid_num_values" \notin valid
      BY <2>1
    <2>3. valid \subseteq {"num_values"}
      BY <1>3, <2>2 DEF FinishPage, Awaited, TypeOK, FsmTypeOK
    <2>4. QED
      BY <2>1, <2>2, <2>3
  <1>4. CASE RewriteLastTake
    <2>1. state = "PROCESS_PAGE" /\ UNCHANGED <<state, data>>
      BY <1>4 DEF RewriteLastTake, fsm_vars, Consume
    <2>2. valid' = valid \ {"hybrid_num_values"}
      BY <1>4, <2>1 DEF RewriteLastTake, Consume, Watched, Confs
    <2>3. QED
      BY <1>4, <2>1, <2>2 DEF RewriteLastTake
  <1>5. CASE HybridOut
    <2>1. /\ rw > 0 /\ rw' = rw - looked[1].n
          /\ HybridBeat.last <=> rw = looked[1].n
      BY <1>5 DEF HybridOut, HybridAtMux, HybridBeat
    <2>2. rw # 0
      BY <2>1
    <2>3. "out_select" \in valid /\ data.out_select = "HYBRID" /\ state = "PROCESS_PAGE"
          /\ "hybrid_num_values" \notin valid
      BY <2>2
    <2>4. UNCHANGED <<state, data>> /\ valid' \subseteq valid
          /\ (~HybridBeat.last => "out_select" \in valid')
      BY <1>5, <2>3 DEF HybridOut, NormalizeAccept, Consume, fsm_vars
    <2>5. rw \in Int /\ looked[1].n \in Int
      <3>1. looked[1] \in DictIds
        BY <1>5 DEF HybridOut, HybridAtMux, TypeOK, HybridTypeOK
      <3>2. QED
        BY <3>1 DEF DictIds, TypeOK, HybridTypeOK
    <2>6. HybridBeat.last => rw' = 0
      BY <2>1, <2>5
    <2>7. QED
      BY <2>3, <2>4, <2>6
  <1>6. CASE PlainOut
    <2>1. data.out_select = "PLAIN" /\ rw' = rw
      BY <1>6 DEF PlainOut, PlainAtMux
    <2>2. rw = 0 /\ "hybrid_num_values" \notin valid
      BY <2>1
    <2>3. UNCHANGED <<state, data>> /\ valid' \subseteq valid
      BY <1>6 DEF PlainOut, NormalizeAccept, Consume, fsm_vars
    <2>4. QED
      BY <2>1, <2>2, <2>3
  <1>7. CASE System /\ ~TakeChunkConf /\ ~TakePageConf /\ ~FinishPage
             /\ ~RewriteLastTake /\ ~HybridOut /\ ~PlainOut
    <2>1. UNCHANGED <<state, data>> /\ valid' \subseteq valid
      BY <1>7, FsmFrame DEF fsm_vars
    <2>2. rw' = rw /\ ("out_select" \in valid => "out_select" \in valid')
      BY <1>7, CountFrame
    <2>3. QED
      BY <2>1, <2>2
  <1>8. CASE UNCHANGED vars
    BY <1>8 DEF vars, fsm_vars, conf_vars
  <1>9. QED
    BY <1>1, <1>2, <1>3, <1>4, <1>5, <1>6, <1>7, <1>8 DEF Next, Done

\* The strengthened invariant, from which the theorem below follows.
LEMMA PageConfsInductive == Spec => [](TypeOK /\ PageConfsInv)
  <1>1. Init => PageConfsInv
    BY DEF Init, PageConfsInv, PageConfsConsumed, CountNeedsSelect, CountTakenOnce
  <1>2. TypeOK /\ PageConfsInv /\ [Next]_vars => PageConfsInv'
    BY PageConfsStep
  <1>3. QED
    BY <1>1, <1>2, TypeCorrect, PTL DEF Spec

\* Between two pages no page configuration is left over, for every workload and
\* every sizing of the pipeline.
THEOREM PageConfsAlwaysConsumed == Spec => []PageConfsConsumed
  <1>1. PageConfsInv => PageConfsConsumed
    BY DEF PageConfsInv
  <1>2. QED
    BY <1>1, PageConfsInductive, PTL

-----------------------------------------------------------------------------
(* The FSM and the PageHeaderParser stay in step, for every workload: each *)
(* has a copy of the chunk's configuration, the parser runs ahead of the   *)
(* FSM by up to a page, or a chunk, and still a beat meets the             *)
(* configurations of its own page at the demultiplexer.                    *)
(*                                                                         *)
(* The invariant: chunks.                                                  *)

\* The FSM is done with its chunk, or has its last page.
Finishing == state = "IDLE" \/ (state = "PROCESS_PAGE" /\ last_page)

\* The parser's page was taken by the FSM.
Taken == parser.state \in {"PAYLOAD", "FLUSH_CONF"} /\ ~parser.conf

\* The parser has not begun another chunk since the one the FSM took its last page of.
ParserFinishing == parser.state = "IDLE" \/ (Taken /\ parser.remaining = 0)

\* The two decide separately when a chunk ends, and decide the same.
ChunksInStep ==
  IF Finishing
  THEN \/ parser.chunk = chunk /\ ParserFinishing
       \/ parser.chunk = chunk + 1 /\ parser.state # "IDLE" /\ ~Taken
  ELSE \/ parser.chunk = chunk - 1 /\ ParserFinishing /\ state = "CONFIGURED"
       \/ parser.chunk = chunk /\ ~ParserFinishing

-----------------------------------------------------------------------------
(* The invariant: pages.                                                   *)

\* A beat of the page the FSM is at, and one of the page the parser is at.
Current(b) == b.c = chunk /\ work[chunk].pages[b.p].kind = data.in_select
Ahead(b) == b.c = parser.chunk /\ b.p = parser.page

\* What the parser has put out is of a page that the FSM has not taken.
ParserAhead ==
  /\ payload # <<>> => /\ parser.conf /\ Ahead(payload[1])
                       /\ payload[1].last <=> parser.state = "FLUSH_CONF"
  /\ parser.state = "PAYLOAD" => parser.conf
  /\ parser.conf /\ parser.state = "FLUSH_CONF" => payload # <<>>

\* Where the last beat of the FSM's page is: gone, behind the Decompressor, before it,
\* or yet to come.
Gone == "in_select" \notin valid /\ dec = <<>> /\ ParserAhead
LastBehind ==
  /\ "in_select" \in valid
  /\ dec # <<>> /\ dec[1].last /\ Current(dec[1])
  /\ ParserAhead
LastBefore ==
  /\ "in_select" \in valid
  /\ dec # <<>> => ~dec[1].last /\ Current(dec[1])
  /\ payload # <<>> /\ payload[1].last /\ Current(payload[1])
  /\ parser.state = "PAYLOAD" => parser.conf
  /\ parser.state = "FLUSH_CONF" => ~parser.conf
LastToCome ==
  /\ "in_select" \in valid
  /\ dec # <<>> => ~dec[1].last /\ Current(dec[1])
  /\ payload # <<>> => ~payload[1].last /\ Current(payload[1])
  /\ parser.state = "PAYLOAD" /\ ~parser.conf /\ parser.chunk = chunk
  /\ work[chunk].pages[parser.page].kind = data.in_select

PagesInStep ==
  /\ Len(payload) <= 1 /\ Len(dec) <= 1
  /\ "in_select" \in valid <=> "decompressor_conf" \in valid
  /\ Gone \/ LastBehind \/ LastBefore \/ LastToCome

StepInv == ChunksInStep /\ PagesInStep

-----------------------------------------------------------------------------
(* What the actions do to the streams between parser and demultiplexer.    *)

stream_vars == <<parser, payload, dec>>
DecTaken == HpdTakeBeat \/ HpdDrain \/ DictLoad \/ PlainIn
ParserSteps == ParserTakeConf \/ ParseHeader \/ EmitPayload \/ FlushConf
FsmSteps == TakeChunkConf \/ TakePageConf \/ FinishPage

LEMMA AtMostOne ==
  ASSUME NEW n \in Nat, n <= 1
  PROVE  n = 0 \/ n = 1
OBVIOUS

\* A queue of at most one entry, put to and taken from.
LEMMA OneBeat ==
  ASSUME NEW S, NEW q \in Seq(S), Len(q) <= 1
  PROVE  /\ q = <<>> \/ (Len(q) = 1 /\ q[1] \in S /\ Head(q) = q[1] /\ Tail(q) = <<>>)
         /\ Len(q) < 1 => q = <<>>
  <1>1. Len(q) \in Nat /\ (q = <<>> <=> Len(q) = 0)
    OBVIOUS
  <1>2. CASE Len(q) = 0
    BY <1>1, <1>2
  <1>3. CASE Len(q) = 1
    <2>1. q[1] \in S /\ Head(q) = q[1] /\ Tail(q) \in Seq(S) /\ Len(Tail(q)) = 0
      BY <1>1, <1>3
    <2>2. Tail(q) = <<>>
      BY <2>1
    <2>3. QED
      BY <1>1, <1>3, <2>1, <2>2
  <1>4. Len(q) = 0 \/ Len(q) = 1
    BY <1>1, AtMostOne
  <1>5. QED
    BY <1>2, <1>3, <1>4

LEMMA FirstBeat ==
  ASSUME NEW b
  PROVE  Append(<<>>, b) = <<b>> /\ <<b>>[1] = b /\ Len(<<b>>) = 1 /\ <<b>> # <<>>
OBVIOUS

\* Most actions have nothing to do with them.
LEMMA StreamFrame ==
  ASSUME System, ~FsmSteps, ~ParserSteps, ~Decompress, ~DecTaken
  PROVE  /\ UNCHANGED <<work, fsm_vars, data, stream_vars>>
         /\ \A c \in {"in_select", "decompressor_conf"} : c \in valid' <=> c \in valid
  <1> USE DEF stream_vars, in_vars
  <1>1. CASE DictLookup \/ NormalizeGate \/ Deliver
    BY <1>1 DEF DictLookup, NormalizeGate, Deliver, conf_vars
  <1>2. CASE HpdTakeConf \/ RewriteLastTake
    BY <1>2 DEF HpdTakeConf, RewriteLastTake, HpdUnchanged, Consume
  <1>3. CASE HpdProcessFirstDatabeat \/ HpdDummy \/ \E n \in 1..MaxBeat : HpdEmit(n)
    BY <1>3 DEF HpdProcessFirstDatabeat, HpdDummy, HpdEmit, HpdUnchanged, conf_vars
  <1>4. CASE HybridOut \/ PlainOut
    BY <1>4 DEF HybridOut, PlainOut, NormalizeAccept, Consume
  <1>5. QED
    BY <1>1, <1>2, <1>3, <1>4 DEF System, FsmSteps, ParserSteps, DecTaken

\* A consumer of the demultiplexer takes a beat; the page's last one frees its
\* configurations, both of them.
LEMMA DecTakenFrame ==
  ASSUME TypeOK, PageConfsInv, DecTaken
  PROVE  /\ UNCHANGED <<work, fsm_vars, data, parser, payload>>
         /\ dec # <<>> /\ "in_select" \in valid /\ dec' = Tail(dec)
         /\ IF Head(dec).last
            THEN "in_select" \notin valid' /\ "decompressor_conf" \notin valid'
            ELSE valid' = valid
  <1> USE DEF in_vars
  <1>1. "in_select" \in valid /\ dec # <<>>
    BY DEF DecTaken, HpdTakeBeat, HpdDrain, DictLoad, PlainIn, Offered
  <1>2. state = "PROCESS_PAGE"
    BY <1>1 DEF PageConfsInv, PageConfsConsumed
  <1>3. UNCHANGED <<work, fsm_vars, parser, payload>>
    BY DEF DecTaken, HpdTakeBeat, HpdDrain, DictLoad, PlainIn, HpdUnchanged
  <1>4. \E more : TakeOffered(more)
    BY DEF DecTaken, HpdTakeBeat, HpdDrain, DictLoad, PlainIn
  <1>5. PICK more : TakeOffered(more)
    BY <1>4
  <1>6. dec' = Tail(dec) /\ data' = data
    BY <1>5 DEF TakeOffered, Consume
  <1>7. CASE Head(dec).last
    <2>1. Consume({"in_select", "decompressor_conf"} \cup more)
      BY <1>5, <1>7 DEF TakeOffered
    <2>2. "in_select" \notin valid' /\ "decompressor_conf" \notin valid'
      BY <1>2, <2>1 DEF Consume, Watched, Confs
    <2>3. QED
      BY <1>1, <1>3, <1>6, <1>7, <2>2, Zenon
  <1>8. CASE ~Head(dec).last
    <2>1. Consume({})
      BY <1>5, <1>8 DEF TakeOffered
    <2>2. valid' = valid
      BY <2>1 DEF Consume
    <2>3. QED
      BY <1>1, <1>3, <1>6, <1>8, <2>2, Zenon
  <1>9. QED
    BY <1>7, <1>8

\* What taking a page's configuration drives.
LEMMA TakePageData ==
  ASSUME TypeOK, PageConfsInv, TakePageConf
  PROVE  /\ data'.in_select = work[parser.chunk].pages[parser.page].kind
         /\ "in_select" \in valid' /\ "decompressor_conf" \in valid'
         /\ "in_select" \notin valid
  <1>1. PageConf.kind \in PageKind /\ parser.conf
    BY ChunkFields DEF TakePageConf, PageConf, TypeOK, FsmTypeOK, ParserTypeOK
  <1>2. data \in DataType
    BY DEF TypeOK, FsmTypeOK
  <1>3. PageConf.kind = work[parser.chunk].pages[parser.page].kind
    BY DEF PageConf
  <1>4. "in_select" \notin valid
    BY DEF TakePageConf, PageConfsInv, PageConfsConsumed
  <1>5. data'.in_select = PageConf.kind /\ "in_select" \in valid' /\ "decompressor_conf" \in valid'
    <2>1. CASE PageConf.kind = "HYBRID"
      BY <1>2, <2>1 DEF TakePageConf, ConfigureHybrid, DataType
    <2>2. CASE PageConf.kind = "DICT"
      BY <1>2, <2>2 DEF TakePageConf, ConfigureDict, DataType
    <2>3. CASE PageConf.kind = "PLAIN"
      BY <1>2, <2>3 DEF TakePageConf, ConfigurePlain, DataType
    <2>4. QED
      BY <1>1, <2>1, <2>2, <2>3 DEF PageKind
  <1>6. QED
    BY <1>3, <1>4, <1>5

-----------------------------------------------------------------------------
(* The chunks stay in step.                                                *)

LEMMA ChunksStep ==
  ASSUME TypeOK, PageConfsInv, ChunksInStep, [Next]_vars
  PROVE  ChunksInStep'
  <1> USE DEF Finishing, Taken, ParserFinishing
  <1>1. /\ chunk \in Nat /\ parser \in ParserRegs
        /\ parser.conf => parser.state \in {"PAYLOAD", "FLUSH_CONF"}
        /\ state \in {"IDLE", "CONFIGURED", "PROCESS_PAGE"} /\ last_page \in BOOLEAN
    BY WorkloadsAssumption DEF TypeOK, FsmTypeOK, ParserTypeOK
  <1>2. CASE TakeChunkConf
    <2>1. /\ state = "IDLE" /\ state' = "CONFIGURED" /\ chunk' = chunk + 1 /\ chunk <= parser.chunk
          /\ parser' = parser
      BY <1>2 DEF TakeChunkConf, in_vars
    <2>2. QED
      BY <1>1, <2>1 DEF ChunksInStep, ParserRegs
  <1>3. CASE TakePageConf
    <2>1. /\ state = "CONFIGURED" /\ state' = "PROCESS_PAGE" /\ chunk' = chunk /\ parser.conf
          /\ parser' = [parser EXCEPT !.conf = FALSE]
          /\ last_page' = (parser.remaining = 0)
      BY <1>3 DEF TakePageConf, PageConf
    <2>2. parser.chunk = chunk
      BY <1>1, <2>1 DEF ChunksInStep
    <2>3. /\ ~parser'.conf /\ parser'.state \in {"PAYLOAD", "FLUSH_CONF"}
          /\ parser'.chunk = chunk' /\ parser'.remaining = parser.remaining
      BY <1>1, <2>1, <2>2 DEF ParserRegs
    <2>4. QED
      BY <2>1, <2>3 DEF ChunksInStep
  <1>4. CASE FinishPage
    <2>1. /\ state = "PROCESS_PAGE" /\ state' = (IF last_page THEN "IDLE" ELSE "CONFIGURED")
          /\ UNCHANGED <<last_page, chunk, parser>>
      BY <1>4 DEF FinishPage, in_vars
    <2>2. QED
      BY <1>1, <2>1 DEF ChunksInStep
  <1>5. CASE ParserTakeConf
    <2>1. /\ parser.state = "IDLE" /\ parser.chunk <= chunk
          /\ parser'.state = "HEADER" /\ parser'.chunk = parser.chunk + 1
          /\ UNCHANGED <<state, last_page, chunk>>
      BY <1>1, <1>5 DEF ParserTakeConf, ParserUnchanged, fsm_vars, ParserRegs
    <2>2. QED
      BY <1>1, <2>1 DEF ChunksInStep, ParserRegs
  <1>6. CASE ParseHeader
    <2>1. /\ parser.state = "HEADER" /\ parser'.state = "PAYLOAD" /\ parser'.conf
          /\ parser'.chunk = parser.chunk
          /\ UNCHANGED <<state, last_page, chunk>>
      BY <1>1, <1>6 DEF ParseHeader, ParserUnchanged, fsm_vars, ParserRegs
    <2>2. QED
      BY <2>1 DEF ChunksInStep
  <1>7. CASE EmitPayload
    <2>1. /\ parser.state = "PAYLOAD" /\ parser'.state \in {"PAYLOAD", "FLUSH_CONF"}
          /\ parser'.conf = parser.conf /\ parser'.chunk = parser.chunk
          /\ parser'.remaining = parser.remaining
          /\ UNCHANGED <<state, last_page, chunk>>
      BY <1>1, <1>7 DEF EmitPayload, ParserUnchanged, fsm_vars, ParserRegs
    <2>2. QED
      BY <2>1 DEF ChunksInStep
  <1>8. CASE FlushConf
    <2>1. /\ parser.state = "FLUSH_CONF" /\ ~parser.conf
          /\ parser'.state = (IF parser.remaining = 0 THEN "IDLE" ELSE "HEADER")
          /\ parser'.chunk = parser.chunk
          /\ UNCHANGED <<state, last_page, chunk>>
      BY <1>1, <1>8 DEF FlushConf, ParserUnchanged, fsm_vars, ParserRegs
    <2>2. QED
      BY <2>1 DEF ChunksInStep
  <1>9. CASE UNCHANGED <<fsm_vars, parser>>
    BY <1>9 DEF ChunksInStep, fsm_vars
  <1>10. CASE Decompress
    BY <1>9, <1>10 DEF Decompress
  <1>11. CASE DecTaken
    BY <1>9, <1>11, DecTakenFrame
  <1>12. CASE System /\ ~FsmSteps /\ ~ParserSteps /\ ~Decompress /\ ~DecTaken
    BY <1>9, <1>12, StreamFrame DEF stream_vars
  <1>13. CASE UNCHANGED vars
    BY <1>9, <1>13 DEF vars, in_vars
  <1>14. QED
    BY <1>2, <1>3, <1>4, <1>5, <1>6, <1>7, <1>8, <1>10, <1>11, <1>12, <1>13
    DEF Next, Done, FsmSteps, ParserSteps

-----------------------------------------------------------------------------
(* The pages stay in step.                                                 *)

LEMMA PagesFrame ==
  ASSUME PagesInStep, UNCHANGED <<work, chunk, data, stream_vars>>,
         \A c \in {"in_select", "decompressor_conf"} : c \in valid' <=> c \in valid
  PROVE  PagesInStep'
BY DEF PagesInStep, Gone, LastBehind, LastBefore, LastToCome, ParserAhead, Ahead, Current,
       stream_vars

\* The FSM takes the configuration of the page that the parser is at, of the same chunk.
LEMMA PagesTake ==
  ASSUME TypeOK, PageConfsInv, StepInv, TakePageConf
  PROVE  PagesInStep'
  <1>1. /\ "in_select" \in valid' /\ "decompressor_conf" \in valid'
        /\ "in_select" \notin valid
        /\ data'.in_select = work[parser.chunk].pages[parser.page].kind
    BY TakePageData
  <1>2. Gone
    BY <1>1 DEF StepInv, PagesInStep, LastBehind, LastBefore, LastToCome
  <1>3. /\ state = "CONFIGURED" /\ parser.conf
        /\ parser' = [parser EXCEPT !.conf = FALSE]
        /\ UNCHANGED <<work, chunk, payload, dec>>
    BY DEF TakePageConf
  <1>4. parser \in ParserRegs /\ parser.state \in {"PAYLOAD", "FLUSH_CONF"}
    BY <1>3 DEF TypeOK, ParserTypeOK
  <1>5. parser.chunk = chunk
    BY <1>3, <1>4 DEF StepInv, ChunksInStep, Finishing, ParserFinishing, Taken
  <1>6. /\ ~parser'.conf /\ parser'.state = parser.state
        /\ parser'.chunk = parser.chunk /\ parser'.page = parser.page
    BY <1>3, <1>4 DEF ParserRegs
  <1>7. payload # <<>> => Current(payload[1])'
    BY <1>1, <1>2, <1>3, <1>5 DEF Gone, ParserAhead, Ahead, Current
  <1>8. CASE parser.state = "PAYLOAD"
    <2>1. payload # <<>> => ~payload[1].last
      BY <1>2, <1>8 DEF Gone, ParserAhead
    <2>2. LastToCome'
      BY <1>1, <1>2, <1>3, <1>5, <1>6, <1>7, <1>8, <2>1 DEF LastToCome, Gone
    <2>3. QED
      BY <1>1, <1>3, <2>2 DEF PagesInStep, StepInv
  <1>9. CASE parser.state = "FLUSH_CONF"
    <2>1. payload # <<>> /\ payload[1].last
      BY <1>2, <1>3, <1>9 DEF Gone, ParserAhead
    <2>2. LastBefore'
      BY <1>1, <1>2, <1>3, <1>6, <1>7, <1>9, <2>1 DEF LastBefore, Gone
    <2>3. QED
      BY <1>1, <1>3, <2>2 DEF PagesInStep, StepInv
  <1>10. QED
    BY <1>4, <1>8, <1>9

\* Between two pages the parser has no beat out.
LEMMA PagesParser ==
  ASSUME TypeOK, PagesInStep, ParserTakeConf \/ ParseHeader \/ FlushConf
  PROVE  PagesInStep'
  <1>1. parser \in ParserRegs /\ (parser.conf => parser.state \in {"PAYLOAD", "FLUSH_CONF"})
    BY DEF TypeOK, ParserTypeOK
  <1>2. UNCHANGED <<work, chunk, valid, data, payload, dec>>
    BY DEF ParserTakeConf, ParseHeader, FlushConf, ParserUnchanged, fsm_vars, conf_vars
  <1>3. ~parser.conf /\ parser.state # "PAYLOAD"
    BY <1>1 DEF ParserTakeConf, ParseHeader, FlushConf
  <1>4. parser'.state # "FLUSH_CONF" /\ (parser'.state = "PAYLOAD" => parser'.conf)
    BY <1>1 DEF ParserTakeConf, ParseHeader, FlushConf, ParserRegs
  <1>5. ParserAhead => ParserAhead'
    BY <1>2, <1>3, <1>4 DEF ParserAhead
  <1>6. Gone \/ LastBehind \/ LastBefore
    BY <1>3 DEF PagesInStep, LastToCome
  <1>7. CASE Gone
    BY <1>2, <1>5, <1>7 DEF Gone, PagesInStep
  <1>8. CASE LastBehind
    BY <1>2, <1>5, <1>8 DEF LastBehind, Current, PagesInStep
  <1>9. CASE LastBefore
    BY <1>2, <1>4, <1>9 DEF LastBefore, Current, PagesInStep
  <1>10. QED
    BY <1>6, <1>7, <1>8, <1>9

\* A beat of the parser's page: the FSM's, or one that waits.
LEMMA PagesEmit ==
  ASSUME TypeOK, PagesInStep, EmitPayload
  PROVE  PagesInStep'
  <1> DEFINE ch == work[parser.chunk]
             pg == ch.pages[parser.page]
             j  == parser.sent + 1
             done == j = pg.beats
             b == [c |-> parser.chunk, p |-> parser.page, last |-> done,
                   at |-> IF pg.kind = "PLAIN" THEN (j - 1) * PerBeat(ch.typ) ELSE 0,
                   n |-> IF pg.kind = "PLAIN" THEN BeatValues(pg, ch.typ, j) ELSE 0]
  <1>1. payload = <<>>
    BY OneBeat DEF EmitPayload, TypeOK, ParserTypeOK, PagesInStep
  <1>2. payload' = Append(payload, b)
        /\ parser' = [parser EXCEPT !.sent = parser.sent + 1,
                        !.state = IF done THEN "FLUSH_CONF" ELSE @]
        /\ parser.state = "PAYLOAD"
    BY Zenon DEF EmitPayload
  <1>3. b.c = parser.chunk /\ b.p = parser.page /\ (b.last <=> done)
    OBVIOUS
  <1> HIDE DEF b, done
  <1>4. Len(payload') = 1 /\ payload' # <<>> /\ payload'[1] = b
    BY <1>1, <1>2, FirstBeat
  <1>5. /\ parser'.state = (IF done THEN "FLUSH_CONF" ELSE "PAYLOAD")
        /\ parser'.conf = parser.conf
        /\ parser'.chunk = parser.chunk /\ parser'.page = parser.page
    BY <1>2 DEF TypeOK, ParserTypeOK, ParserRegs
  <1>6. UNCHANGED <<work, chunk, valid, data, dec>>
    BY DEF EmitPayload, ParserUnchanged, fsm_vars, conf_vars
  <1>7. ParserAhead => ParserAhead'
    <2>1. SUFFICES ASSUME ParserAhead PROVE ParserAhead'
      OBVIOUS
    <2>2. parser.conf
      BY <1>2, <2>1 DEF ParserAhead
    <2>3. Ahead(payload[1])'
      BY <1>3, <1>4, <1>5 DEF Ahead
    <2>4. payload'[1].last <=> parser'.state = "FLUSH_CONF"
      BY <1>3, <1>4, <1>5
    <2>5. QED
      BY <1>4, <1>5, <2>2, <2>3, <2>4 DEF ParserAhead
  <1>8. CASE Gone
    BY <1>4, <1>6, <1>7, <1>8 DEF Gone, PagesInStep
  <1>9. CASE LastBehind
    BY <1>4, <1>6, <1>7, <1>9 DEF LastBehind, Current, PagesInStep
  <1>10. CASE LastBefore
    BY <1>1, <1>10 DEF LastBefore
  <1>11. CASE LastToCome
    <2>1. Current(payload[1])'
      BY <1>3, <1>4, <1>6, <1>11 DEF LastToCome, Current
    <2>2. CASE done
      BY <1>3, <1>4, <1>5, <1>6, <1>11, <2>1, <2>2 DEF LastToCome, LastBefore, Current, PagesInStep
    <2>3. CASE ~done
      BY <1>3, <1>4, <1>5, <1>6, <1>11, <2>1, <2>3 DEF LastToCome, Current, PagesInStep
    <2>4. QED
      BY <2>2, <2>3
  <1>12. QED
    BY <1>8, <1>9, <1>10, <1>11 DEF PagesInStep

\* The Decompressor passes beats only of the page it is configured for.
LEMMA PagesDecompress ==
  ASSUME TypeOK, PagesInStep, Decompress
  PROVE  PagesInStep'
  <1>1. payload \in Seq(InBeat) /\ dec \in Seq(InBeat)
    BY DEF TypeOK, ParserTypeOK
  <1>2. payload # <<>> /\ Head(payload) = payload[1] /\ Tail(payload) = <<>>
    BY <1>1, OneBeat DEF Decompress, PagesInStep
  <1>3. dec = <<>>
    BY <1>1, OneBeat DEF Decompress, PagesInStep
  <1>4. payload' = <<>> /\ Len(dec') = 1 /\ dec' # <<>> /\ dec'[1] = payload[1]
    BY <1>2, <1>3, FirstBeat DEF Decompress
  <1>5. UNCHANGED <<work, chunk, valid, data, parser>> /\ "in_select" \in valid
    BY DEF Decompress, fsm_vars, conf_vars, PagesInStep
  <1>6. Len(payload') <= 1
    BY <1>4
  <1>7. CASE LastBefore
    <2>1. dec'[1].last /\ Current(dec[1])'
      BY <1>4, <1>5, <1>7 DEF LastBefore, Current
    <2>2. ParserAhead'
      BY <1>4, <1>5, <1>7 DEF LastBefore, ParserAhead
    <2>3. QED
      BY <1>4, <1>5, <1>6, <2>1, <2>2 DEF LastBehind, PagesInStep
  <1>8. CASE LastToCome
    <2>1. ~dec'[1].last /\ Current(dec[1])'
      BY <1>2, <1>4, <1>5, <1>8 DEF LastToCome, Current
    <2>2. LastToCome'
      BY <1>4, <1>5, <1>8, <2>1 DEF LastToCome
    <2>3. QED
      BY <1>4, <1>5, <1>6, <2>2 DEF PagesInStep
  <1>9. QED
    BY <1>3, <1>5, <1>7, <1>8 DEF PagesInStep, Gone, LastBehind

\* With the page's last beat its configurations go.
LEMMA PagesTaken ==
  ASSUME TypeOK, PageConfsInv, PagesInStep, DecTaken
  PROVE  PagesInStep'
  <1>1. /\ UNCHANGED <<work, fsm_vars, data, parser, payload>>
        /\ dec # <<>> /\ "in_select" \in valid /\ dec' = Tail(dec)
        /\ IF Head(dec).last
           THEN "in_select" \notin valid' /\ "decompressor_conf" \notin valid'
           ELSE valid' = valid
    BY DecTakenFrame
  <1>2. Head(dec) = dec[1] /\ dec' = <<>> /\ Len(dec') <= 1
    BY <1>1, OneBeat DEF PagesInStep, TypeOK, ParserTypeOK
  <1>3. UNCHANGED <<work, chunk, data, parser, payload>>
    BY <1>1 DEF fsm_vars
  <1>4. CASE LastBehind
    <2>1. "in_select" \notin valid' /\ "decompressor_conf" \notin valid'
      BY <1>1, <1>2, <1>4 DEF LastBehind
    <2>2. Gone'
      BY <1>2, <1>3, <1>4, <2>1 DEF LastBehind, Gone, ParserAhead, Ahead
    <2>3. QED
      BY <1>2, <1>3, <2>1, <2>2 DEF PagesInStep
  <1>5. CASE LastBefore
    <2>1. valid' = valid
      BY <1>1, <1>2, <1>5 DEF LastBefore
    <2>2. LastBefore'
      BY <1>2, <1>3, <1>5, <2>1 DEF LastBefore, Current
    <2>3. QED
      BY <1>2, <1>3, <2>1, <2>2 DEF PagesInStep
  <1>6. CASE LastToCome
    <2>1. valid' = valid
      BY <1>1, <1>2, <1>6 DEF LastToCome
    <2>2. LastToCome'
      BY <1>2, <1>3, <1>6, <2>1 DEF LastToCome, Current
    <2>3. QED
      BY <1>2, <1>3, <2>1, <2>2 DEF PagesInStep
  <1>7. QED
    BY <1>1, <1>4, <1>5, <1>6 DEF PagesInStep, Gone

LEMMA PagesStep ==
  ASSUME TypeOK, PageConfsInv, StepInv, [Next]_vars
  PROVE  PagesInStep'
  <1>1. PagesInStep
    BY DEF StepInv
  <1>2. CASE TakeChunkConf
    <2>1. "in_select" \notin valid /\ "decompressor_conf" \notin valid
      BY <1>2 DEF TakeChunkConf, PageConfsInv, PageConfsConsumed
    <2>2. "in_select" \notin valid' /\ "decompressor_conf" \notin valid'
          /\ UNCHANGED <<parser, payload, dec>>
      BY <1>2, <2>1 DEF TakeChunkConf, in_vars
    <2>3. Gone
      BY <1>1, <2>1 DEF PagesInStep, LastBehind, LastBefore, LastToCome
    <2>4. QED
      BY <1>1, <2>2, <2>3 DEF PagesInStep, Gone, ParserAhead, Ahead
  <1>3. CASE TakePageConf
    BY <1>3, PagesTake
  <1>4. CASE FinishPage
    BY <1>1, <1>4, PagesFrame DEF FinishPage, conf_vars, in_vars, stream_vars
  <1>5. CASE ParserTakeConf \/ ParseHeader \/ FlushConf
    BY <1>1, <1>5, PagesParser
  <1>6. CASE EmitPayload
    BY <1>1, <1>6, PagesEmit
  <1>7. CASE Decompress
    BY <1>1, <1>7, PagesDecompress
  <1>8. CASE DecTaken
    BY <1>1, <1>8, PagesTaken
  <1>9. CASE System /\ ~FsmSteps /\ ~ParserSteps /\ ~Decompress /\ ~DecTaken
    <2>1. /\ UNCHANGED <<work, fsm_vars, data, stream_vars>>
          /\ \A c \in {"in_select", "decompressor_conf"} : c \in valid' <=> c \in valid
      BY <1>9, StreamFrame
    <2>2. QED
      BY <1>1, <2>1, PagesFrame DEF fsm_vars
  <1>10. CASE UNCHANGED vars
    BY <1>1, <1>10, PagesFrame DEF vars, fsm_vars, conf_vars, in_vars, stream_vars
  <1>11. QED
    BY <1>2, <1>3, <1>4, <1>5, <1>6, <1>7, <1>8, <1>9, <1>10
    DEF Next, Done, FsmSteps, ParserSteps

-----------------------------------------------------------------------------

\* The registers of parser and FSM stay in step.
LEMMA StepInductive == Spec => [](TypeOK /\ PageConfsInv /\ StepInv)
  <1>1. ASSUME Init PROVE StepInv
    <2>1. ChunksInStep
      BY <1>1 DEF Init, ChunksInStep, Finishing, ParserFinishing
    <2>2. Len(payload) = 0 /\ Len(dec) = 0
      BY <1>1 DEF Init
    <2>3. Gone /\ "decompressor_conf" \notin valid
      BY <1>1 DEF Init, Gone, ParserAhead
    <2>4. QED
      BY <2>1, <2>2, <2>3 DEF StepInv, PagesInStep, Gone
  <1>2. TypeOK /\ PageConfsInv /\ StepInv /\ [Next]_vars => StepInv'
    BY ChunksStep, PagesStep DEF StepInv
  <1>3. QED
    BY <1>1, <1>2, PageConfsInductive, PTL DEF Spec

\* Parser and FSM stay in step, however far the parser runs ahead and for every
\* workload: the beat at the demultiplexer is of the chunk the FSM works on and
\* of a page of the kind it selected.
THEOREM AlwaysMeetTheirPage == Spec => []BeatsMeetTheirPage
  <1>1. ASSUME TypeOK, StepInv PROVE BeatsMeetTheirPage
    <2>1. SUFFICES ASSUME dec # <<>>, "in_select" \in valid PROVE Current(Head(dec))
      BY DEF BeatsMeetTheirPage, Current
    <2>2. Head(dec) = dec[1]
      BY <2>1, OneBeat DEF StepInv, PagesInStep, TypeOK, ParserTypeOK
    <2>3. Current(dec[1])
      BY <1>1, <2>1 DEF StepInv, PagesInStep, Gone, LastBehind, LastBefore, LastToCome
    <2>4. QED
      BY <2>2, <2>3
  <1>2. QED
    BY <1>1, StepInductive, PTL

-----------------------------------------------------------------------------
(* Every dictionary is reset exactly once, and not before its chunk's last *)
(* page: the FSM remembers with dict_seen what the parser found in a       *)
(* header, the reset passes the HybridPageDecoder while the FSM is already *)
(* at the next chunk, and the next dictionary may be waiting to be loaded. *)
(*                                                                         *)
(* The invariant: the parser's page and dict_seen.                         *)

\* A dictionary page does not count: a chunk never ends with it.
ParserCount ==
  parser.state # "IDLE" =>
    LET ch == work[parser.chunk]
    IN  /\ parser.page \in Nat
        /\ parser.page = 0 \/ (parser.page = 1 /\ ch.pages[1].kind = "DICT") =>
             parser.remaining = ch.num_values

\* The FSM has taken a dictionary page of the parser's chunk.
DictTaken ==
  /\ parser.page > 0 /\ (parser.page > 1 \/ ~parser.conf)
  /\ work[parser.chunk].pages[1].kind = "DICT"

\* dict_seen is what the FSM knows of the chunk it has in common with the parser.
SeenInStep ==
  /\ parser.chunk = chunk /\ state # "IDLE" => (dict_seen <=> DictTaken)
  /\ parser.chunk = chunk - 1 => ~dict_seen
  /\ parser.chunk = chunk + 1 => parser.page = 0 \/ (parser.page = 1 /\ parser.conf)

SeenInv == ParserCount /\ SeenInStep

\* A dictionary comes first, and for every page encoded with it there is one.
LEMMA DictFirst ==
  ASSUME NEW w \in Workloads, NEW k \in DOMAIN w, NEW p \in DOMAIN w[k].pages
  PROVE  /\ w[k].pages[p].kind = "DICT" => p = 1
         /\ w[k].pages[p].kind = "HYBRID" => w[k].pages[1].kind = "DICT"
         /\ w[k].num_values \in Nat \ {0}
  <1>1. w[k] \in Chunk
    BY WorkloadsAssumption
  <1>2. WellFormed(w[k])
    BY ChunksAssumption
  <1>3. QED
    BY <1>1, <1>2 DEF WellFormed, Chunk

LEMMA SeenStep ==
  ASSUME TypeOK, PageConfsInv, StepInv, SeenInv, [Next]_vars
  PROVE  SeenInv'
  <1>1. /\ chunk \in Nat /\ parser \in ParserRegs
        /\ parser.conf => parser.state \in {"PAYLOAD", "FLUSH_CONF"}
        /\ state \in {"IDLE", "CONFIGURED", "PROCESS_PAGE"} /\ last_page \in BOOLEAN
        /\ dict_seen \in BOOLEAN
    BY WorkloadsAssumption DEF TypeOK, FsmTypeOK, ParserTypeOK
  <1>2. CASE TakeChunkConf
    <2>1. /\ state = "IDLE" /\ state' = "CONFIGURED" /\ chunk' = chunk + 1 /\ ~dict_seen'
          /\ parser' = parser /\ work' = work
      BY <1>2 DEF TakeChunkConf, in_vars
    <2>2. parser.chunk = chunk \/ parser.chunk = chunk + 1
      BY <2>1 DEF StepInv, ChunksInStep, Finishing
    <2>3. ParserCount'
      BY <2>1 DEF SeenInv, ParserCount
    <2>4. SeenInStep'
      BY <1>1, <2>1, <2>2 DEF SeenInv, SeenInStep, DictTaken, ParserRegs
    <2>5. QED
      BY <2>3, <2>4 DEF SeenInv
  <1>3. CASE TakePageConf
    <2> DEFINE pages == work[parser.chunk].pages
    <2>1. /\ state = "CONFIGURED" /\ state' = "PROCESS_PAGE" /\ chunk' = chunk /\ parser.conf
          /\ parser' = [parser EXCEPT !.conf = FALSE] /\ work' = work
      BY <1>3 DEF TakePageConf
    <2>2. parser.chunk = chunk
      BY <1>1, <2>1 DEF StepInv, ChunksInStep, Finishing, ParserFinishing, Taken
    <2>3. /\ ~parser'.conf /\ parser'.state = parser.state /\ parser'.page = parser.page
          /\ parser'.chunk = parser.chunk /\ parser'.remaining = parser.remaining
      BY <1>1, <2>1 DEF ParserRegs
    <2>4. parser.page \in DOMAIN pages /\ parser.page \in Nat /\ parser.page > 0
          /\ pages[parser.page].kind \in PageKind
      <3>1. parser.chunk \in DOMAIN work /\ parser.page \in DOMAIN pages /\ work \in Workloads
        BY <1>1, <2>1 DEF TypeOK, FsmTypeOK, ParserTypeOK
      <3>2. pages \in Seq(Page) /\ pages[parser.page].kind \in PageKind
        BY <3>1, ChunkFields
      <3>3. QED
        BY <3>1, <3>2
    <2>5. dict_seen <=> DictTaken
      BY <2>1, <2>2 DEF SeenInv, SeenInStep
    <2>6. dict_seen' <=> dict_seen \/ pages[parser.page].kind = "DICT"
      <3>1. PageConf.kind = pages[parser.page].kind
        BY DEF PageConf
      <3>2. QED
        BY <1>1, <1>3, <2>4, <3>1
        DEF TakePageConf, ConfigureHybrid, ConfigureDict, ConfigurePlain, PageKind
    <2>7. pages[parser.page].kind = "DICT" => parser.page = 1
      BY <1>1, <2>1, <2>4, DictFirst DEF TypeOK, FsmTypeOK, ParserTypeOK
    <2>8. dict_seen' <=> DictTaken'
      BY <2>1, <2>3, <2>4, <2>5, <2>6, <2>7 DEF DictTaken
    <2>9. SeenInStep'
      BY <1>1, <2>1, <2>2, <2>3, <2>8 DEF SeenInStep
    <2>10. ParserCount'
      BY <1>1, <2>1, <2>3 DEF SeenInv, ParserCount
    <2>11. QED
      BY <2>9, <2>10 DEF SeenInv
  <1>4. CASE FinishPage
    <2>1. /\ state = "PROCESS_PAGE" /\ state' \in {"IDLE", "CONFIGURED"}
          /\ UNCHANGED <<work, chunk, dict_seen, parser>>
      BY <1>4 DEF FinishPage, in_vars
    <2>2. QED
      BY <2>1 DEF SeenInv, ParserCount, SeenInStep, DictTaken
  <1>5. CASE ParserTakeConf
    <2>1. /\ parser.state = "IDLE" /\ parser.chunk <= chunk
          /\ parser'.state = "HEADER" /\ parser'.chunk = parser.chunk + 1 /\ parser'.page = 0
          /\ parser'.remaining = work[parser'.chunk].num_values
          /\ UNCHANGED <<work, state, dict_seen, chunk>>
      BY <1>1, <1>5 DEF ParserTakeConf, ParserUnchanged, fsm_vars, ParserRegs
    <2>2. parser.chunk = chunk - 1 \/ parser.chunk = chunk
      BY <1>1, <2>1 DEF StepInv, ChunksInStep
    <2>3. ParserCount'
      BY <2>1 DEF ParserCount
    <2>4. SeenInStep'
      BY <1>1, <2>1, <2>2 DEF SeenInv, SeenInStep, DictTaken, ParserRegs
    <2>5. QED
      BY <2>3, <2>4 DEF SeenInv
  <1>6. CASE ParseHeader
    <2> DEFINE pages == work[parser.chunk].pages
    <2>1. /\ parser.state = "HEADER" /\ ~parser.conf
          /\ parser'.state = "PAYLOAD" /\ parser'.conf /\ parser'.page = parser.page + 1
          /\ parser'.chunk = parser.chunk
          /\ pages[parser'.page].kind = "DICT" => parser'.remaining = parser.remaining
          /\ UNCHANGED <<work, state, dict_seen, chunk>>
      BY <1>1, <1>6 DEF ParseHeader, ParserUnchanged, fsm_vars, ParserRegs
    <2>2. parser.page \in Nat
      BY <1>1 DEF ParserRegs
    <2>3. ParserCount'
      BY <2>1, <2>2 DEF SeenInv, ParserCount
    <2>4. SeenInStep'
      BY <1>1, <2>1, <2>2 DEF SeenInv, SeenInStep, DictTaken
    <2>5. QED
      BY <2>3, <2>4 DEF SeenInv
  <1>7. CASE EmitPayload
    <2>1. /\ parser.state # "IDLE"
          /\ parser'.conf = parser.conf /\ parser'.chunk = parser.chunk
          /\ parser'.page = parser.page /\ parser'.remaining = parser.remaining
          /\ UNCHANGED <<work, state, dict_seen, chunk>>
      BY <1>1, <1>7 DEF EmitPayload, ParserUnchanged, fsm_vars, ParserRegs
    <2>2. QED
      BY <2>1 DEF SeenInv, ParserCount, SeenInStep, DictTaken
  <1>8. CASE FlushConf
    <2>1. /\ parser.state # "IDLE"
          /\ parser'.conf = parser.conf /\ parser'.chunk = parser.chunk
          /\ parser'.page = parser.page /\ parser'.remaining = parser.remaining
          /\ UNCHANGED <<work, state, dict_seen, chunk>>
      BY <1>1, <1>8 DEF FlushConf, ParserUnchanged, fsm_vars, ParserRegs
    <2>2. QED
      BY <2>1 DEF SeenInv, ParserCount, SeenInStep, DictTaken
  <1>9. CASE UNCHANGED <<work, fsm_vars, parser>>
    BY <1>9 DEF SeenInv, ParserCount, SeenInStep, DictTaken, fsm_vars
  <1>10. CASE Decompress
    BY <1>9, <1>10 DEF Decompress
  <1>11. CASE DecTaken
    BY <1>9, <1>11, DecTakenFrame
  <1>12. CASE System /\ ~FsmSteps /\ ~ParserSteps /\ ~Decompress /\ ~DecTaken
    BY <1>9, <1>12, StreamFrame DEF stream_vars
  <1>13. CASE UNCHANGED vars
    BY <1>9, <1>13 DEF vars, in_vars
  <1>14. QED
    BY <1>2, <1>3, <1>4, <1>5, <1>6, <1>7, <1>8, <1>10, <1>11, <1>12, <1>13
    DEF Next, Done, FsmSteps, ParserSteps

-----------------------------------------------------------------------------
(* The invariant: the dictionary and its reset.                            *)

\* The reset waits to be taken, is inside the HybridPageDecoder, has left it.
ConfReset == "hybrid_conf" \in valid /\ data.hybrid_conf.last
HpdReset  == hpd.state \in {"WAIT", "PIPE", "DUMMY"} /\ hpd.last
IdsReset  == ids # <<>> /\ ids[1].last

\* A dictionary is in service that nothing has to reset yet, and that is to be reset.
InUse   == dict.state = "SERVE" /\ dict.c = chunk /\ PagesToCome
ToReset == dict.state = "SERVE" /\ ~(dict.c = chunk /\ PagesToCome)

ResetInv ==
  /\ Len(ids) <= 1
  /\ ConfReset \/ HpdReset \/ IdsReset <=> ToReset
  /\ ~(ConfReset /\ HpdReset) /\ ~(ConfReset /\ IdsReset) /\ ~(HpdReset /\ IdsReset)

\* A beat without values is a reset: the configuration says so from the start.
DummyResets ==
  /\ "hybrid_conf" \in valid /\ ~data.hybrid_conf.keep => data.hybrid_conf.last
  /\ hpd.state = "DUMMY" => hpd.last

\* What the FSM may rely on when it configures a page.
DictOwed ==
  /\ dict.state = "SERVE" => dict.c <= chunk /\ (~dict_seen => dict.c # chunk)
  /\ dict_seen /\ PagesToCome /\ "dict_type" \notin valid => InUse
  /\ "dict_type" \in valid =>
       state = "PROCESS_PAGE" /\ ~last_page /\ dict_seen /\ ~InUse

LEMMA ResetsAsDefined ==
  ASSUME TypeOK, ResetInv
  PROVE  DictionaryReset
  <1>1. ids # <<>> => Head(ids) = ids[1]
    BY OneBeat DEF ResetInv, TypeOK, HybridTypeOK
  <1>2. /\ "hybrid_conf" \in Resets <=> ConfReset
        /\ "hpd" \in Resets <=> HpdReset
        /\ "ids" \in Resets <=> IdsReset
        /\ Resets \subseteq {"hybrid_conf", "hpd", "ids"}
    BY <1>1 DEF Resets, ConfReset, HpdReset, IdsReset
  <1>3. \A r, s \in Resets : r = s
    BY <1>2 DEF ResetInv
  <1>4. Resets # {} <=> ConfReset \/ HpdReset \/ IdsReset
    BY <1>2
  <1>5. QED
    BY <1>3, <1>4 DEF DictionaryReset, ResetInv, ToReset

\* The steps that neither take a configuration, nor touch a dictionary or its reset.
ResetSteps ==
  \/ HpdTakeConf \/ HpdDummy \/ \E n \in 1..MaxBeat : HpdEmit(n)
  \/ DictLoad \/ DictLookup

LEMMA ResetFrame ==
  ASSUME TypeOK, System, ~FsmSteps, ~ResetSteps
  PROVE  /\ UNCHANGED <<fsm_vars, data, ids, dict>>
         /\ HpdReset' <=> HpdReset
         /\ \A c \in {"hybrid_conf", "dict_type"} : c \in valid' <=> c \in valid
  <1>1. UNCHANGED <<fsm_vars, data>>
    BY FsmFrame DEF FsmSteps
  <1>2. hpd \in HpdRegs
    BY DEF TypeOK, HybridTypeOK
  <1>3. CASE ParserTakeConf \/ ParseHeader \/ EmitPayload \/ FlushConf
    BY <1>1, <1>3
    DEF ParserTakeConf, ParseHeader, EmitPayload, FlushConf, ParserUnchanged, conf_vars,
        hyb_vars, HpdReset
  <1>4. CASE Decompress \/ NormalizeGate \/ Deliver
    BY <1>1, <1>4 DEF Decompress, NormalizeGate, Deliver, conf_vars, hyb_vars, HpdReset
  <1>5. CASE HpdProcessFirstDatabeat
    BY <1>1, <1>2, <1>5
    DEF HpdProcessFirstDatabeat, HpdUnchanged, conf_vars, HpdReset, HpdRegs
  <1>6. CASE HpdTakeBeat \/ HpdDrain
    <2>1. UNCHANGED <<ids, dict>> /\ hpd'.last = hpd.last
      BY <1>2, <1>6 DEF HpdTakeBeat, HpdDrain, HpdUnchanged, HpdRegs
    <2>2. hpd'.state \in {"WAIT", "PIPE", "DUMMY"} <=> hpd.state \in {"WAIT", "PIPE", "DUMMY"}
      BY <1>2, <1>6 DEF HpdTakeBeat, HpdDrain, HpdRegs
    <2>3. TakeOffered({})
      BY <1>6 DEF HpdTakeBeat, HpdDrain
    <2>4. \A c \in {"hybrid_conf", "dict_type"} : c \in valid' <=> c \in valid
      BY <2>3 DEF TakeOffered, Consume
    <2>5. QED
      BY <1>1, <2>1, <2>2, <2>4 DEF HpdReset
  <1>7. CASE RewriteLastTake
    BY <1>1, <1>7 DEF RewriteLastTake, Consume, hyb_vars, HpdReset
  <1>8. CASE HybridOut \/ PlainOut
    BY <1>1, <1>8 DEF HybridOut, PlainOut, NormalizeAccept, Consume, hyb_vars, HpdReset
  <1>9. CASE PlainIn
    BY <1>1, <1>9 DEF PlainIn, TakeOffered, Consume, hyb_vars, HpdReset
  <1>10. QED
    BY <1>3, <1>4, <1>5, <1>6, <1>7, <1>8, <1>9 DEF System, FsmSteps, ResetSteps

\* What a hybrid and a plain page leave for the HybridPageDecoder.
LEMMA HybridConf ==
  ASSUME TypeOK, TakePageConf, PageConf.kind = "HYBRID"
  PROVE  /\ valid' = valid \cup {"in_select", "decompressor_conf", "hybrid_conf",
                                 "hybrid_num_values", "out_select"}
         /\ dict_seen' = dict_seen
         /\ data'.hybrid_conf.last = PageConf.last /\ data'.hybrid_conf.keep = TRUE
  <1>1. ConfigureHybrid(PageConf)
    BY DEF TakePageConf
  <1>2. data' = [data EXCEPT !.in_select = "HYBRID", !.out_select = "HYBRID",
                   !.hybrid_num_values = PageConf.n,
                   !.hybrid_conf = [n |-> PageConf.n, keep |-> TRUE, last |-> PageConf.last]]
    BY <1>1 DEF ConfigureHybrid
  <1>3. data'.hybrid_conf = [n |-> PageConf.n, keep |-> TRUE, last |-> PageConf.last]
    BY <1>2 DEF TypeOK, FsmTypeOK, DataType
  <1>4. data'.hybrid_conf.last = PageConf.last /\ data'.hybrid_conf.keep = TRUE
    BY <1>3
  <1>5. QED
    BY <1>1, <1>4 DEF ConfigureHybrid

LEMMA PlainConf ==
  ASSUME TypeOK, TakePageConf, PageConf.kind = "PLAIN"
  PROVE  /\ dict_seen' = dict_seen /\ ("dict_type" \in valid' <=> "dict_type" \in valid)
         /\ "hybrid_conf" \in valid' <=> "hybrid_conf" \in valid \/ (PageConf.last /\ dict_seen)
         /\ PageConf.last /\ dict_seen => data'.hybrid_conf.last
         /\ ~(PageConf.last /\ dict_seen) => data'.hybrid_conf = data.hybrid_conf
  <1> DEFINE dummy == PageConf.last /\ dict_seen
  <1>1. ConfigurePlain(PageConf)
    BY DEF TakePageConf
  <1>2. data' = [data EXCEPT !.in_select = "PLAIN", !.out_select = "PLAIN",
                   !.plain_type = work[chunk].typ,
                   !.hybrid_conf = IF dummy THEN [n |-> 0, keep |-> FALSE, last |-> TRUE]
                                            ELSE @]
    BY <1>1, Zenon DEF ConfigurePlain
  <1>3. valid' = valid \cup {"in_select", "decompressor_conf", "plain_type", "out_select"}
                       \cup (IF dummy THEN {"hybrid_conf"} ELSE {})
        /\ dict_seen' = dict_seen
    BY <1>1, Zenon DEF ConfigurePlain
  <1> HIDE DEF dummy
  <1>4. data'.hybrid_conf = IF dummy THEN [n |-> 0, keep |-> FALSE, last |-> TRUE]
                                     ELSE data.hybrid_conf
    BY <1>2 DEF TypeOK, FsmTypeOK, DataType
  <1>5. dummy => data'.hybrid_conf.last
    BY <1>4
  <1>6. dummy <=> PageConf.last /\ dict_seen
    BY DEF dummy
  <1>7. ("dict_type" \in valid' <=> "dict_type" \in valid)
        /\ ("hybrid_conf" \in valid' <=> "hybrid_conf" \in valid \/ dummy)
    BY <1>3
  <1>8. QED
    BY <1>3, <1>4, <1>5, <1>6, <1>7, Zenon

LEMMA DummyStep ==
  ASSUME TypeOK, PageConfsInv, DummyResets, [Next]_vars
  PROVE  DummyResets'
  <1>1. hpd \in HpdRegs
    BY DEF TypeOK, HybridTypeOK
  <1>2. CASE TakeChunkConf
    <2>1. "hybrid_conf" \notin valid' /\ hpd' = hpd
      BY <1>2 DEF TakeChunkConf, hyb_vars, PageConfsInv, PageConfsConsumed
    <2>2. QED
      BY <2>1 DEF DummyResets
  <1>3. CASE TakePageConf
    <2>1. "hybrid_conf" \notin valid /\ hpd' = hpd
      BY <1>3 DEF TakePageConf, hyb_vars, PageConfsInv, PageConfsConsumed
    <2>2. CASE PageConf.kind = "HYBRID"
      BY <1>3, <2>1, <2>2, HybridConf DEF DummyResets
    <2>3. CASE PageConf.kind = "DICT"
      <3>1. "hybrid_conf" \notin valid'
        BY <1>3, <2>1, <2>3 DEF TakePageConf, ConfigureDict
      <3>2. QED
        BY <2>1, <3>1 DEF DummyResets
    <2>4. CASE PageConf.kind = "PLAIN"
      BY <1>3, <2>1, <2>4, PlainConf DEF DummyResets
    <2>5. PageConf.kind \in PageKind
      BY <1>3, ChunkFields DEF TakePageConf, PageConf, TypeOK, FsmTypeOK, ParserTypeOK
    <2>6. QED
      BY <2>2, <2>3, <2>4, <2>5 DEF PageKind
  <1>4. CASE FinishPage
    BY <1>4 DEF FinishPage, conf_vars, hyb_vars, DummyResets
  <1>5. CASE System /\ ~FsmSteps
    <2>1. data' = data /\ valid' \subseteq valid
      BY <1>5, FsmFrame DEF FsmSteps
    <2>2. hpd'.state = "DUMMY" => hpd'.last
      <3>1. CASE HpdTakeConf
        <4>1. /\ hpd'.last = data.hybrid_conf.last
              /\ hpd'.state = "DUMMY" => ~data.hybrid_conf.keep
          BY <1>1, <3>1 DEF HpdTakeConf, HpdRegs
        <4>2. QED
          BY <3>1, <4>1 DEF HpdTakeConf, DummyResets
      <3>2. CASE HpdProcessFirstDatabeat \/ HpdDummy \/ HpdDrain
        BY <1>1, <3>2 DEF HpdProcessFirstDatabeat, HpdDummy, HpdDrain, HpdRegs
      <3>3. CASE HpdTakeBeat
        BY <1>1, <3>3 DEF HpdTakeBeat, HpdRegs
      <3>4. CASE \E n \in 1..MaxBeat : HpdEmit(n)
        BY <1>1, <3>4 DEF HpdEmit, HpdRegs
      <3>5. CASE DictLoad \/ DictLookup
        BY <3>5 DEF DictLoad, DictLookup, DummyResets
      <3>6. CASE UNCHANGED hyb_vars
        BY <3>6 DEF hyb_vars, DummyResets
      <3>7. CASE HybridOut \/ RewriteLastTake \/ PlainIn \/ PlainOut
        BY <3>7 DEF HybridOut, RewriteLastTake, PlainIn, PlainOut, hyb_vars, DummyResets
      <3>8. CASE ParserSteps \/ Decompress \/ NormalizeGate \/ Deliver
        BY <3>6, <3>8
        DEF ParserSteps, ParserTakeConf, ParseHeader, EmitPayload, FlushConf, ParserUnchanged,
            Decompress, NormalizeGate, Deliver
      <3>9. QED
        BY <1>5, <3>1, <3>2, <3>3, <3>4, <3>5, <3>7, <3>8 DEF System, FsmSteps, ParserSteps
    <2>3. QED
      BY <2>1, <2>2 DEF DummyResets
  <1>6. CASE UNCHANGED vars
    BY <1>6 DEF vars, conf_vars, hyb_vars, DummyResets
  <1>7. QED
    BY <1>2, <1>3, <1>4, <1>5, <1>6 DEF Next, Done, FsmSteps

\* Taking a page: a hybrid page finds its chunk's dictionary in service, as does a dummy
\* beat; a dictionary page finds none of its chunk.
LEMMA ResetTakePage ==
  ASSUME TypeOK, PageConfsInv, StepInv, SeenInv, ResetInv, DictOwed, TakePageConf
  PROVE  ResetInv' /\ DictOwed'
  <1> DEFINE pages == work[parser.chunk].pages
  <1>1. /\ state = "CONFIGURED" /\ state' = "PROCESS_PAGE" /\ chunk' = chunk /\ parser.conf
        /\ last_page' = PageConf.last
        /\ UNCHANGED <<hpd, ids, dict>>
    BY DEF TakePageConf, hyb_vars
  <1>2. /\ parser.chunk \in DOMAIN work /\ parser.page \in DOMAIN pages /\ work \in Workloads
        /\ parser \in ParserRegs /\ parser.state \in {"PAYLOAD", "FLUSH_CONF"}
        /\ data \in DataType /\ dict_seen \in BOOLEAN
    BY <1>1 DEF TypeOK, FsmTypeOK, ParserTypeOK
  <1>3. parser.chunk = chunk
    BY <1>1, <1>2 DEF StepInv, ChunksInStep, Finishing, ParserFinishing, Taken
  <1>4. PageConf.kind = pages[parser.page].kind /\ (PageConf.last <=> parser.remaining = 0)
    BY DEF PageConf
  <1>5. dict_seen <=> DictTaken
    BY <1>1, <1>3 DEF SeenInv, SeenInStep
  <1>6. "dict_type" \notin valid /\ "hybrid_conf" \notin valid
    BY <1>1 DEF PageConfsInv, PageConfsConsumed
  <1>7. PagesToCome /\ (PagesToCome' <=> ~PageConf.last)
    BY <1>1 DEF PagesToCome
  <1>8. (HpdReset' <=> HpdReset) /\ (IdsReset' <=> IdsReset) /\ ~ConfReset
    BY <1>1, <1>6 DEF HpdReset, IdsReset, ConfReset
  <1>9. dict_seen => InUse
    BY <1>6, <1>7 DEF DictOwed
  <1>10. CASE PageConf.kind = "HYBRID"
    <2>1. dict_seen
      <3>1. pages[1].kind = "DICT" /\ parser.page # 1
        BY <1>2, <1>4, <1>10, DictFirst
      <3>2. parser.page \in Nat /\ parser.page > 0
        BY <1>2, ChunkFields
      <3>3. QED
        BY <1>5, <3>1, <3>2 DEF DictTaken
    <2>2. /\ "hybrid_conf" \in valid' /\ "dict_type" \notin valid' /\ dict_seen' = dict_seen
          /\ data'.hybrid_conf.last = PageConf.last
      BY <1>6, <1>10, HybridConf
    <2>3. ConfReset' <=> PageConf.last
      BY <2>2 DEF ConfReset
    <2>4. ~HpdReset /\ ~IdsReset
      BY <1>9, <2>1 DEF InUse, ToReset, ResetInv
    <2>5. ToReset' <=> PageConf.last
      BY <1>1, <1>7, <1>9, <2>1 DEF InUse, ToReset
    <2>6. InUse' <=> ~PageConf.last
      BY <1>1, <1>7, <1>9, <2>1 DEF InUse
    <2>7. ResetInv'
      BY <1>1, <1>8, <2>3, <2>4, <2>5 DEF ResetInv
    <2>8. DictOwed'
      BY <1>1, <1>7, <2>1, <2>2, <2>6 DEF DictOwed
    <2>9. QED
      BY <2>7, <2>8
  <1>11. CASE PageConf.kind = "DICT"
    <2>1. parser.page = 1 /\ pages[1].kind = "DICT" /\ work[parser.chunk].num_values # 0
      BY <1>2, <1>4, <1>11, DictFirst
    <2>2. ~dict_seen
      BY <1>1, <1>5, <2>1 DEF DictTaken
    <2>3. ~PageConf.last
      BY <1>2, <1>4, <2>1 DEF SeenInv, ParserCount
    <2>4. /\ "hybrid_conf" \notin valid' /\ "dict_type" \in valid' /\ dict_seen'
      BY <1>2, <1>6, <1>11 DEF TakePageConf, ConfigureDict
    <2>5. ~ConfReset' /\ ~InUse /\ ~InUse'
      BY <1>1, <2>2, <2>4 DEF ConfReset, InUse, DictOwed
    <2>6. ToReset' <=> ToReset
      BY <1>1, <1>7, <2>3 DEF ToReset
    <2>7. ResetInv'
      BY <1>1, <1>8, <2>5, <2>6 DEF ResetInv
    <2>8. DictOwed'
      BY <1>1, <2>3, <2>4, <2>5 DEF DictOwed
    <2>9. QED
      BY <2>7, <2>8
  <1>12. CASE PageConf.kind = "PLAIN"
    <2>1. /\ "dict_type" \notin valid' /\ dict_seen' = dict_seen
          /\ "hybrid_conf" \in valid' <=> PageConf.last /\ dict_seen
          /\ PageConf.last /\ dict_seen => data'.hybrid_conf.last
      BY <1>6, <1>12, PlainConf
    <2>2. ConfReset' <=> PageConf.last /\ dict_seen
      BY <2>1 DEF ConfReset
    <2>3. CASE dict_seen
      <3>1. ~HpdReset /\ ~IdsReset
        BY <1>9, <2>3 DEF InUse, ToReset, ResetInv
      <3>2. (ToReset' <=> PageConf.last) /\ (InUse' <=> ~PageConf.last)
        BY <1>1, <1>7, <1>9, <2>3 DEF InUse, ToReset
      <3>3. ResetInv'
        BY <1>1, <1>8, <2>2, <2>3, <3>1, <3>2 DEF ResetInv
      <3>4. DictOwed'
        BY <1>1, <1>7, <1>9, <2>1, <2>3, <3>2 DEF DictOwed, InUse
      <3>5. QED
        BY <3>3, <3>4
    <2>4. CASE ~dict_seen
      <3>1. dict.state = "SERVE" => dict.c # chunk
        BY <2>4 DEF DictOwed
      <3>2. ToReset' <=> ToReset
        BY <1>1, <3>1 DEF ToReset
      <3>3. ResetInv'
        BY <1>1, <1>8, <2>2, <2>4, <3>2 DEF ResetInv
      <3>4. DictOwed'
        BY <1>1, <2>1, <2>4 DEF DictOwed
      <3>5. QED
        BY <3>3, <3>4
    <2>5. QED
      BY <1>2, <2>3, <2>4
  <1>13. PageConf.kind \in PageKind
    BY <1>2, <1>4, ChunkFields
  <1>14. QED
    BY <1>10, <1>11, <1>12, <1>13 DEF PageKind

\* The reset goes into the HybridPageDecoder, through it and out of it.
LEMMA ResetPasses ==
  ASSUME TypeOK, PageConfsInv, ResetInv, DictOwed, DummyResets,
         HpdTakeConf \/ HpdDummy \/ \E n \in 1..MaxBeat : HpdEmit(n)
  PROVE  ResetInv' /\ DictOwed'
  <1>1. UNCHANGED <<fsm_vars, dict, data>>
    BY DEF HpdTakeConf, HpdDummy, HpdEmit, HpdUnchanged, conf_vars, Consume
  <1>2. /\ hpd \in HpdRegs /\ ids \in Seq(IdBeat)
        /\ data.hybrid_conf \in [n : Nat, keep : BOOLEAN, last : BOOLEAN]
    BY DEF TypeOK, FsmTypeOK, HybridTypeOK, DataType
  <1>3. (ToReset' <=> ToReset) /\ (InUse' <=> InUse) /\ (PagesToCome' <=> PagesToCome)
    BY <1>1 DEF ToReset, InUse, PagesToCome, fsm_vars
  <1>4. CASE HpdTakeConf
    <2>1. "hybrid_conf" \in valid /\ state = "PROCESS_PAGE"
      BY <1>4 DEF HpdTakeConf, PageConfsInv, PageConfsConsumed
    <2>2. valid' = valid \ {"hybrid_conf"}
      BY <1>4, <2>1 DEF HpdTakeConf, Consume, Watched, Confs
    <2>3. /\ hpd.state = "IDLE" /\ hpd'.state \in {"WAIT", "DUMMY"} /\ ids' = ids
          /\ hpd'.last = data.hybrid_conf.last
      BY <1>2, <1>4 DEF HpdTakeConf, HpdRegs
    <2>4. /\ ~ConfReset' /\ ~HpdReset /\ (HpdReset' <=> ConfReset) /\ (IdsReset' <=> IdsReset)
      BY <2>1, <2>2, <2>3 DEF ConfReset, HpdReset, IdsReset
    <2>5. ResetInv'
      BY <1>3, <2>3, <2>4 DEF ResetInv
    <2>6. DictOwed'
      BY <1>1, <1>3, <2>2 DEF DictOwed, fsm_vars
    <2>7. QED
      BY <2>5, <2>6
  <1>5. CASE HpdDummy \/ \E n \in 1..MaxBeat : HpdEmit(n)
    <2>1. valid' = valid /\ ids = <<>>
      BY <1>2, <1>5, OneBeat DEF HpdDummy, HpdEmit, conf_vars, ResetInv
    <2>2. PICK b : /\ ids' = <<b>>
                   /\ HpdReset <=> HpdReset' \/ b.last
                   /\ ~(HpdReset' /\ b.last)
      <3>1. CASE HpdDummy
        <4> DEFINE b == [c |-> 0, p |-> 0, at |-> 0, n |-> 0, last |-> TRUE]
        <4>1. ids' = <<b>> /\ b.last
          BY <2>1, <3>1, FirstBeat DEF HpdDummy
        <4>2. HpdReset /\ ~HpdReset'
          BY <1>2, <3>1 DEF HpdDummy, HpdReset, HpdRegs, DummyResets
        <4>3. QED
          BY <4>1, <4>2
      <3>2. ASSUME NEW n \in 1..MaxBeat, HpdEmit(n)
            PROVE  \E b : /\ ids' = <<b>>
                          /\ HpdReset <=> HpdReset' \/ b.last
                          /\ ~(HpdReset' /\ b.last)
        <4> DEFINE done == n = hpd.n
                   b == [c |-> hpd.c, p |-> hpd.p, at |-> hpd.at, n |-> n,
                          last |-> done /\ hpd.last]
        <4>1. ids' = <<b>>
          BY <2>1, <3>2, FirstBeat DEF HpdEmit
        <4>2. b.last <=> done /\ hpd.last
          OBVIOUS
        <4>3. /\ hpd.state = "PIPE" /\ hpd'.last = hpd.last
              /\ hpd'.state = (CASE ~done                  -> "PIPE"
                                [] done /\ hpd.seen_last   -> "IDLE"
                                [] done /\ ~hpd.seen_last  -> "DRAIN")
          BY <1>2, <3>2 DEF HpdEmit, HpdRegs
        <4> HIDE DEF b
        <4>4. (HpdReset <=> hpd.last) /\ (HpdReset' <=> ~done /\ hpd.last)
          BY <1>2, <4>3 DEF HpdReset, HpdRegs
        <4>5. QED
          BY <4>1, <4>2, <4>4
      <3>3. QED
        BY <1>5, <3>1, <3>2
    <2>3. Len(ids') <= 1 /\ (IdsReset' <=> b.last) /\ ~IdsReset
      BY <2>1, <2>2, FirstBeat DEF IdsReset
    <2>4. ConfReset' <=> ConfReset
      BY <1>1, <2>1 DEF ConfReset
    <2>5. ResetInv'
      BY <1>3, <2>2, <2>3, <2>4 DEF ResetInv
    <2>6. DictOwed'
      BY <1>1, <1>3, <2>1 DEF DictOwed, fsm_vars
    <2>7. QED
      BY <2>5, <2>6
  <1>6. QED
    BY <1>4, <1>5

\* The reset meets the dictionary it is for.
LEMMA ResetLookup ==
  ASSUME TypeOK, ResetInv, DictOwed, DictLookup
  PROVE  ResetInv' /\ DictOwed'
  <1>1. UNCHANGED <<fsm_vars, valid, data, hpd>> /\ dict.state = "SERVE" /\ ids # <<>>
    BY DEF DictLookup, conf_vars
  <1>2. ids \in Seq(IdBeat)
    BY DEF TypeOK, HybridTypeOK
  <1>3. Head(ids) = ids[1] /\ Tail(ids) = <<>>
    BY <1>1, <1>2, OneBeat DEF ResetInv
  <1>4. (ConfReset' <=> ConfReset) /\ (HpdReset' <=> HpdReset)
    BY <1>1 DEF ConfReset, HpdReset
  <1> DEFINE all == ids[1].n <= PerBeat(dict.typ)
             rest == [c |-> ids[1].c, p |-> ids[1].p, at |-> ids[1].at + PerBeat(dict.typ),
                      n |-> ids[1].n - PerBeat(dict.typ), last |-> ids[1].last]
  <1>5. /\ ids' = (IF all THEN <<>> ELSE <<rest>> \o <<>>)
        /\ dict' = (IF all /\ ids[1].last THEN [state |-> "LOAD", c |-> 0, typ |-> NoType]
                                          ELSE dict)
    BY <1>3, Zenon DEF DictLookup
  <1>6. CASE all /\ ids[1].last
    <2>1. ids' = <<>> /\ dict'.state = "LOAD"
      BY <1>5, <1>6
    <2>2. IdsReset /\ ~IdsReset' /\ ~ToReset' /\ ~InUse'
      BY <1>1, <1>6, <2>1 DEF IdsReset, ToReset, InUse
    <2>3. ~InUse
      BY <2>2 DEF ResetInv, ToReset, InUse
    <2>4. Len(ids') <= 1
      BY <2>1
    <2>5. ResetInv'
      BY <1>4, <2>2, <2>4 DEF ResetInv
    <2>6. DictOwed'
      BY <1>1, <2>1, <2>2, <2>3 DEF DictOwed, PagesToCome, fsm_vars
    <2>7. QED
      BY <2>5, <2>6
  <1>7. CASE ~(all /\ ids[1].last)
    <2>1. dict' = dict
      BY <1>5, <1>7
    <2>2. (ToReset' <=> ToReset) /\ (InUse' <=> InUse) /\ (PagesToCome' <=> PagesToCome)
      BY <1>1, <2>1 DEF ToReset, InUse, PagesToCome, fsm_vars
    <2>3. (IdsReset' <=> IdsReset) /\ Len(ids') <= 1
      <3>1. CASE all
        <4>1. ids' = <<>> /\ ~ids[1].last
          BY <1>5, <1>7, <3>1
        <4>2. QED
          BY <1>1, <4>1 DEF IdsReset
      <3>2. CASE ~all
        <4>1. rest.last = ids[1].last
          OBVIOUS
        <4> HIDE DEF rest
        <4>2. ids' = <<rest>>
          BY <1>5, <3>2
        <4>3. QED
          BY <1>1, <4>1, <4>2, FirstBeat DEF IdsReset
      <3>3. QED
        BY <3>1, <3>2
    <2>4. ResetInv'
      BY <1>4, <2>2, <2>3 DEF ResetInv
    <2>5. DictOwed'
      BY <1>1, <2>1, <2>2 DEF DictOwed, fsm_vars
    <2>6. QED
      BY <2>4, <2>5
  <1>8. QED
    BY <1>6, <1>7

\* A dictionary in service after a load is that of the FSM's chunk, which has pages to come.
LEMMA ResetLoad ==
  ASSUME TypeOK, PageConfsInv, StepInv, ResetInv, DictOwed, DictLoad
  PROVE  ResetInv' /\ DictOwed'
  <1>1. UNCHANGED <<fsm_vars, data, hpd, ids>>
    BY DEF DictLoad, TakeOffered, Consume
  <1>2. dict.state = "LOAD" /\ "dict_type" \in valid /\ dec # <<>> /\ "in_select" \in valid
    BY DEF DictLoad, Offered
  <1>3. state = "PROCESS_PAGE" /\ ~last_page /\ dict_seen /\ PagesToCome
    BY <1>2 DEF DictOwed, PagesToCome
  <1>4. Head(dec).c = chunk
    <2>1. Head(dec) = dec[1]
      BY <1>2, OneBeat DEF StepInv, PagesInStep, TypeOK, ParserTypeOK
    <2>2. Current(dec[1])
      BY <1>2 DEF StepInv, PagesInStep, Gone, LastBehind, LastBefore, LastToCome
    <2>3. QED
      BY <2>1, <2>2 DEF Current
  <1>5. dict'.c = chunk /\ dict'.state = (IF Head(dec).last THEN "SERVE" ELSE "LOAD")
    BY <1>4 DEF DictLoad
  <1>6. /\ "hybrid_conf" \in valid' <=> "hybrid_conf" \in valid
        /\ "dict_type" \in valid' <=> ~Head(dec).last
    <2>1. TakeOffered({"dict_type"})
      BY DEF DictLoad
    <2>2. CASE Head(dec).last
      <3>1. Consume({"in_select", "decompressor_conf", "dict_type"})
        <4>1. {"in_select", "decompressor_conf"} \cup {"dict_type"}
                = {"in_select", "decompressor_conf", "dict_type"}
          OBVIOUS
        <4>2. QED
          BY <2>1, <2>2, <4>1, Zenon DEF TakeOffered
      <3>2. QED
        BY <1>3, <2>2, <3>1 DEF Consume, Watched, Confs
    <2>3. CASE ~Head(dec).last
      BY <1>2, <2>1, <2>3 DEF TakeOffered, Consume
    <2>4. QED
      BY <2>2, <2>3
  <1>7. PagesToCome' /\ UNCHANGED <<chunk, dict_seen, state, last_page>>
    BY <1>1, <1>3 DEF PagesToCome, fsm_vars
  <1>8. ~ToReset /\ ~ToReset' /\ (InUse' <=> Head(dec).last)
    BY <1>2, <1>5, <1>7 DEF ToReset, InUse
  <1>9. (ConfReset' <=> ConfReset) /\ (HpdReset' <=> HpdReset) /\ (IdsReset' <=> IdsReset)
    BY <1>1, <1>6 DEF ConfReset, HpdReset, IdsReset
  <1>10. ResetInv'
    BY <1>1, <1>8, <1>9 DEF ResetInv
  <1>11. DictOwed'
    <2>1. chunk \in Nat
      BY WorkloadsAssumption DEF TypeOK, FsmTypeOK
    <2>2. QED
      BY <1>3, <1>5, <1>6, <1>7, <1>8, <2>1 DEF DictOwed
  <1>12. QED
    BY <1>10, <1>11

LEMMA ResetStep ==
  ASSUME TypeOK, PageConfsInv, StepInv, SeenInv, ResetInv, DictOwed, DummyResets, [Next]_vars
  PROVE  ResetInv' /\ DictOwed'
  <1>1. CASE TakeChunkConf
    <2>1. /\ state = "IDLE" /\ state' = "CONFIGURED" /\ chunk' = chunk + 1 /\ ~dict_seen'
          /\ UNCHANGED <<hpd, ids, dict>>
      BY <1>1 DEF TakeChunkConf, hyb_vars
    <2>2. \A c \in {"hybrid_conf", "dict_type"} : c \notin valid /\ c \notin valid'
      BY <1>1, <2>1 DEF TakeChunkConf, PageConfsInv, PageConfsConsumed
    <2>3. chunk \in Nat /\ dict.c \in Nat
      BY WorkloadsAssumption DEF TypeOK, FsmTypeOK, HybridTypeOK
    <2>4. dict.state = "SERVE" => dict.c <= chunk' /\ dict.c # chunk'
      BY <2>1, <2>3 DEF DictOwed
    <2>5. ToReset' <=> ToReset
      BY <2>1, <2>4 DEF ToReset, PagesToCome
    <2>6. ResetInv'
      BY <2>1, <2>2, <2>5 DEF ResetInv, ConfReset, HpdReset, IdsReset
    <2>7. DictOwed'
      BY <2>1, <2>2, <2>4 DEF DictOwed
    <2>8. QED
      BY <2>6, <2>7
  <1>2. CASE TakePageConf
    BY <1>2, ResetTakePage
  <1>3. CASE FinishPage
    <2>1. /\ state = "PROCESS_PAGE" /\ state' = (IF last_page THEN "IDLE" ELSE "CONFIGURED")
          /\ UNCHANGED <<last_page, dict_seen, chunk, valid, data, hpd, ids, dict>>
          /\ "dict_type" \notin valid
      BY <1>3 DEF FinishPage, conf_vars, hyb_vars, Awaited, Confs
    <2>2. PagesToCome' <=> PagesToCome
      BY <2>1 DEF PagesToCome, TypeOK, FsmTypeOK
    <2>3. (ToReset' <=> ToReset) /\ (InUse' <=> InUse)
      BY <2>1, <2>2 DEF ToReset, InUse
    <2>4. ResetInv'
      BY <2>1, <2>3 DEF ResetInv, ConfReset, HpdReset, IdsReset
    <2>5. DictOwed'
      BY <2>1, <2>2, <2>3 DEF DictOwed
    <2>6. QED
      BY <2>4, <2>5
  <1>4. CASE HpdTakeConf \/ HpdDummy \/ \E n \in 1..MaxBeat : HpdEmit(n)
    BY <1>4, ResetPasses
  <1>5. CASE DictLookup
    BY <1>5, ResetLookup
  <1>6. CASE DictLoad
    BY <1>6, ResetLoad
  <1>7. ASSUME /\ UNCHANGED <<fsm_vars, data, ids, dict>>
               /\ HpdReset' <=> HpdReset
               /\ \A c \in {"hybrid_conf", "dict_type"} : c \in valid' <=> c \in valid
        PROVE  ResetInv' /\ DictOwed'
    BY <1>7 DEF ResetInv, DictOwed, ConfReset, IdsReset, ToReset, InUse, PagesToCome, fsm_vars
  <1>8. CASE System /\ ~FsmSteps /\ ~ResetSteps
    BY <1>7, <1>8, ResetFrame
  <1>9. CASE UNCHANGED vars
    BY <1>7, <1>9 DEF vars, conf_vars, hyb_vars, HpdReset
  <1>10. QED
    BY <1>1, <1>2, <1>3, <1>4, <1>5, <1>6, <1>8, <1>9
    DEF Next, Done, FsmSteps, ResetSteps

\* Every dictionary gets its reset, once, at the end of its own chunk, for every workload
\* and however far the stages are apart.
THEOREM AlwaysReset == Spec => []DictionaryReset
  <1>1. ASSUME Init PROVE SeenInv /\ ResetInv /\ DictOwed /\ DummyResets
    <2>1. SeenInv
      BY <1>1 DEF Init, SeenInv, ParserCount, SeenInStep
    <2>2. Len(ids) = 0
      BY <1>1 DEF Init
    <2>3. ResetInv
      BY <1>1, <2>2 DEF Init, ResetInv, ConfReset, HpdReset, IdsReset, ToReset
    <2>4. DictOwed
      BY <1>1 DEF Init, DictOwed
    <2>5. DummyResets
      BY <1>1 DEF Init, DummyResets
    <2>6. QED
      BY <2>1, <2>3, <2>4, <2>5
  <1>2. TypeOK /\ PageConfsInv /\ StepInv /\ SeenInv /\ ResetInv /\ DictOwed /\ DummyResets
          /\ [Next]_vars => (SeenInv /\ ResetInv /\ DictOwed /\ DummyResets)'
    BY SeenStep, ResetStep, DummyStep
  <1>3. TypeOK /\ ResetInv => DictionaryReset
    BY ResetsAsDefined
  <1>4. QED
    BY <1>1, <1>2, <1>3, StepInductive, PTL DEF Spec
=============================================================================
