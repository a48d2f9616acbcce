----------------------- MODULE ColumnChunkStreamProofs -----------------------
(***************************************************************************)
(* The column-chunk decoder delivers its chunks: for every workload that   *)
(* Parquet allows and the skid buffer can take, what the sink receives is  *)
(* one transfer for each chunk, of its type, with its values in order.     *)
(***************************************************************************)
EXTENDS ColumnChunkDecoderProofs

-----------------------------------------------------------------------------
(* The invariant: where the FSM and the parser are in a chunk.             *)

Upto(k, p) == IF p = 0 THEN 0 ELSE work[k].pages[p].upto

\* What the parser counts is what the pages it has not parsed hold; of a chunk that the
\* FSM has not come to it has parsed one page at most.
ParserCounts ==
  parser.state # "IDLE" =>
    /\ parser.page \in 0..Len(work[parser.chunk].pages)
    /\ parser.remaining = work[parser.chunk].num_values - Upto(parser.chunk, parser.page)
    /\ parser.chunk > chunk => parser.page = (IF parser.conf THEN 1 ELSE 0)
    /\ parser.state = "HEADER" => parser.remaining # 0
    /\ parser.state = "PAYLOAD" => parser.sent < work[parser.chunk].pages[parser.page].beats

\* The page that the FSM took last.
FsmPage ==
  IF Finishing THEN Len(work[chunk].pages)
  ELSE IF parser.chunk = chunk THEN (IF parser.conf THEN parser.page - 1 ELSE parser.page)
  ELSE 0

ThisPage == work[chunk].pages[FsmPage]
ThisType == work[chunk].typ

FsmCounts ==
  /\ state = "PROCESS_PAGE" => FsmPage > 0
  /\ dict_seen <=> chunk > 0 /\ FsmPage > 0 /\ work[chunk].pages[1].kind = "DICT"

\* What the FSM drives is about that page, and num_values about its chunk.
DrivenForPage ==
  /\ "num_values" \in valid => chunk > 0 /\ data.num_values = work[chunk].num_values
  /\ "in_select" \in valid => data.in_select = ThisPage.kind
  /\ "out_select" \in valid => data.out_select = ThisPage.kind /\ ThisPage.kind # "DICT"
  /\ "hybrid_num_values" \in valid => data.hybrid_num_values = ThisPage.n
  /\ "plain_type" \in valid => data.plain_type = ThisType
  /\ "dict_type" \in valid => data.dict_type = ThisType /\ dict_seen /\ ~last_page
  /\ "hybrid_conf" \in valid =>
       IF data.hybrid_conf.keep
       THEN data.hybrid_conf.n = ThisPage.n /\ (data.hybrid_conf.last <=> last_page)
       ELSE data.hybrid_conf.n = 0 /\ data.hybrid_conf.last /\ last_page

CountInv == ParserCounts /\ FsmCounts /\ DrivenForPage

-----------------------------------------------------------------------------
(* The invariant: the beats of a page before the demultiplexer, and in the *)
(* plain path behind it.                                                   *)

\* A beat of the page the FSM took last.
Mine(b) == b.c = chunk /\ b.p = FsmPage

\* A beat of a plain page holds values that follow each other, the last one the page's.
Filled(b) ==
  /\ b.c \in DOMAIN work /\ b.p \in DOMAIN work[b.c].pages
  /\ work[b.c].pages[b.p].kind = "PLAIN" =>
       /\ b.at >= 0 /\ b.n > 0 /\ b.n <= PerBeat(work[b.c].typ)
       /\ b.at + b.n <= work[b.c].pages[b.p].n
       /\ b.last <=> b.at + b.n = work[b.c].pages[b.p].n

SourceInv ==
  /\ dec # <<>> => Mine(dec[1]) /\ Filled(dec[1])
  /\ payload # <<>> => Filled(payload[1])
  /\ payload # <<>> /\ "in_select" \in valid /\ ~(dec # <<>> /\ dec[1].last) => Mine(payload[1])
  /\ parser.conf =>
       IF payload # <<>> /\ Ahead(payload[1])
       THEN work[parser.chunk].pages[parser.page].kind = "PLAIN" => payload[1].at = 0
       ELSE parser.sent = 0
  /\ payload # <<>> /\ ~payload[1].last /\ work[payload[1].c].pages[payload[1].p].kind = "PLAIN" =>
       payload[1].at + payload[1].n = parser.sent * PerBeat(work[payload[1].c].typ)

\* Values of the plain page before the beat the parser makes next, before the first
\* beat behind the parser, and before the first behind the Decompressor.
AtParser  == parser.sent * PerBeat(ThisType)
AtPayload == IF payload # <<>> THEN payload[1].at ELSE AtParser
AtDec     == IF dec # <<>> THEN dec[1].at ELSE AtPayload

\* Beats that follow each other from one place of a page to another.
Consecutive(q, from, to) ==
  /\ q = <<>> => from = to
  /\ q # <<>> => q[1].at = from /\ q[Len(q)].at + q[Len(q)].n = to
  /\ \A i \in 1..(Len(q) - 1) : q[i + 1].at = q[i].at + q[i].n

PlainOn  == "out_select" \in valid /\ data.out_select = "PLAIN"
PlainEnd == IF "in_select" \in valid THEN AtDec ELSE ThisPage.n
\* Values of the plain page that have left the plain path.
Given    == IF plain # <<>> THEN plain[1].at ELSE PlainEnd

PlainInv ==
  /\ "in_select" \in valid /\ data.in_select = "PLAIN" =>
       /\ PlainOn
       /\ dec # <<>> /\ ~dec[1].last => dec[1].at + dec[1].n = AtPayload
  /\ IF PlainOn THEN Consecutive(plain, Given, PlainEnd) ELSE plain = <<>>
  /\ \A i \in DOMAIN plain : Mine(plain[i]) /\ Filled(plain[i])

-----------------------------------------------------------------------------
(* The invariant: the values of a page in the hybrid path.                 *)

HybridOn == "out_select" \in valid /\ data.out_select = "HYBRID"
\* Values of the page that have not left the hybrid path: where they are counted, and
\* where they are.
HybridLeft ==
  IF HybridOn THEN (IF "hybrid_num_values" \in valid THEN data.hybrid_num_values ELSE rw) ELSE 0
ConfLeft   == IF "hybrid_conf" \in valid THEN data.hybrid_conf.n ELSE 0
IdsLeft    == IF ids # <<>> THEN ids[1].n ELSE 0
LookedLeft == IF looked # <<>> THEN looked[1].n ELSE 0

HpdWell ==
  /\ hpd.state \in {"WAIT", "PIPE"} <=> hpd.n > 0
  /\ hpd.n > 0 => hpd.at = ThisPage.n - hpd.n /\ (hpd.last <=> last_page)
  /\ hpd.state = "PIPE" /\ hpd.taken > 0 => Mine(hpd)
  /\ hpd.state = "DUMMY" => ids = <<>>
  /\ "hybrid_conf" \in valid => hpd.n = 0 /\ hpd.state # "DUMMY" /\ ids = <<>> /\ looked = <<>>

IdsWell ==
  /\ Len(ids) <= 1
  /\ ids # <<>> =>
       IF ids[1].n = 0 THEN ids[1].last /\ hpd.n = 0
       ELSE /\ Mine(ids[1]) /\ ids[1].at = ThisPage.n - hpd.n - ids[1].n
            /\ ids[1].last <=> last_page /\ hpd.n = 0

LookedWell ==
  /\ Len(looked) <= 1
  /\ looked # <<>> =>
       /\ Mine(looked[1]) /\ looked[1].at = ThisPage.n - hpd.n - IdsLeft - looked[1].n
       /\ looked[1].n > 0 /\ looked[1].n <= PerBeat(ThisType)
       /\ looked[1].typ = ThisType /\ looked[1].dict = chunk

HybridInv ==
  /\ HybridLeft = ConfLeft + hpd.n + IdsLeft + LookedLeft
  /\ HpdWell /\ IdsWell /\ LookedWell

\* The `last` that unloads the dictionary is under way.
Unloading ==
  \/ "hybrid_conf" \in valid /\ data.hybrid_conf.last
  \/ hpd.n > 0 /\ hpd.last
  \/ hpd.state = "DUMMY"
  \/ ids # <<>> /\ ids[1].last
Serving == dict.state = "SERVE" /\ ~Unloading
Loaded  == dict.state = "SERVE" /\ dict.c = chunk /\ dict.typ = ThisType

DictInv ==
  /\ dict.state = "LOAD" => ~Unloading
  /\ Serving <=> dict_seen /\ ~Finishing /\ "dict_type" \notin valid
  /\ \/ Serving
     \/ "hybrid_conf" \in valid /\ data.hybrid_conf.keep
     \/ hpd.n > 0
     \/ IdsLeft > 0
     => Loaded

-----------------------------------------------------------------------------
(* The invariant: the values from the multiplexer to the sink.             *)

\* Values of the chunk that have entered TypedNormalizeUntil.
PageLeft == IF PlainOn THEN ThisPage.n - Given ELSE HybridLeft
Entered == IF chunk = 0 THEN 0 ELSE Upto(chunk, FsmPage) - PageLeft

\* A place in the values of all chunks: the chunk, and its values before.
Place(k, g) == IF g = work[k].num_values THEN [c |-> k + 1, g |-> 0] ELSE [c |-> k, g |-> g]
Before(b) == work[b.c].pages[b.p].upto - work[b.c].pages[b.p].n + b.at
PlaceOf(b) == [c |-> b.c, g |-> Before(b)]
PlaceAfter(b) == Place(b.c, Before(b) + b.n)

\* Beats that follow each other from one place to another.
Chain(q, from, to) ==
  /\ q = <<>> => from = to
  /\ q # <<>> => PlaceOf(q[1]) = from /\ PlaceAfter(q[Len(q)]) = to
  /\ \A i \in 1..(Len(q) - 1) : PlaceOf(q[i + 1]) = PlaceAfter(q[i])

\* Values of one data page, with the type and dictionary of their chunk.
Good(b) ==
  /\ b.c \in DOMAIN work /\ b.p \in DOMAIN work[b.c].pages
  /\ work[b.c].pages[b.p].kind # "DICT"
  /\ b.at >= 0 /\ b.n > 0 /\ b.n <= PerBeat(work[b.c].typ)
  /\ b.at + b.n <= work[b.c].pages[b.p].n
  /\ b.typ = work[b.c].typ
  /\ b.dict = (IF work[b.c].pages[b.p].kind = "HYBRID" THEN b.c ELSE 0)

EndsPage(b)  == b.at + b.n = work[b.c].pages[b.p].n
EndsChunk(b) == Before(b) + b.n = work[b.c].num_values

EntryPlace == IF chunk = 0 THEN [c |-> 1, g |-> 0] ELSE Place(chunk, Entered)
GatePlace  == IF remaining = 0 THEN [c |-> Sized + 1, g |-> 0]
              ELSE [c |-> Sized, g |-> work[Sized].num_values - remaining]
OutPlace   == IF Closed < Len(out) THEN [c |-> Len(out), g |-> Len(out[Len(out)].vals)]
              ELSE [c |-> Len(out) + 1, g |-> 0]

SkidInv ==
  /\ Len(skid) <= SkidDepth
  /\ \A i \in DOMAIN skid : Good(skid[i]) /\ skid[i].c <= chunk
                              /\ (skid[i].last <=> EndsPage(skid[i]))
  /\ Chain(skid, GatePlace, EntryPlace)
  \* what of the FSM's chunk is in the buffer came behind what is of another
  /\ \A i \in DOMAIN skid :
       skid[i].c < chunk => Entered <= (Len(skid) - i) * PerBeat(ThisType)

GateInv ==
  /\ remaining # 0 => Sized > 0 /\ remaining <= work[Sized].num_values
  /\ in_typ = IF remaining = 0 THEN NoType ELSE work[Sized].typ
  /\ TakesSize => Len(skid) < SkidDepth /\ Entered < work[chunk].num_values

PipeInv ==
  /\ \A i \in DOMAIN pipe : Good(pipe[i]) /\ (pipe[i].last <=> EndsChunk(pipe[i]))
  /\ Chain(pipe, OutPlace, GatePlace)
  /\ Closed <= Sized
  /\ typ_fifo = [j \in 1..(Sized - Closed) |-> work[Closed + j].typ]
  /\ \A k \in DOMAIN out : k < Len(out) => out[k].closed
  /\ Closed < Len(out) => out[Len(out)].typ = work[Len(out)].typ

StreamInv == SkidInv /\ GateInv /\ PipeInv

-----------------------------------------------------------------------------
(* What Parquet says of a chunk.                                           *)

LEMMA WorkFields ==
  ASSUME TypeOK, NEW k \in DOMAIN work
  PROVE  /\ work[k].typ \in Types /\ work[k].pages \in Seq(Page)
         /\ work[k].num_values \in Nat \ {0}
         /\ Len(work[k].pages) \in Nat
         /\ k \in Nat \ {0} /\ k <= Len(work) /\ Len(work) \in Nat
         /\ WellFormed(work[k])
  <1>1. work \in Workloads
    BY DEF TypeOK, FsmTypeOK
  <1>2. work \in Seq(Chunk)
    BY <1>1, WorkloadsAssumption
  <1>3. work[k] \in Chunk
    BY <1>2
  <1>4. WellFormed(work[k])
    BY <1>1, ChunksAssumption
  <1>5. QED
    BY <1>2, <1>3, <1>4 DEF Chunk

LEMMA PageFields ==
  ASSUME TypeOK, NEW k \in DOMAIN work, NEW p \in DOMAIN work[k].pages
  PROVE  /\ work[k].pages[p] \in Page
         /\ work[k].pages[p].kind \in PageKind /\ work[k].pages[p].n \in Nat \ {0}
         /\ work[k].pages[p].beats \in Nat \ {0} /\ work[k].pages[p].upto \in Nat
         /\ p \in Nat \ {0} /\ p <= Len(work[k].pages) /\ Len(work[k].pages) \in Nat
  <1>1. work[k].pages \in Seq(Page)
    BY WorkFields
  <1>2. work[k].pages[p] \in Page
    BY <1>1
  <1>3. QED
    BY <1>1, <1>2 DEF Page

\* Values up to a page, and to the chunk's end.
LEMMA PageCounts ==
  ASSUME TypeOK, NEW k \in DOMAIN work, NEW p \in DOMAIN work[k].pages
  PROVE  /\ Upto(k, p - 1) \in Nat /\ Upto(k, p) \in Nat
         /\ Upto(k, p) = Upto(k, p - 1)
              + (IF work[k].pages[p].kind = "DICT" THEN 0 ELSE work[k].pages[p].n)
         /\ Upto(k, p) = work[k].pages[p].upto
         /\ Upto(k, p) <= work[k].num_values
         /\ Upto(k, p) = work[k].num_values <=> p = Len(work[k].pages)
         /\ work[k].pages[p].kind = "DICT" => p = 1 /\ p < Len(work[k].pages)
         /\ work[k].pages[p].kind = "HYBRID" => p # 1 /\ work[k].pages[1].kind = "DICT"
  <1> DEFINE pages == work[k].pages
             last  == Len(pages)
  <1>1. /\ WellFormed(work[k]) /\ pages \in Seq(Page) /\ last \in Nat
        /\ work[k].num_values \in Nat \ {0}
    BY WorkFields
  <1>2. /\ p \in Nat \ {0} /\ p <= last /\ pages[p].upto \in Nat /\ pages[p].n \in Nat \ {0}
        /\ pages[p].kind \in PageKind
    BY PageFields
  <1>3. last \in DOMAIN pages
    BY <1>1, <1>2
  <1>4. pages[last].upto = work[k].num_values
    BY <1>1 DEF WellFormed
  <1>5. p < last => pages[p].upto < pages[last].upto
    BY <1>1, <1>3 DEF WellFormed
  <1>6. pages[p].upto = (IF p = 1 THEN 0 ELSE pages[p - 1].upto)
                          + (IF pages[p].kind = "DICT" THEN 0 ELSE pages[p].n)
    BY <1>1 DEF WellFormed
  <1>7. p # 1 => pages[p - 1].upto \in Nat
    <2>1. p # 1 => p - 1 \in DOMAIN pages
      BY <1>1, <1>2
    <2>2. QED
      BY <2>1, PageFields
  <1>8. pages[p].kind = "DICT" => p = 1
    BY <1>1 DEF WellFormed
  <1>9. pages[p].kind = "HYBRID" => pages[1].kind = "DICT"
    BY <1>1 DEF WellFormed
  <1> HIDE DEF pages, last
  <1>10. Upto(k, p) = pages[p].upto /\ Upto(k, p - 1) = (IF p = 1 THEN 0 ELSE pages[p - 1].upto)
    BY <1>2 DEF Upto, pages
  <1>11. Upto(k, p - 1) \in Nat
    BY <1>7, <1>10
  <1>12. p <= last /\ (p = last \/ p < last)
    BY <1>1, <1>2
  <1>13. pages[p].kind = "DICT" => p < last
    BY <1>1, <1>4, <1>6, <1>8, <1>12
  <1>14. pages[p].upto <= work[k].num_values
    BY <1>1, <1>2, <1>4, <1>5, <1>12
  <1>15. pages[p].upto = work[k].num_values <=> p = last
    BY <1>1, <1>2, <1>4, <1>5, <1>12
  <1>16. pages[p].kind = "HYBRID" => p # 1
    BY <1>9
  <1>17. QED
    BY <1>2, <1>6, <1>8, <1>9, <1>10, <1>11, <1>13, <1>14, <1>15, <1>16 DEF pages, last

\* The dictionary page of a chunk is its first and not its last.
LEMMA KindPlaces ==
  ASSUME TypeOK, NEW k \in DOMAIN work, NEW p \in DOMAIN work[k].pages
  PROVE  /\ work[k].pages[p].kind = "DICT" => p = 1 /\ p < Len(work[k].pages)
         /\ work[k].pages[p].kind = "HYBRID" => p # 1 /\ work[k].pages[1].kind = "DICT"
BY PageCounts

\* A chunk has a page, and some of its values come behind any page but its last.
LEMMA UptoCounts ==
  ASSUME TypeOK, NEW k \in DOMAIN work, NEW p \in 0..Len(work[k].pages)
  PROVE  /\ Len(work[k].pages) > 0
         /\ Upto(k, p) \in Nat /\ Upto(k, p) <= work[k].num_values
         /\ Upto(k, p) = work[k].num_values <=> p = Len(work[k].pages)
  <1>1. /\ WellFormed(work[k]) /\ work[k].pages \in Seq(Page)
        /\ work[k].num_values \in Nat \ {0}
    BY WorkFields
  <1>2. work[k].pages # <<>>
    BY <1>1 DEF WellFormed
  <1>3. Len(work[k].pages) \in Nat \ {0}
    BY <1>1, <1>2
  <1>4. CASE p = 0
    BY <1>1, <1>3, <1>4 DEF Upto
  <1>5. CASE p # 0
    <2>1. p \in DOMAIN work[k].pages
      BY <1>1, <1>5
    <2>2. QED
      BY <1>3, <2>1, PageCounts
  <1>6. QED
    BY <1>4, <1>5

-----------------------------------------------------------------------------
(* How the actions move the FSM and the parser through a chunk.            *)

\* What is known of the registers that say where they are.
LEMMA Places ==
  ASSUME TypeOK, StepInv
  PROVE  /\ parser \in ParserRegs /\ parser.page \in Nat /\ parser.remaining \in Int
         /\ chunk \in Nat /\ chunk <= Len(work) /\ Len(work) \in Nat
         /\ chunk > 0 => chunk \in DOMAIN work
         /\ state # "IDLE" => chunk > 0
         /\ state \in {"IDLE", "CONFIGURED", "PROCESS_PAGE"} /\ last_page \in BOOLEAN
         /\ parser.state # "IDLE" => parser.chunk \in DOMAIN work
         /\ parser.conf => parser.state \in {"PAYLOAD", "FLUSH_CONF"}
         /\ parser.state \in {"PAYLOAD", "FLUSH_CONF"} =>
              parser.page \in DOMAIN work[parser.chunk].pages /\ parser.page > 0
         /\ ~Finishing => \/ parser.chunk = chunk /\ parser.state # "IDLE"
                          \/ parser.chunk = chunk - 1 /\ state = "CONFIGURED"
  <1>1. work \in Seq(Chunk) /\ Len(work) \in Nat
    BY WorkloadsAssumption DEF TypeOK, FsmTypeOK
  <1>2. parser.state \in {"PAYLOAD", "FLUSH_CONF"} =>
          parser.page \in DOMAIN work[parser.chunk].pages /\ parser.page > 0
    <2>1. SUFFICES ASSUME parser.state \in {"PAYLOAD", "FLUSH_CONF"}
                   PROVE  parser.page \in DOMAIN work[parser.chunk].pages /\ parser.page > 0
      OBVIOUS
    <2>2. parser.chunk \in DOMAIN work /\ parser.page \in DOMAIN work[parser.chunk].pages
      BY <2>1 DEF TypeOK, ParserTypeOK
    <2>3. parser.page \in Nat \ {0}
      BY <2>2, PageFields
    <2>4. QED
      BY <2>2, <2>3
  <1>3. ~Finishing => \/ parser.chunk = chunk /\ parser.state # "IDLE"
                      \/ parser.chunk = chunk - 1 /\ state = "CONFIGURED"
    BY DEF StepInv, ChunksInStep, ParserFinishing
  <1>4. chunk \in 0..Len(work) /\ (state # "IDLE" => chunk \in DOMAIN work)
        /\ state \in {"IDLE", "CONFIGURED", "PROCESS_PAGE"} /\ last_page \in BOOLEAN
    BY DEF TypeOK, FsmTypeOK
  <1>5. parser \in ParserRegs /\ (parser.state # "IDLE" => parser.chunk \in DOMAIN work)
        /\ (parser.conf => parser.state \in {"PAYLOAD", "FLUSH_CONF"})
    BY DEF TypeOK, ParserTypeOK
  <1>6. chunk \in Nat /\ chunk <= Len(work) /\ (chunk > 0 => chunk \in DOMAIN work)
        /\ (state # "IDLE" => chunk > 0)
    BY <1>1, <1>4
  <1>7. parser.page \in Nat /\ parser.remaining \in Int
    BY <1>5 DEF ParserRegs
  <1>8. QED
    BY <1>1, <1>2, <1>3, <1>4, <1>5, <1>6, <1>7

\* The FSM's page is one of its chunk's, and the last one when it finishes the chunk.
LEMMA FsmPageRange ==
  ASSUME TypeOK, StepInv, ParserCounts, chunk > 0
  PROVE  /\ FsmPage \in 0..Len(work[chunk].pages)
         /\ Finishing <=> FsmPage = Len(work[chunk].pages)
         /\ FsmPage # 0 => FsmPage \in DOMAIN work[chunk].pages
  <1> DEFINE last == Len(work[chunk].pages)
  <1>1. chunk \in DOMAIN work
    BY Places
  <1>2. last \in Nat /\ last > 0 /\ work[chunk].pages \in Seq(Page)
    <2>1. last \in Nat /\ work[chunk].pages \in Seq(Page)
      BY <1>1, WorkFields
    <2>2. 0 \in 0..last
      BY <2>1
    <2>3. QED
      BY <1>1, <2>1, <2>2, UptoCounts
  <1>3. CASE Finishing
    BY <1>2, <1>3 DEF FsmPage
  <1>4. CASE ~Finishing /\ parser.chunk # chunk
    BY <1>2, <1>4 DEF FsmPage
  <1>5. CASE ~Finishing /\ parser.chunk = chunk
    <2>1. parser.state # "IDLE" /\ ~ParserFinishing /\ parser \in ParserRegs
      BY <1>1, <1>5, Places DEF StepInv, ChunksInStep
    <2>2. parser.page \in 0..last
          /\ parser.remaining = work[chunk].num_values - Upto(chunk, parser.page)
      BY <1>5, <2>1 DEF ParserCounts
    <2>3. /\ Upto(chunk, parser.page) \in Nat /\ work[chunk].num_values \in Nat
          /\ Upto(chunk, parser.page) = work[chunk].num_values <=> parser.page = last
      BY <1>1, <2>2, UptoCounts, WorkFields
    <2>4. CASE parser.conf
      <3>1. parser.page > 0
        BY <2>4, Places
      <3>2. FsmPage = parser.page - 1
        BY <1>5, <2>4 DEF FsmPage
      <3>3. QED
        BY <1>2, <1>5, <2>2, <3>1, <3>2
    <2>5. CASE ~parser.conf
      <3>1. parser.remaining # 0
        BY <2>1, <2>5 DEF ParserFinishing, Taken, ParserCounts, ParserRegs
      <3>2. FsmPage = parser.page
        BY <1>5, <2>5 DEF FsmPage
      <3>3. QED
        BY <1>2, <1>5, <2>2, <2>3, <3>1, <3>2
    <2>6. QED
      BY <2>4, <2>5
  <1>6. QED
    BY <1>3, <1>4, <1>5

LEMMA FsmPageFrame ==
  ASSUME UNCHANGED <<work, state, last_page, chunk, parser>>
  PROVE  FsmPage' = FsmPage /\ ThisPage' = ThisPage /\ ThisType' = ThisType
         /\ (Finishing' <=> Finishing)
BY DEF FsmPage, ThisPage, ThisType, Finishing

\* A chunk begins before its first page.
LEMMA FsmPageAtChunk ==
  ASSUME TypeOK, StepInv, ParserCounts, TakeChunkConf
  PROVE  /\ FsmPage' = 0 /\ ~Finishing' /\ Finishing
         /\ chunk' = chunk + 1 /\ chunk' \in DOMAIN work
         /\ chunk > 0 => FsmPage = Len(work[chunk].pages)
  <1>1. /\ state = "IDLE" /\ state' = "CONFIGURED" /\ chunk' = chunk + 1
        /\ chunk < Len(work) /\ chunk <= parser.chunk /\ UNCHANGED <<work, last_page, parser>>
    BY DEF TakeChunkConf, in_vars
  <1>2. Finishing /\ ~Finishing'
    BY <1>1 DEF Finishing
  <1>3. /\ chunk \in Nat /\ parser \in ParserRegs /\ Len(work) \in Nat
        /\ work \in Seq(Chunk)
    BY Places, WorkloadsAssumption DEF TypeOK, FsmTypeOK
  <1>4. CASE parser.chunk = chunk
    <2>1. FsmPage' = 0
      BY <1>1, <1>2, <1>3, <1>4 DEF FsmPage
    <2>2. QED
      BY <1>1, <1>2, <1>3, <2>1 DEF FsmPage
  <1>5. CASE parser.chunk = chunk + 1 /\ parser.state # "IDLE"
    <2>1. parser.page = (IF parser.conf THEN 1 ELSE 0)
      BY <1>3, <1>5 DEF ParserCounts
    <2>2. FsmPage' = 0
      BY <1>1, <1>2, <1>5, <2>1 DEF FsmPage
    <2>3. QED
      BY <1>1, <1>2, <1>3, <2>2 DEF FsmPage
  <1>6. QED
    BY <1>2, <1>4, <1>5 DEF StepInv, ChunksInStep

\* The FSM takes the page behind the one it took last.
LEMMA FsmPageAtPage ==
  ASSUME TypeOK, StepInv, ParserCounts, TakePageConf
  PROVE  /\ FsmPage' = parser.page /\ FsmPage = parser.page - 1
         /\ parser.chunk = chunk /\ chunk' = chunk /\ chunk \in DOMAIN work /\ chunk > 0
         /\ parser.page \in DOMAIN work[chunk].pages /\ parser.page > 0
         /\ PageConf.kind = work[chunk].pages[parser.page].kind
         /\ PageConf.n = work[chunk].pages[parser.page].n
         /\ ~Finishing /\ (Finishing' <=> PageConf.last) /\ (last_page' <=> PageConf.last)
         /\ PageConf.last \in BOOLEAN
         /\ PageConf.last <=> parser.page = Len(work[chunk].pages)
  <1>1. /\ state = "CONFIGURED" /\ state' = "PROCESS_PAGE" /\ parser.conf
        /\ parser' = [parser EXCEPT !.conf = FALSE] /\ last_page' = PageConf.last
        /\ UNCHANGED <<work, chunk>>
    BY DEF TakePageConf
  <1>2. ~Finishing /\ (Finishing' <=> PageConf.last)
    BY <1>1 DEF Finishing, PageConf
  <1>3. /\ parser \in ParserRegs /\ chunk \in Nat /\ chunk > 0 /\ chunk \in DOMAIN work
        /\ parser.state \in {"PAYLOAD", "FLUSH_CONF"}
        /\ parser.page \in DOMAIN work[parser.chunk].pages /\ parser.page > 0
    BY <1>1, Places
  <1>4. parser.chunk = chunk
    BY <1>1, <1>2, <1>3 DEF StepInv, ChunksInStep, ParserFinishing, Taken
  <1>5. /\ ~parser'.conf /\ parser'.page = parser.page /\ parser'.chunk = parser.chunk
        /\ parser'.remaining = parser.remaining
    BY <1>1, <1>3 DEF ParserRegs
  <1>6. FsmPage = parser.page - 1
    BY <1>1, <1>2, <1>4 DEF FsmPage
  <1>7. /\ parser.page \in 0..Len(work[chunk].pages)
        /\ parser.remaining = work[chunk].num_values - Upto(chunk, parser.page)
    BY <1>3, <1>4 DEF ParserCounts
  <1>8. parser.remaining = 0 <=> parser.page = Len(work[chunk].pages)
    <2>1. /\ Upto(chunk, parser.page) \in Nat /\ work[chunk].num_values \in Nat
          /\ Upto(chunk, parser.page) = work[chunk].num_values <=> parser.page = Len(work[chunk].pages)
      BY <1>3, <1>7, UptoCounts, WorkFields
    <2>2. QED
      BY <1>7, <2>1
  <1>9. /\ PageConf.last = (parser.remaining = 0)
        /\ PageConf.kind = work[chunk].pages[parser.page].kind
        /\ PageConf.n = work[chunk].pages[parser.page].n
    BY <1>4 DEF PageConf
  <1>10. FsmPage' = parser.page
    <2>1. CASE Finishing'
      BY <1>1, <1>2, <1>8, <1>9, <2>1 DEF FsmPage
    <2>2. CASE ~Finishing'
      BY <1>1, <1>4, <1>5, <2>2 DEF FsmPage
    <2>3. QED
      BY <2>1, <2>2
  <1>11. QED
    BY <1>1, <1>2, <1>3, <1>4, <1>6, <1>8, <1>9, <1>10

\* Nothing else changes the page the FSM took last.
LEMMA FsmPageStays ==
  ASSUME TypeOK, PageConfsInv, StepInv, ParserCounts, [Next]_vars, ~TakeChunkConf, ~TakePageConf
  PROVE  /\ UNCHANGED <<work, chunk, dict_seen, last_page>>
         /\ Finishing' <=> Finishing
         /\ data' = data /\ valid' \subseteq valid
         /\ state' = "PROCESS_PAGE" => state = "PROCESS_PAGE"
         /\ chunk > 0 => FsmPage' = FsmPage /\ ThisPage' = ThisPage /\ ThisType' = ThisType
  <1> DEFINE Stays == chunk > 0 => FsmPage' = FsmPage
  <1>1. /\ parser \in ParserRegs /\ chunk \in Nat
        /\ (parser.conf => parser.state \in {"PAYLOAD", "FLUSH_CONF"})
        /\ state \in {"IDLE", "CONFIGURED", "PROCESS_PAGE"} /\ last_page \in BOOLEAN
    BY Places
  <1>2. CASE FinishPage
    <2>1. UNCHANGED <<work, chunk, dict_seen, last_page, parser, valid, data>>
          /\ (Finishing' <=> Finishing) /\ state = "PROCESS_PAGE"
      BY <1>1, <1>2 DEF FinishPage, in_vars, conf_vars, Finishing
    <2>2. QED
      BY <2>1 DEF FsmPage, ThisPage, ThisType
  <1>3. CASE ParserSteps
    <2>1. UNCHANGED <<work, chunk, dict_seen, last_page, state, valid, data>>
      BY <1>3 DEF ParserSteps, ParserTakeConf, ParseHeader, EmitPayload, FlushConf,
                  ParserUnchanged, fsm_vars, conf_vars
    <2>2. Finishing' <=> Finishing
      BY <2>1 DEF Finishing
    <2>3. Stays
      <3>1. CASE ParserTakeConf
        <4>1. /\ parser.state = "IDLE" /\ parser.chunk <= chunk /\ ~parser.conf
              /\ parser' = [parser EXCEPT !.state = "HEADER", !.chunk = @ + 1, !.page = 0,
                              !.remaining = work[parser.chunk + 1].num_values]
          BY <1>1, <3>1 DEF ParserTakeConf
        <4>2. parser'.chunk = parser.chunk + 1 /\ parser'.page = 0 /\ ~parser'.conf
          BY <1>1, <4>1 DEF ParserRegs
        <4>3. ~Finishing => parser.chunk # chunk
          BY <1>1, <4>1 DEF StepInv, ChunksInStep, ParserFinishing, ParserRegs
        <4>4. QED
          BY <2>1, <2>2, <4>2, <4>3 DEF FsmPage
      <3>2. CASE ParseHeader
        <4>1. parser'.chunk = parser.chunk /\ parser'.page = parser.page + 1 /\ parser'.conf
              /\ ~parser.conf
          BY <1>1, <3>2 DEF ParseHeader, ParserRegs
        <4>2. QED
          BY <1>1, <2>1, <2>2, <4>1 DEF FsmPage, ParserRegs
      <3>3. CASE EmitPayload \/ FlushConf
        <4>1. parser'.chunk = parser.chunk /\ parser'.page = parser.page
              /\ parser'.conf = parser.conf
          BY <1>1, <3>3 DEF EmitPayload, FlushConf, ParserRegs
        <4>2. QED
          BY <2>1, <2>2, <4>1 DEF FsmPage
      <3>4. QED
        BY <1>3, <3>1, <3>2, <3>3 DEF ParserSteps
    <2>4. QED
      BY <2>1, <2>2, <2>3 DEF ThisPage, ThisType
  <1>4. CASE UNCHANGED <<work, fsm_vars, parser, data>> /\ valid' \subseteq valid
    BY <1>4, FsmPageFrame DEF fsm_vars
  <1>5. CASE Decompress
    BY <1>4, <1>5 DEF Decompress, conf_vars
  <1>6. CASE DecTaken
    <2>1. UNCHANGED <<work, fsm_vars, parser, data>>
      BY <1>6, DecTakenFrame
    <2>2. valid' \subseteq valid
      BY <1>6 DEF DecTaken, HpdTakeBeat, HpdDrain, DictLoad, PlainIn, TakeOffered, Consume
    <2>3. QED
      BY <1>4, <2>1, <2>2
  <1>7. CASE System /\ ~FsmSteps /\ ~ParserSteps /\ ~Decompress /\ ~DecTaken
    <2>1. UNCHANGED <<work, fsm_vars, parser, data>>
      BY <1>7, StreamFrame DEF stream_vars
    <2>2. valid' \subseteq valid
      BY <1>7, FsmFrame DEF FsmSteps
    <2>3. QED
      BY <1>4, <2>1, <2>2
  <1>8. CASE UNCHANGED vars
    BY <1>4, <1>8 DEF vars, in_vars, conf_vars
  <1>9. QED
    BY <1>2, <1>3, <1>5, <1>6, <1>7, <1>8 DEF Next, Done, FsmSteps

LEMMA ParserCountsStep ==
  ASSUME TypeOK, PageConfsInv, StepInv, CountInv, [Next]_vars
  PROVE  ParserCounts'
  <1>1. /\ parser \in ParserRegs /\ parser.page \in Nat /\ parser.remaining \in Int
        /\ chunk \in Nat /\ (parser.conf => parser.state \in {"PAYLOAD", "FLUSH_CONF"})
        /\ (parser.state # "IDLE" => parser.chunk \in DOMAIN work)
        /\ parser.chunk \in Nat /\ parser.sent \in Nat
    BY Places DEF ParserRegs
  <1>2. ParserCounts
    BY DEF CountInv
  <1>3. CASE UNCHANGED <<work, chunk, parser>>
    BY <1>2, <1>3 DEF ParserCounts, Upto
  <1>4. CASE TakeChunkConf
    <2>1. UNCHANGED <<work, parser>> /\ chunk' = chunk + 1
      BY <1>4 DEF TakeChunkConf, in_vars
    <2>2. QED
      BY <1>1, <1>2, <2>1 DEF ParserCounts, Upto
  <1>5. CASE TakePageConf
    <2>1. parser' = [parser EXCEPT !.conf = FALSE] /\ UNCHANGED <<work, chunk>>
      BY <1>5 DEF TakePageConf
    <2>2. parser.chunk = chunk
      BY <1>2, <1>5, FsmPageAtPage
    <2>3. /\ parser'.state = parser.state /\ parser'.chunk = parser.chunk
          /\ parser'.page = parser.page /\ parser'.sent = parser.sent
          /\ parser'.remaining = parser.remaining
      BY <1>1, <2>1 DEF ParserRegs
    <2>4. QED
      BY <1>1, <1>2, <2>1, <2>2, <2>3 DEF ParserCounts, Upto
  <1>6. CASE ParserTakeConf
    <2> DEFINE k == parser.chunk + 1
    <2>1. /\ parser.state = "IDLE" /\ parser.chunk < Len(work) /\ UNCHANGED <<work, chunk>>
          /\ parser' = [parser EXCEPT !.state = "HEADER", !.chunk = k, !.page = 0,
                          !.remaining = work[k].num_values]
      BY <1>6 DEF ParserTakeConf, ParserUnchanged, fsm_vars
    <2>2. k \in DOMAIN work
      BY <1>1, <2>1, Places, WorkloadsAssumption DEF TypeOK, FsmTypeOK
    <2>3. work[k].num_values \in Nat \ {0} /\ Len(work[k].pages) \in Nat
      BY <2>2, WorkFields
    <2>4. /\ parser'.state = "HEADER" /\ parser'.chunk = k /\ parser'.page = 0
          /\ parser'.remaining = work[k].num_values /\ ~parser'.conf
      BY <1>1, <2>1 DEF ParserRegs
    <2> HIDE DEF k
    <2>5. QED
      BY <2>1, <2>3, <2>4 DEF ParserCounts, Upto
  <1>7. CASE ParseHeader
    <2> DEFINE k  == parser.chunk
               p  == parser.page + 1
               pg == work[k].pages[p]
               left == IF pg.kind = "DICT" THEN parser.remaining ELSE parser.remaining - pg.n
    <2>1. /\ parser.state = "HEADER" /\ parser.page < Len(work[k].pages) /\ UNCHANGED <<work, chunk>>
          /\ parser' = [parser EXCEPT !.state = "PAYLOAD", !.page = p, !.sent = 0,
                          !.conf = TRUE, !.remaining = left]
      BY <1>7 DEF ParseHeader, ParserUnchanged, fsm_vars
    <2>2. k \in DOMAIN work /\ p \in DOMAIN work[k].pages
      BY <1>1, <2>1, WorkFields
    <2>3. /\ parser'.state = "PAYLOAD" /\ parser'.chunk = k /\ parser'.page = p
          /\ parser'.remaining = left /\ parser'.conf /\ parser'.sent = 0
      BY <1>1, <2>1 DEF ParserRegs
    <2>4. /\ Upto(k, p) = Upto(k, p - 1) + (IF pg.kind = "DICT" THEN 0 ELSE pg.n)
          /\ Upto(k, p) \in Nat /\ Upto(k, p - 1) \in Nat /\ pg.n \in Nat /\ pg.beats \in Nat \ {0}
          /\ work[k].num_values \in Nat /\ p <= Len(work[k].pages) /\ Len(work[k].pages) \in Nat
      <3> HIDE DEF k, p
      <3>1. pg.n \in Nat /\ pg.beats \in Nat \ {0} /\ p <= Len(work[k].pages)
            /\ Len(work[k].pages) \in Nat
        BY <2>2, PageFields
      <3>2. /\ Upto(k, p) = Upto(k, p - 1) + (IF pg.kind = "DICT" THEN 0 ELSE pg.n)
            /\ Upto(k, p) \in Nat /\ Upto(k, p - 1) \in Nat
        BY <2>2, PageCounts
      <3>3. work[k].num_values \in Nat
        BY <2>2, WorkFields
      <3>4. QED
        BY <3>1, <3>2, <3>3
    <2>5. p - 1 = parser.page /\ p \in Nat
      BY <1>1
    <2>6. left = work[k].num_values - Upto(k, p)
      <3>1. parser.remaining = work[k].num_values - Upto(k, p - 1)
        BY <1>2, <2>1, <2>5 DEF ParserCounts
      <3> HIDE DEF pg, k, p
      <3>2. QED
        BY <1>1, <2>4, <3>1, SMTT(60)
    <2>7. k > chunk => p = 1
      BY <1>1, <1>2, <2>1 DEF ParserCounts
    <2>8. p \in 0..Len(work[k].pages)
      BY <2>4, <2>5
    <2>9. UNCHANGED work /\ UNCHANGED chunk
      BY <2>1
    <2>10. 0 < work[k].pages[p].beats
      BY <2>4, SMTT(60)
    <2> HIDE DEF left, pg, k, p
    <2>11. QED
      BY <2>3, <2>6, <2>7, <2>8, <2>9, <2>10 DEF ParserCounts, Upto
  <1>8. CASE EmitPayload
    <2> DEFINE beats == work[parser.chunk].pages[parser.page].beats
    <2>1. /\ parser.state = "PAYLOAD" /\ UNCHANGED <<work, chunk>>
          /\ parser' = [parser EXCEPT !.sent = parser.sent + 1,
                          !.state = IF parser.sent + 1 = beats THEN "FLUSH_CONF" ELSE @]
      BY <1>8 DEF EmitPayload, ParserUnchanged, fsm_vars
    <2>2. /\ parser'.chunk = parser.chunk /\ parser'.page = parser.page
          /\ parser'.remaining = parser.remaining /\ parser'.conf = parser.conf
          /\ parser'.sent = parser.sent + 1
          /\ parser'.state = (IF parser.sent + 1 = beats THEN "FLUSH_CONF" ELSE "PAYLOAD")
      BY <1>1, <2>1 DEF ParserRegs
    <2>3. parser.sent < beats /\ beats \in Nat
      <3>1. parser.page \in DOMAIN work[parser.chunk].pages /\ parser.chunk \in DOMAIN work
        BY <1>1, <2>1, Places
      <3>2. QED
        BY <1>2, <2>1, <3>1, PageFields DEF ParserCounts
    <2>4. parser'.state = "PAYLOAD" => parser'.sent < beats
      BY <1>1, <2>2, <2>3
    <2> HIDE DEF beats
    <2>5. QED
      BY <1>1, <1>2, <2>1, <2>2, <2>4 DEF ParserCounts, Upto, beats
  <1>9. CASE FlushConf
    <2>1. /\ parser.state = "FLUSH_CONF" /\ UNCHANGED <<work, chunk>>
          /\ parser' = [parser EXCEPT !.state = IF parser.remaining = 0 THEN "IDLE" ELSE "HEADER"]
      BY <1>9 DEF FlushConf, ParserUnchanged, fsm_vars
    <2>2. /\ parser'.chunk = parser.chunk /\ parser'.page = parser.page
          /\ parser'.remaining = parser.remaining /\ parser'.conf = parser.conf
          /\ parser'.state = (IF parser.remaining = 0 THEN "IDLE" ELSE "HEADER")
      BY <1>1, <2>1 DEF ParserRegs
    <2>3. QED
      BY <1>2, <2>1, <2>2 DEF ParserCounts, Upto
  <1>10. CASE FinishPage
    BY <1>3, <1>10 DEF FinishPage, in_vars
  <1>11. CASE Decompress
    BY <1>3, <1>11 DEF Decompress, fsm_vars
  <1>12. CASE DecTaken
    BY <1>3, <1>12, DecTakenFrame DEF fsm_vars
  <1>13. CASE System /\ ~FsmSteps /\ ~ParserSteps /\ ~Decompress /\ ~DecTaken
    BY <1>3, <1>13, StreamFrame DEF stream_vars, fsm_vars
  <1>14. CASE UNCHANGED vars
    BY <1>3, <1>14 DEF vars, in_vars, fsm_vars
  <1>15. QED
    BY <1>4, <1>5, <1>6, <1>7, <1>8, <1>9, <1>10, <1>11, <1>12, <1>13, <1>14
    DEF Next, Done, FsmSteps, ParserSteps

\* What the FSM drives for the page that it takes.
LEMMA DriveHybrid ==
  ASSUME TypeOK, PageConfsInv, StepInv, ParserCounts, TakePageConf, PageConf.kind = "HYBRID"
  PROVE  /\ data'.in_select = "HYBRID" /\ data'.out_select = "HYBRID"
         /\ data'.num_values = data.num_values
         /\ data'.hybrid_num_values = PageConf.n
         /\ data'.hybrid_conf.n = PageConf.n /\ data'.hybrid_conf.keep
         /\ data'.hybrid_conf.last = PageConf.last
         /\ dict_seen' = dict_seen
         /\ valid' \subseteq {"num_values", "in_select", "decompressor_conf", "hybrid_conf",
                              "hybrid_num_values", "out_select"}
         /\ {"in_select", "decompressor_conf", "hybrid_conf", "hybrid_num_values", "out_select"}
              \subseteq valid'
         /\ "num_values" \in valid' <=> "num_values" \in valid
  <1>1. ConfigureHybrid(PageConf) /\ valid \subseteq {"num_values"} /\ data \in DataType
    BY DEF TakePageConf, PageConfsInv, PageConfsConsumed, TypeOK, FsmTypeOK
  <1>2. QED
    BY <1>1 DEF ConfigureHybrid, DataType

LEMMA DriveDict ==
  ASSUME TypeOK, PageConfsInv, StepInv, ParserCounts, TakePageConf, PageConf.kind = "DICT"
  PROVE  /\ data'.in_select = "DICT" /\ data'.dict_type = work[chunk].typ
         /\ data'.num_values = data.num_values
         /\ dict_seen' = TRUE
         /\ valid' \subseteq {"num_values", "in_select", "decompressor_conf", "dict_type"}
         /\ {"in_select", "decompressor_conf", "dict_type"} \subseteq valid'
         /\ "num_values" \in valid' <=> "num_values" \in valid
  <1>1. ConfigureDict /\ valid \subseteq {"num_values"} /\ data \in DataType
    BY DEF TakePageConf, PageConfsInv, PageConfsConsumed, TypeOK, FsmTypeOK
  <1>2. QED
    BY <1>1 DEF ConfigureDict, DataType

LEMMA DrivePlain ==
  ASSUME TypeOK, PageConfsInv, StepInv, ParserCounts, TakePageConf, PageConf.kind = "PLAIN"
  PROVE  /\ data'.in_select = "PLAIN" /\ data'.out_select = "PLAIN"
         /\ data'.plain_type = work[chunk].typ
         /\ data'.num_values = data.num_values
         /\ dict_seen' = dict_seen
         /\ valid' \subseteq {"num_values", "in_select", "decompressor_conf", "plain_type",
                              "out_select", "hybrid_conf"}
         /\ {"in_select", "decompressor_conf", "plain_type", "out_select"} \subseteq valid'
         /\ "num_values" \in valid' <=> "num_values" \in valid
         /\ "hybrid_conf" \in valid' <=> PageConf.last /\ dict_seen
         /\ "hybrid_conf" \in valid' =>
              data'.hybrid_conf.n = 0 /\ ~data'.hybrid_conf.keep /\ data'.hybrid_conf.last
  <1>1. ConfigurePlain(PageConf) /\ valid \subseteq {"num_values"} /\ data \in DataType
        /\ dict_seen \in BOOLEAN
    BY DEF TakePageConf, PageConfsInv, PageConfsConsumed, TypeOK, FsmTypeOK
  <1>2. PageConf.last \in BOOLEAN
    BY FsmPageAtPage
  <1>3. QED
    BY <1>1, <1>2 DEF ConfigurePlain, DataType

LEMMA FsmCountsStep ==
  ASSUME TypeOK, PageConfsInv, StepInv, CountInv, [Next]_vars
  PROVE  FsmCounts'
  <1>1. ParserCounts /\ FsmCounts
    BY DEF CountInv
  <1>2. CASE TakeChunkConf
    <2>1. FsmPage' = 0
      BY <1>1, <1>2, FsmPageAtChunk
    <2>2. state' = "CONFIGURED" /\ dict_seen' = FALSE
      BY <1>2 DEF TakeChunkConf
    <2>3. QED
      BY <2>1, <2>2 DEF FsmCounts
  <1>3. CASE TakePageConf
    <2>1. /\ FsmPage' = parser.page /\ FsmPage = parser.page - 1 /\ parser.page > 0
          /\ chunk' = chunk /\ chunk \in DOMAIN work /\ chunk > 0
          /\ parser.page \in DOMAIN work[chunk].pages /\ work' = work
          /\ PageConf.kind = work[chunk].pages[parser.page].kind
      BY <1>1, <1>3, FsmPageAtPage DEF TakePageConf
    <2>2. /\ PageConf.kind = "DICT" => parser.page = 1
          /\ PageConf.kind \in PageKind /\ parser.page \in Nat
      BY <2>1, KindPlaces, PageFields
    <2>3. CASE PageConf.kind = "DICT"
      <3>1. dict_seen' = TRUE
        BY <1>1, <1>3, <2>3, DriveDict
      <3>2. QED
        BY <2>1, <2>2, <2>3, <3>1 DEF FsmCounts
    <2>4. CASE PageConf.kind # "DICT"
      <3>1. dict_seen' = dict_seen
        BY <1>1, <1>3, <2>2, <2>4, DriveHybrid, DrivePlain DEF PageKind
      <3>2. FsmPage > 0 /\ work[chunk].pages[1].kind = "DICT"
              <=> FsmPage' > 0 /\ work[chunk].pages[1].kind = "DICT"
        <4>1. CASE parser.page = 1
          BY <2>1, <2>4, <4>1
        <4>2. CASE parser.page # 1
          <5>1. FsmPage > 0 /\ FsmPage' > 0
            BY <2>1, <2>2, <4>2
          <5>2. QED
            BY <5>1
        <4>3. QED
          BY <4>1, <4>2
      <3>3. QED
        BY <1>1, <2>1, <3>1, <3>2 DEF FsmCounts
    <2>5. QED
      BY <2>3, <2>4
  <1>4. CASE ~TakeChunkConf /\ ~TakePageConf
    <2>1. /\ UNCHANGED <<work, chunk, dict_seen>>
          /\ (chunk > 0 => FsmPage' = FsmPage)
          /\ (state' = "PROCESS_PAGE" => state = "PROCESS_PAGE")
      BY <1>1, <1>4, FsmPageStays
    <2>2. state # "IDLE" => chunk > 0
      BY Places
    <2>3. QED
      BY <1>1, <2>1, <2>2 DEF FsmCounts
  <1>5. QED
    BY <1>2, <1>3, <1>4

LEMMA DrivenStep ==
  ASSUME TypeOK, PageConfsInv, StepInv, CountInv, [Next]_vars
  PROVE  DrivenForPage'
  <1>1. ParserCounts /\ FsmCounts /\ DrivenForPage
    BY DEF CountInv
  <1>2. CASE TakeChunkConf
    <2>1. chunk' = chunk + 1 /\ chunk \in Nat /\ work' = work
      BY <1>2, Places DEF TakeChunkConf
    <2>2. data' = [data EXCEPT !.num_values = work[chunk'].num_values] /\ data \in DataType
      BY <1>2 DEF TakeChunkConf, TypeOK, FsmTypeOK
    <2>3. data'.num_values = work'[chunk'].num_values
      BY <2>1, <2>2 DEF DataType
    <2>4. valid' \subseteq {"num_values"}
      BY <1>2 DEF TakeChunkConf, PageConfsInv, PageConfsConsumed
    <2>5. QED
      BY <2>1, <2>3, <2>4 DEF DrivenForPage
  <1>3. CASE TakePageConf
    <2>1. /\ FsmPage' = parser.page /\ parser.page \in DOMAIN work[chunk].pages
          /\ chunk' = chunk /\ chunk \in DOMAIN work /\ chunk > 0
          /\ PageConf.kind = work[chunk].pages[parser.page].kind
          /\ PageConf.n = work[chunk].pages[parser.page].n
          /\ (last_page' <=> PageConf.last) /\ PageConf.last \in BOOLEAN
          /\ PageConf.last <=> parser.page = Len(work[chunk].pages)
      BY <1>1, <1>3, FsmPageAtPage
    <2>2. work' = work
      BY <1>3 DEF TakePageConf
    <2>3. ThisPage'.kind = PageConf.kind /\ ThisPage'.n = PageConf.n /\ ThisType' = work[chunk].typ
      BY <2>1, <2>2 DEF ThisPage, ThisType
    <2>4. "num_values" \in valid => data.num_values = work[chunk].num_values
      BY <1>1 DEF DrivenForPage
    <2>5. PageConf.kind \in PageKind
      BY <2>1, PageFields
    <2>6. PageConf.kind = "DICT" => ~PageConf.last
      <3>1. PageConf.kind = "DICT" => parser.page < Len(work[chunk].pages)
        BY <2>1, KindPlaces
      <3>2. parser.page \in Nat /\ Len(work[chunk].pages) \in Nat
        BY <2>1, PageFields
      <3>3. QED
        BY <2>1, <3>1, <3>2
    <2>7. CASE PageConf.kind = "HYBRID"
      BY <1>1, <1>3, <2>1, <2>2, <2>3, <2>4, <2>7, DriveHybrid DEF DrivenForPage
    <2>8. CASE PageConf.kind = "DICT"
      BY <1>1, <1>3, <2>1, <2>2, <2>3, <2>4, <2>6, <2>8, DriveDict DEF DrivenForPage
    <2>9. CASE PageConf.kind = "PLAIN"
      BY <1>1, <1>3, <2>1, <2>2, <2>3, <2>4, <2>9, DrivePlain DEF DrivenForPage
    <2>10. QED
      BY <2>5, <2>7, <2>8, <2>9 DEF PageKind
  <1>4. CASE ~TakeChunkConf /\ ~TakePageConf
    <2>1. /\ UNCHANGED <<work, chunk, dict_seen, last_page, data>> /\ valid' \subseteq valid
          /\ (chunk > 0 => ThisPage' = ThisPage /\ ThisType' = ThisType)
      BY <1>1, <1>4, FsmPageStays
    <2>2. CASE chunk > 0
      BY <1>1, <2>1, <2>2 DEF DrivenForPage
    <2>3. CASE ~(chunk > 0)
      <3>1. valid = {}
        BY <1>1, <2>3, Places DEF DrivenForPage, PageConfsInv, PageConfsConsumed
      <3>2. QED
        BY <2>1, <3>1 DEF DrivenForPage
    <2>4. QED
      BY <2>2, <2>3
  <1>5. QED
    BY <1>2, <1>3, <1>4

LEMMA CountStep ==
  ASSUME TypeOK, PageConfsInv, StepInv, CountInv, [Next]_vars
  PROVE  CountInv'
BY ParserCountsStep, FsmCountsStep, DrivenStep DEF CountInv

-----------------------------------------------------------------------------
(* The beats before the demultiplexer.                                     *)

LEMMA Product ==
  ASSUME NEW a \in Nat, NEW b \in Nat, a <= b, NEW m \in Nat
  PROVE  /\ a * m \in Nat /\ b * m \in Nat /\ a * m <= b * m
         /\ (a + 1) * m = a * m + m
  <1>1. b - a \in Nat
    OBVIOUS
  <1>2. (b - a) * m \in Nat /\ b * m = a * m + (b - a) * m
    BY <1>1
  <1>3. a * m \in Nat
    OBVIOUS
  <1>4. QED
    BY <1>2, <1>3

\* The beats of a plain page.
LEMMA PlainFields ==
  ASSUME TypeOK, NEW k \in DOMAIN work, NEW p \in DOMAIN work[k].pages,
         work[k].pages[p].kind = "PLAIN"
  PROVE  /\ (work[k].pages[p].beats - 1) * PerBeat(work[k].typ) < work[k].pages[p].n
         /\ work[k].pages[p].n <= work[k].pages[p].beats * PerBeat(work[k].typ)
         /\ PerBeat(work[k].typ) \in Nat \ {0}
  <1>1. WellFormed(work[k]) /\ work[k].typ \in Types
    BY WorkFields
  <1>2. QED
    BY <1>1, PerBeatPos DEF WellFormed

\* Payload beat number j of a plain page, of `beats` of them with m values each.
LEMMA BeatOfPage ==
  ASSUME NEW beats \in Nat \ {0}, NEW m \in Nat \ {0}, NEW n \in Nat,
         (beats - 1) * m < n, n <= beats * m, NEW j \in Nat \ {0}, j <= beats
  PROVE  /\ (j - 1) * m \in Nat
         /\ j < beats => (j - 1) * m + m = j * m /\ j * m < n
         /\ j = beats => /\ n - (beats - 1) * m > 0 /\ n - (beats - 1) * m <= m
                         /\ (j - 1) * m + (n - (beats - 1) * m) = n
  <1>1. j - 1 \in Nat /\ beats - 1 \in Nat
    OBVIOUS
  <1>2. (j - 1) * m \in Nat /\ (j - 1 + 1) * m = (j - 1) * m + m
    BY <1>1, Product
  <1>3. (beats - 1) * m \in Nat /\ (beats - 1 + 1) * m = (beats - 1) * m + m
    BY <1>1, Product
  <1>4. j - 1 + 1 = j /\ beats - 1 + 1 = beats
    OBVIOUS
  <1>5. ASSUME j < beats PROVE j * m <= (beats - 1) * m
    BY <1>1, <1>5, Product
  <1>6. j * m \in Nat
    BY Product
  <1>7. QED
    BY <1>2, <1>3, <1>4, <1>5, <1>6

\* A beat of the FSM's page is not of the parser's, while that one is not taken.
LEMMA MineNotAhead ==
  ASSUME TypeOK, StepInv, ParserCounts, parser.conf, NEW b, Mine(b)
  PROVE  ~Ahead(b)
  <1>1. parser \in ParserRegs /\ parser.page \in Nat
        /\ parser.state \in {"PAYLOAD", "FLUSH_CONF"}
    BY Places
  <1>2. SUFFICES ASSUME Ahead(b) PROVE FALSE
    OBVIOUS
  <1>3. parser.chunk = chunk /\ parser.page = FsmPage
    BY <1>2 DEF Mine, Ahead
  <1>4. ~Finishing
    BY <1>1, <1>3, Places DEF StepInv, ChunksInStep, ParserFinishing, Taken
  <1>5. FsmPage = parser.page - 1
    BY <1>3, <1>4 DEF FsmPage
  <1>6. QED
    BY <1>1, <1>3, <1>5

\* While beats of the FSM's page are to come, the parser is at that page.
LEMMA ToComePlace ==
  ASSUME TypeOK, StepInv, ParserCounts, LastToCome
  PROVE  /\ parser.chunk = chunk /\ chunk \in DOMAIN work /\ parser.page = FsmPage
         /\ FsmPage \in DOMAIN work[chunk].pages
  <1>1. /\ parser \in ParserRegs /\ parser.page \in Nat /\ parser.state = "PAYLOAD"
        /\ parser.chunk \in DOMAIN work /\ parser.page \in DOMAIN work[parser.chunk].pages
        /\ parser.chunk = chunk /\ ~parser.conf /\ chunk \in Nat
    BY Places DEF LastToCome
  <1>2. CASE ~Finishing
    BY <1>1, <1>2 DEF FsmPage
  <1>3. CASE Finishing
    <2>1. parser.remaining = 0
      BY <1>1, <1>3 DEF StepInv, ChunksInStep, ParserFinishing
    <2>2. parser.page \in 0..Len(work[chunk].pages)
          /\ parser.remaining = work[chunk].num_values - Upto(chunk, parser.page)
      BY <1>1 DEF ParserCounts
    <2>3. parser.page = Len(work[chunk].pages)
      <3>1. /\ Upto(chunk, parser.page) \in Nat /\ work[chunk].num_values \in Nat
            /\ Upto(chunk, parser.page) = work[chunk].num_values <=> parser.page = Len(work[chunk].pages)
        BY <1>1, <2>2, UptoCounts, WorkFields
      <3>2. QED
        BY <2>1, <2>2, <3>1
    <2>4. QED
      BY <1>1, <1>3, <2>3 DEF FsmPage
  <1>4. QED
    BY <1>2, <1>3

\* What the parser puts out: a beat of its page, filled.
LEMMA EmitFacts ==
  ASSUME TypeOK, StepInv, ParserCounts, EmitPayload
  PROVE  /\ payload = <<>> /\ Len(payload') = 1 /\ payload' # <<>>
         /\ payload'[1].c = parser.chunk /\ payload'[1].p = parser.page
         /\ parser.chunk \in DOMAIN work /\ parser.page \in DOMAIN work[parser.chunk].pages
         /\ UNCHANGED <<work, state, last_page, chunk, valid, data, dec, plain>>
         /\ parser'.sent = parser.sent + 1 /\ parser.sent \in Nat
         /\ parser'.chunk = parser.chunk /\ parser'.page = parser.page
         /\ parser'.conf = parser.conf /\ parser.state = "PAYLOAD"
         /\ Filled(payload'[1])
         /\ work[parser.chunk].pages[parser.page].kind = "PLAIN" =>
              /\ payload'[1].at = parser.sent * PerBeat(work[parser.chunk].typ)
              /\ payload'[1].at \in Nat
              /\ ~payload'[1].last =>
                   payload'[1].at + payload'[1].n = (parser.sent + 1) * PerBeat(work[parser.chunk].typ)
  <1> DEFINE ch == work[parser.chunk]
             pg == ch.pages[parser.page]
             j  == parser.sent + 1
             b == [c |-> parser.chunk, p |-> parser.page, last |-> j = pg.beats,
                   at |-> IF pg.kind = "PLAIN" THEN (j - 1) * PerBeat(ch.typ) ELSE 0,
                   n |-> IF pg.kind = "PLAIN" THEN BeatValues(pg, ch.typ, j) ELSE 0]
  <1>1. payload = <<>>
    BY OneBeat DEF EmitPayload, TypeOK, ParserTypeOK, StepInv, PagesInStep
  <1>2. payload' = Append(payload, b)
        /\ parser' = [parser EXCEPT !.sent = j,
                        !.state = IF j = pg.beats THEN "FLUSH_CONF" ELSE @]
        /\ parser.state = "PAYLOAD"
    BY Zenon DEF EmitPayload
  <1>3. UNCHANGED <<work, state, last_page, chunk, valid, data, dec, plain>>
    BY DEF EmitPayload, ParserUnchanged, fsm_vars, conf_vars
  <1>4. /\ parser.chunk \in DOMAIN work /\ parser.page \in DOMAIN ch.pages
        /\ parser \in ParserRegs /\ parser.sent \in Nat
    BY <1>2, Places DEF ParserRegs
  <1>5. /\ pg.beats \in Nat \ {0} /\ pg.n \in Nat \ {0} /\ parser.sent < pg.beats
    BY <1>2, <1>4, PageFields DEF ParserCounts
  <1>6. /\ parser'.sent = parser.sent + 1 /\ parser'.chunk = parser.chunk
        /\ parser'.page = parser.page /\ parser'.conf = parser.conf
    BY <1>2, <1>4 DEF ParserRegs
  <1>7. /\ b.c = parser.chunk /\ b.p = parser.page /\ (b.last <=> j = pg.beats)
        /\ b.at = (IF pg.kind = "PLAIN" THEN (j - 1) * PerBeat(ch.typ) ELSE 0)
        /\ b.n = (IF pg.kind = "PLAIN" THEN BeatValues(pg, ch.typ, j) ELSE 0)
    OBVIOUS
  <1> HIDE DEF b
  <1>8. payload'[1] = b /\ Len(payload') = 1 /\ payload' # <<>>
    BY <1>1, <1>2, FirstBeat
  <1>9. ASSUME pg.kind = "PLAIN"
        PROVE  /\ b.at = parser.sent * PerBeat(ch.typ) /\ b.at \in Nat
               /\ b.n > 0 /\ b.n <= PerBeat(ch.typ) /\ b.at + b.n <= pg.n
               /\ b.last <=> b.at + b.n = pg.n
               /\ ~b.last => b.at + b.n = (parser.sent + 1) * PerBeat(ch.typ)
    <2> DEFINE m == PerBeat(ch.typ)
               beats == pg.beats
               n == pg.n
    <2>1. (beats - 1) * m < n /\ n <= beats * m /\ m \in Nat \ {0}
      BY <1>4, <1>9, PlainFields
    <2>2. j \in Nat \ {0} /\ j <= beats /\ j - 1 = parser.sent
      BY <1>4, <1>5
    <2>3. b.at = (j - 1) * m /\ b.n = (IF j < beats THEN m ELSE n - (beats - 1) * m)
      BY <1>7, <1>9 DEF BeatValues
    <2>4. beats \in Nat \ {0} /\ n \in Nat
      BY <1>5
    <2>5. b.last <=> j = beats
      BY <1>7
    <2> HIDE DEF m, beats, n, j
    <2>6. /\ (j - 1) * m \in Nat
          /\ j < beats => (j - 1) * m + m = j * m /\ j * m < n
          /\ j = beats => /\ n - (beats - 1) * m > 0 /\ n - (beats - 1) * m <= m
                          /\ (j - 1) * m + (n - (beats - 1) * m) = n
      BY <2>1, <2>2, <2>4, BeatOfPage
    <2>7. CASE j < beats
      <3>1. b.n = m /\ b.at + b.n = j * m /\ ~b.last /\ b.at + b.n < n
        BY <2>2, <2>3, <2>4, <2>5, <2>6, <2>7
      <3>2. b.n > 0 /\ b.n <= m /\ b.at + b.n <= n /\ b.at + b.n # n
        <4>1. b.at + b.n \in Int /\ n \in Int
          BY <2>1, <2>3, <2>4, <2>6, <3>1
        <4>2. QED
          BY <2>1, <3>1, <4>1
      <3>3. b.at = parser.sent * m /\ b.at \in Nat
        BY <2>2, <2>3, <2>6
      <3>4. QED
        BY <3>1, <3>2, <3>3 DEF m, n, j
    <2>8. CASE j = beats
      <3>1. b.last /\ b.n = n - (beats - 1) * m
        BY <2>3, <2>4, <2>5, <2>8
      <3>2. b.at + b.n = n /\ b.n > 0 /\ b.n <= m
        BY <2>3, <2>6, <2>8, <3>1
      <3>3. b.at = parser.sent * m /\ b.at \in Nat
        BY <2>2, <2>3, <2>6
      <3>4. QED
        BY <2>4, <3>1, <3>2, <3>3 DEF m, n, j
    <2>9. QED
      BY <2>2, <2>4, <2>7, <2>8
  <1>10. Filled(b)
    BY <1>4, <1>7, <1>9 DEF Filled
  <1>11. QED
    BY <1>1, <1>2, <1>3, <1>4, <1>6, <1>7, <1>8, <1>9, <1>10

LEMMA FilledFrame ==
  ASSUME UNCHANGED work, NEW b
  PROVE  Filled(b)' <=> Filled(b)
BY DEF Filled

\* Steps that leave the beats, the parser and the FSM's page alone.
LEMMA SourceFrame ==
  ASSUME SourceInv, UNCHANGED <<work, chunk, parser, payload, dec>>,
         dec # <<>> \/ payload # <<>> => FsmPage' = FsmPage,
         "in_select" \in valid' => "in_select" \in valid
  PROVE  SourceInv'
BY DEF SourceInv, Mine, Filled, Ahead

LEMMA SourceParserStep ==
  ASSUME TypeOK, PageConfsInv, StepInv, CountInv, SourceInv, ParserSteps,
         chunk > 0 => FsmPage' = FsmPage
  PROVE  SourceInv'
  <1>1. /\ parser \in ParserRegs /\ chunk \in Nat /\ parser.page \in Nat
        /\ (parser.conf => parser.state \in {"PAYLOAD", "FLUSH_CONF"})
        /\ state # "IDLE" => chunk > 0
    BY Places
  <1>2. UNCHANGED <<work, chunk, dec, valid, data, state, last_page>>
    BY DEF ParserSteps, ParserTakeConf, ParseHeader, EmitPayload, FlushConf, ParserUnchanged,
           fsm_vars, conf_vars
  <1>3. "in_select" \in valid => chunk > 0
    BY <1>1 DEF PageConfsInv, PageConfsConsumed
  <1>4. dec # <<>> => "in_select" \in valid
    BY DEF StepInv, PagesInStep, Gone, LastBehind, LastBefore, LastToCome
  <1>5. dec' # <<>> => Mine(dec[1])' /\ Filled(dec[1])'
    BY <1>2, <1>3, <1>4 DEF SourceInv, Mine, Filled
  <1>6. CASE ParserTakeConf \/ FlushConf
    <2>1. payload' = payload /\ ~parser'.conf /\ parser'.sent = parser.sent
      BY <1>1, <1>6 DEF ParserTakeConf, FlushConf, ParserRegs
    <2>2. QED
      BY <1>2, <1>3, <1>5, <2>1 DEF SourceInv, Mine, Filled
  <1>7. CASE ParseHeader
    <2>1. /\ payload' = payload /\ parser'.conf /\ parser'.sent = 0 /\ parser.state = "HEADER"
          /\ parser'.page = parser.page + 1 /\ parser'.chunk = parser.chunk /\ ~parser.conf
      BY <1>1, <1>7 DEF ParseHeader, ParserRegs
    <2>2. payload # <<>> => LastBefore
      BY <2>1 DEF StepInv, PagesInStep, Gone, LastBehind, LastToCome, ParserAhead
    <2>3. payload # <<>> => payload[1].last /\ Mine(payload[1]) /\ chunk > 0
      BY <1>3, <2>2 DEF LastBefore, SourceInv
    <2>4. payload # <<>> => ~Ahead(payload[1])'
      <3>1. SUFFICES ASSUME payload # <<>>, Ahead(payload[1])' PROVE FALSE
        OBVIOUS
      <3>2. parser.chunk = chunk /\ parser.page + 1 = FsmPage
        BY <2>1, <2>3, <3>1 DEF Ahead, Mine
      <3>3. ~Finishing
        BY <1>1, <2>1, <3>2 DEF StepInv, ChunksInStep, ParserFinishing, Taken, ParserRegs
      <3>4. FsmPage = parser.page
        BY <2>1, <3>2, <3>3 DEF FsmPage
      <3>5. QED
        BY <1>1, <3>2, <3>4
    <2>5. QED
      BY <1>2, <1>3, <1>5, <2>1, <2>3, <2>4 DEF SourceInv, Mine, Filled
  <1>8. CASE EmitPayload
    <2>1. ParserCounts
      BY DEF CountInv
    <2>13. PICK b : b = payload'[1]
      OBVIOUS
    <2>2. /\ payload = <<>> /\ payload' # <<>>
          /\ b.c = parser.chunk /\ b.p = parser.page
          /\ parser'.sent = parser.sent + 1 /\ parser.sent \in Nat
          /\ parser'.chunk = parser.chunk /\ parser'.page = parser.page
          /\ parser'.conf = parser.conf /\ parser.state = "PAYLOAD" /\ Filled(b)
          /\ parser.chunk \in DOMAIN work
      BY <1>8, <2>1, <2>13, EmitFacts
    <2>3. work[parser.chunk].pages[parser.page].kind = "PLAIN" =>
              /\ b.at = parser.sent * PerBeat(work[parser.chunk].typ)
              /\ b.at \in Nat
              /\ ~b.last => b.at + b.n = (parser.sent + 1) * PerBeat(work[parser.chunk].typ)
      BY <1>8, <2>1, <2>13, EmitFacts
    <2>4. Filled(b)'
      BY <1>2, <2>2, FilledFrame
    <2>5. "in_select" \in valid /\ ~(dec # <<>> /\ dec[1].last) => Mine(b)'
      <3>1. SUFFICES ASSUME "in_select" \in valid, ~(dec # <<>> /\ dec[1].last)
                     PROVE  Mine(b)'
        OBVIOUS
      <3>2. LastToCome
        BY <2>2, <3>1 DEF StepInv, PagesInStep, Gone, LastBehind, LastBefore
      <3>3. parser.chunk = chunk /\ parser.page = FsmPage
        BY <2>1, <3>2, ToComePlace
      <3>4. b.c = chunk' /\ b.p = FsmPage'
        BY <1>2, <1>3, <2>2, <3>1, <3>3
      <3>5. QED
        BY <2>2, <3>4 DEF Mine
    <2>6. parser.conf => parser.sent = 0
      BY <2>2 DEF SourceInv
    <2>7. parser.conf /\ work[parser.chunk].pages[parser.page].kind = "PLAIN" => b.at = 0
      <3>1. PerBeat(work[parser.chunk].typ) \in Nat
        BY <2>2, WorkFields, PerBeatPos
      <3>2. 0 * PerBeat(work[parser.chunk].typ) = 0
        BY <3>1
      <3>3. QED
        BY <2>3, <2>6, <3>2
    <2>8. parser'.conf => Ahead(b)'
      BY <2>2 DEF Ahead
    <2>9. ~b.last /\ work'[b.c].pages[b.p].kind = "PLAIN" =>
             b.at + b.n = parser'.sent * PerBeat(work'[b.c].typ)
      BY <1>2, <2>2, <2>3
    <2>10. work'[parser'.chunk].pages[parser'.page].kind
             = work[parser.chunk].pages[parser.page].kind /\ valid' = valid /\ dec' = dec
      BY <1>2, <2>2
    <2>11. /\ Ahead(b)' => Ahead(payload[1])'
           /\ Mine(b)' => Mine(payload[1])'
           /\ Filled(b)' => Filled(payload[1])'
      BY <2>13 DEF Ahead, Mine, Filled
    <2>12. QED
      BY <1>5, <2>2, <2>4, <2>5, <2>7, <2>8, <2>9, <2>10, <2>11, <2>13 DEF SourceInv
  <1>9. QED
    BY <1>6, <1>7, <1>8 DEF ParserSteps

LEMMA SourceStep ==
  ASSUME TypeOK, PageConfsInv, StepInv, CountInv, SourceInv, [Next]_vars
  PROVE  SourceInv'
  <1>1. ParserCounts /\ payload \in Seq(InBeat) /\ dec \in Seq(InBeat)
        /\ Len(payload) <= 1 /\ Len(dec) <= 1
    BY DEF CountInv, TypeOK, ParserTypeOK, StepInv, PagesInStep
  <1>2. ~TakeChunkConf /\ ~TakePageConf =>
          UNCHANGED <<work, chunk>> /\ (chunk > 0 => FsmPage' = FsmPage)
    BY <1>1, FsmPageStays
  <1>3. state # "IDLE" => chunk > 0
    BY Places
  <1>4. "in_select" \in valid => chunk > 0
    BY <1>3 DEF PageConfsInv, PageConfsConsumed
  <1>5. dec # <<>> => "in_select" \in valid
    BY DEF StepInv, PagesInStep, Gone, LastBehind, LastBefore, LastToCome
  <1>6. CASE TakeChunkConf \/ TakePageConf
    <2>1. "in_select" \notin valid
      BY <1>6 DEF TakeChunkConf, TakePageConf, PageConfsInv, PageConfsConsumed
    <2>2. dec = <<>> /\ ParserAhead
      BY <2>1 DEF StepInv, PagesInStep, Gone, LastBehind, LastBefore, LastToCome
    <2>3. CASE TakeChunkConf
      <3>1. UNCHANGED <<work, payload, dec, parser>> /\ "in_select" \notin valid'
        BY <2>1, <2>3 DEF TakeChunkConf, in_vars
      <3>2. QED
        BY <2>2, <3>1 DEF SourceInv, Filled, Ahead
    <2>4. CASE TakePageConf
      <3>1. UNCHANGED <<work, chunk, payload, dec>> /\ parser' = [parser EXCEPT !.conf = FALSE]
        BY <2>4 DEF TakePageConf
      <3>2. ~parser'.conf /\ parser'.sent = parser.sent
        BY <3>1 DEF TypeOK, ParserTypeOK, ParserRegs
      <3>3. FsmPage' = parser.page /\ parser.chunk = chunk
        BY <1>1, <2>4, FsmPageAtPage
      <3>4. payload # <<>> => Mine(payload[1])'
        BY <2>2, <3>1, <3>3 DEF ParserAhead, Ahead, Mine
      <3>5. QED
        BY <2>2, <3>1, <3>2, <3>4 DEF SourceInv, Filled
    <2>5. QED
      BY <1>6, <2>3, <2>4
  <1>7. CASE ParserSteps
    <2>1. ~TakeChunkConf /\ ~TakePageConf
      <3>1. fsm_vars' = fsm_vars
        BY <1>7 DEF ParserSteps, ParserTakeConf, ParseHeader, EmitPayload, FlushConf, ParserUnchanged
      <3>2. QED
        BY <3>1 DEF fsm_vars, TakeChunkConf, TakePageConf
    <2>2. QED
      BY <1>2, <1>7, <2>1, SourceParserStep
  <1>8. CASE Decompress
    <2>1. /\ payload # <<>> /\ "decompressor_conf" \in valid /\ Len(dec) < 1
          /\ dec' = Append(dec, Head(payload)) /\ payload' = Tail(payload)
          /\ UNCHANGED <<work, fsm_vars, valid, data, parser>>
      BY <1>8 DEF Decompress, conf_vars
    <2>2. "in_select" \in valid
      BY <2>1 DEF StepInv, PagesInStep
    <2>3. dec = <<>> /\ Head(payload) = payload[1] /\ payload' = <<>>
      BY <1>1, <2>1, OneBeat
    <2>4. dec' # <<>> /\ dec'[1] = payload[1]
      BY <2>1, <2>3, FirstBeat
    <2>5. Mine(payload[1]) /\ Filled(payload[1])
      BY <2>1, <2>2, <2>3 DEF SourceInv
    <2>6. FsmPage' = FsmPage
      BY <2>1, FsmPageFrame DEF fsm_vars
    <2>7. parser.conf => parser.sent = 0
      BY <1>1, <2>1, <2>5, MineNotAhead DEF SourceInv
    <2>8. UNCHANGED <<work, chunk, parser>>
      BY <2>1 DEF fsm_vars
    <2>9. QED
      BY <2>3, <2>4, <2>5, <2>6, <2>7, <2>8 DEF SourceInv, Mine, Filled
  <1>9. CASE DecTaken
    <2>1. /\ UNCHANGED <<work, fsm_vars, data, parser, payload>>
          /\ dec # <<>> /\ "in_select" \in valid /\ dec' = Tail(dec)
          /\ IF Head(dec).last
             THEN "in_select" \notin valid' /\ "decompressor_conf" \notin valid'
             ELSE valid' = valid
      BY <1>9, DecTakenFrame
    <2>2. Head(dec) = dec[1] /\ dec' = <<>>
      BY <1>1, <2>1, OneBeat
    <2>3. FsmPage' = FsmPage
      BY <2>1, FsmPageFrame DEF fsm_vars
    <2>4. UNCHANGED <<work, chunk, parser, payload>>
      BY <2>1 DEF fsm_vars
    <2>5. QED
      BY <2>1, <2>2, <2>3, <2>4 DEF SourceInv, Mine, Filled, Ahead
  <1>10. CASE UNCHANGED <<work, fsm_vars, parser, payload, dec>>
              /\ ("in_select" \in valid' <=> "in_select" \in valid)
    <2>1. FsmPage' = FsmPage
      BY <1>10, FsmPageFrame DEF fsm_vars
    <2>2. QED
      BY <1>10, <2>1, SourceFrame DEF fsm_vars
  <1>11. CASE FinishPage
    <2>1. UNCHANGED <<work, chunk, parser, payload, dec, valid>>
      BY <1>11 DEF FinishPage, in_vars, conf_vars
    <2>2. chunk > 0 => FsmPage' = FsmPage
      BY <1>2, <1>11 DEF FinishPage, TakeChunkConf, TakePageConf
    <2>3. chunk > 0
      BY <1>3, <1>11 DEF FinishPage
    <2>4. QED
      BY <2>1, <2>2, <2>3, SourceFrame
  <1>12. CASE System /\ ~FsmSteps /\ ~ParserSteps /\ ~Decompress /\ ~DecTaken
    <2>1. /\ UNCHANGED <<work, fsm_vars, data, stream_vars>>
          /\ \A c \in {"in_select", "decompressor_conf"} : c \in valid' <=> c \in valid
      BY <1>12, StreamFrame
    <2>2. QED
      BY <1>10, <2>1 DEF stream_vars
  <1>13. CASE UNCHANGED vars
    BY <1>10, <1>13 DEF vars, in_vars, conf_vars
  <1>14. QED
    BY <1>6, <1>7, <1>8, <1>9, <1>11, <1>12, <1>13 DEF Next, Done, FsmSteps

-----------------------------------------------------------------------------
(* The plain path.                                                         *)

LEMMA EmptySeq ==
  ASSUME NEW S, NEW q \in Seq(S)
  PROVE  Len(q) \in Nat /\ (q = <<>> <=> Len(q) = 0)
OBVIOUS

LEMMA TailFacts ==
  ASSUME NEW S, NEW q \in Seq(S), q # <<>>
  PROVE  /\ Tail(q) \in Seq(S) /\ Len(Tail(q)) = Len(q) - 1 /\ Len(q) \in Nat \ {0}
         /\ Tail(q) = <<>> <=> Len(q) = 1
         /\ \A i \in 1..(Len(q) - 1) : Tail(q)[i] = q[i + 1]
  <1>1. Tail(q) \in Seq(S) /\ Len(Tail(q)) = Len(q) - 1 /\ Len(q) \in Nat \ {0}
    OBVIOUS
  <1>2. \A i \in 1..(Len(q) - 1) : Tail(q)[i] = q[i + 1]
    OBVIOUS
  <1>3. Tail(q) = <<>> <=> Len(Tail(q)) = 0
    BY <1>1, EmptySeq
  <1>4. Tail(q) = <<>> <=> Len(q) = 1
    <2> DEFINE m == Len(Tail(q))
    <2>1. m = Len(q) - 1 /\ Len(q) \in Nat /\ (Tail(q) = <<>> <=> m = 0)
      BY <1>1, <1>3
    <2> HIDE DEF m
    <2>2. QED
      BY <2>1
  <1>5. QED
    BY <1>1, <1>2, <1>4

LEMMA ConsecutiveAppend ==
  ASSUME NEW q \in Seq(InBeat), NEW from, NEW to, Consecutive(q, from, to),
         NEW b \in InBeat, b.at = to
  PROVE  Consecutive(Append(q, b), from, b.at + b.n)
  <1> DEFINE r == Append(q, b)
  <1>1. /\ Len(r) = Len(q) + 1 /\ r[Len(r)] = b /\ r # <<>> /\ Len(q) \in Nat
        /\ \A i \in 1..Len(q) : r[i] = q[i]
        /\ q = <<>> <=> Len(q) = 0
    OBVIOUS
  <1> HIDE DEF r
  <1>2. r[1].at = from
    <2>1. CASE q = <<>>
      BY <1>1, <2>1 DEF Consecutive
    <2>2. CASE q # <<>>
      BY <1>1, <2>2 DEF Consecutive
    <2>3. QED
      BY <2>1, <2>2
  <1>3. ASSUME NEW i \in 1..(Len(r) - 1) PROVE r[i + 1].at = r[i].at + r[i].n
    <2>1. CASE i = Len(q)
      <3>1. q # <<>> /\ q[Len(q)].at + q[Len(q)].n = to /\ r[i] = q[Len(q)] /\ r[i + 1] = b
        BY <1>1, <2>1 DEF Consecutive
      <3>2. QED
        BY <3>1
    <2>2. CASE i # Len(q)
      <3>1. i \in 1..(Len(q) - 1) /\ r[i] = q[i] /\ r[i + 1] = q[i + 1]
        BY <1>1, <2>2
      <3>2. QED
        BY <3>1 DEF Consecutive
    <2>3. QED
      BY <2>1, <2>2
  <1>4. Consecutive(r, from, b.at + b.n)
    BY <1>1, <1>2, <1>3 DEF Consecutive
  <1>5. QED
    BY <1>4 DEF r

LEMMA ConsecutiveTail ==
  ASSUME NEW q \in Seq(InBeat), q # <<>>, NEW from, NEW to, Consecutive(q, from, to)
  PROVE  Consecutive(Tail(q), q[1].at + q[1].n, to)
  <1> DEFINE r == Tail(q)
  <1>1. /\ Len(r) = Len(q) - 1 /\ Len(q) \in Nat \ {0}
        /\ \A i \in 1..Len(r) : r[i] = q[i + 1]
        /\ r = <<>> <=> Len(r) = 0
    <2>1. /\ Len(r) = Len(q) - 1 /\ Len(q) \in Nat \ {0} /\ (r = <<>> <=> Len(q) = 1)
          /\ \A i \in 1..(Len(q) - 1) : r[i] = q[i + 1]
      BY TailFacts
    <2> HIDE DEF r
    <2>2. QED
      BY <2>1
  <1> HIDE DEF r
  <1>2. ASSUME r = <<>> PROVE q[1].at + q[1].n = to
    <2>1. Len(q) = 1
      BY <1>1, <1>2
    <2>2. q[Len(q)].at + q[Len(q)].n = to
      BY DEF Consecutive
    <2>3. QED
      BY <2>1, <2>2
  <1>3. ASSUME r # <<>> PROVE r[1].at = q[1].at + q[1].n /\ r[Len(r)].at + r[Len(r)].n = to
    <2>1. r[1] = q[2] /\ 1 \in 1..(Len(q) - 1) /\ r[Len(r)] = q[Len(q)]
      BY <1>1, <1>3
    <2>2. q[1 + 1].at = q[1].at + q[1].n
      BY <2>1 DEF Consecutive
    <2>3. QED
      BY <2>1, <2>2 DEF Consecutive
  <1>4. ASSUME NEW i \in 1..(Len(r) - 1) PROVE r[i + 1].at = r[i].at + r[i].n
    <2>1. i + 1 \in 1..(Len(q) - 1) /\ r[i] = q[i + 1] /\ r[i + 1] = q[i + 1 + 1]
      BY <1>1
    <2>2. QED
      BY <2>1 DEF Consecutive
  <1>5. Consecutive(r, q[1].at + q[1].n, to)
    BY <1>2, <1>3, <1>4 DEF Consecutive
  <1>6. QED
    BY <1>5 DEF r

\* The page the FSM took last, while it drives anything for it.
LEMMA PageUnderWay ==
  ASSUME TypeOK, PageConfsInv, StepInv, CountInv,
         NEW c \in {"in_select", "out_select"}, c \in valid
  PROVE  /\ state = "PROCESS_PAGE" /\ chunk > 0 /\ chunk \in DOMAIN work
         /\ FsmPage \in DOMAIN work[chunk].pages /\ FsmPage > 0
         /\ ThisPage.kind \in PageKind /\ ThisPage.n \in Nat \ {0}
         /\ ThisType \in Types /\ PerBeat(ThisType) \in Nat \ {0}
         /\ data[c] = ThisPage.kind
  <1>1. state = "PROCESS_PAGE"
    BY DEF PageConfsInv, PageConfsConsumed
  <1>2. chunk > 0 /\ chunk \in DOMAIN work
    BY <1>1, Places
  <1>3. FsmPage > 0
    BY <1>1 DEF CountInv, FsmCounts
  <1>4. FsmPage \in DOMAIN work[chunk].pages
    BY <1>2, <1>3, FsmPageRange DEF CountInv
  <1>5. ThisPage.kind \in PageKind /\ ThisPage.n \in Nat \ {0}
    BY <1>2, <1>4, PageFields DEF ThisPage
  <1>6. ThisType \in Types
    BY <1>2, WorkFields DEF ThisType
  <1>7. data[c] = ThisPage.kind
    BY DEF CountInv, DrivenForPage
  <1>8. QED
    BY <1>1, <1>2, <1>3, <1>4, <1>5, <1>6, <1>7, PerBeatPos

\* A beat of a plain page that the FSM took last.
LEMMA MineFilled ==
  ASSUME NEW b \in InBeat, Mine(b), Filled(b), ThisPage.kind = "PLAIN"
  PROVE  /\ b.at \in Nat /\ b.n \in Nat \ {0} /\ b.n <= PerBeat(ThisType)
         /\ b.at + b.n <= ThisPage.n
         /\ b.last <=> b.at + b.n = ThisPage.n
  <1>1. b.at \in Int /\ b.n \in Int
    BY DEF InBeat
  <1>2. QED
    BY <1>1 DEF Mine, Filled, ThisPage, ThisType

\* While the demultiplexer holds the page, the page's end is still to come.
LEMMA PlainToCome ==
  ASSUME TypeOK, PageConfsInv, StepInv, CountInv, SourceInv, PlainOn, "in_select" \in valid
  PROVE  AtDec \in Int /\ AtDec < ThisPage.n
  <1>1. /\ chunk \in DOMAIN work /\ FsmPage \in DOMAIN work[chunk].pages
        /\ ThisPage.kind = "PLAIN" /\ ThisPage.n \in Nat /\ PerBeat(ThisType) \in Nat \ {0}
    BY PageUnderWay DEF PlainOn
  <1>2. payload \in Seq(InBeat) /\ dec \in Seq(InBeat)
    BY DEF TypeOK, ParserTypeOK
  <1>3. CASE dec # <<>>
    <2>1. dec[1] \in InBeat /\ Mine(dec[1]) /\ Filled(dec[1])
      BY <1>2, <1>3 DEF SourceInv
    <2>2. AtDec = dec[1].at
      BY <1>3 DEF AtDec
    <2>3. QED
      BY <1>1, <2>1, <2>2, MineFilled
  <1>4. CASE dec = <<>> /\ payload # <<>>
    <2>1. payload[1] \in InBeat /\ Mine(payload[1]) /\ Filled(payload[1])
      BY <1>2, <1>4 DEF SourceInv
    <2>2. AtDec = payload[1].at
      BY <1>4 DEF AtDec, AtPayload
    <2>3. QED
      BY <1>1, <2>1, <2>2, MineFilled
  <1>5. CASE dec = <<>> /\ payload = <<>>
    <2>1. LastToCome
      BY <1>5 DEF StepInv, PagesInStep, Gone, LastBehind, LastBefore
    <2>2. ParserCounts
      BY DEF CountInv
    <2>3. parser.chunk = chunk /\ parser.page = FsmPage /\ parser.state = "PAYLOAD"
      BY <2>1, <2>2, ToComePlace DEF LastToCome
    <2> DEFINE beats == ThisPage.beats
               m == PerBeat(ThisType)
    <2>4. parser.sent < beats /\ parser.sent \in Nat
      BY <2>2, <2>3 DEF ParserCounts, ThisPage, TypeOK, ParserTypeOK, ParserRegs
    <2>5. beats \in Nat \ {0}
      BY <1>1, PageFields DEF ThisPage
    <2>6. (beats - 1) * m < ThisPage.n
      BY <1>1, PlainFields DEF ThisPage, ThisType
    <2>7. AtDec = parser.sent * m
      BY <1>5 DEF AtDec, AtPayload, AtParser
    <2> HIDE DEF beats, m
    <2>8. m \in Nat
      BY <1>1 DEF m
    <2>9. parser.sent * m \in Nat /\ parser.sent * m <= (beats - 1) * m /\ (beats - 1) * m \in Nat
      <3>1. beats - 1 \in Nat /\ parser.sent <= beats - 1
        BY <2>4, <2>5
      <3>2. QED
        BY <2>4, <2>8, <3>1, Product
    <2>10. QED
      BY <1>1, <2>6, <2>7, <2>9
  <1>6. QED
    BY <1>3, <1>4, <1>5

\* The first beat in the plain path is the last one only if nothing is behind it.
LEMMA PlainFirst ==
  ASSUME TypeOK, PageConfsInv, StepInv, CountInv, SourceInv, PlainInv, plain # <<>>
  PROVE  /\ PlainOn /\ plain[1] \in InBeat /\ plain \in Seq(InBeat)
         /\ Mine(plain[1]) /\ ThisPage.kind = "PLAIN"
         /\ plain[1].at = Given /\ plain[1].at \in Nat
         /\ plain[1].n \in Nat \ {0} /\ plain[1].n <= PerBeat(ThisType)
         /\ plain[1].at + plain[1].n <= ThisPage.n
         /\ plain[1].last <=> plain[1].at + plain[1].n = ThisPage.n
         /\ plain[1].last => Tail(plain) = <<>> /\ "in_select" \notin valid
         /\ Consecutive(Tail(plain), plain[1].at + plain[1].n, PlainEnd)
  <1>1. plain \in Seq(InBeat)
    BY DEF TypeOK, OutTypeOK
  <1>2. PlainOn /\ Consecutive(plain, Given, PlainEnd)
    BY DEF PlainInv
  <1>3. ThisPage.kind = "PLAIN" /\ ThisPage.n \in Nat
    BY <1>2, PageUnderWay DEF PlainOn
  <1>4. \A i \in DOMAIN plain : plain[i] \in InBeat /\ Mine(plain[i]) /\ Filled(plain[i])
    BY <1>1 DEF PlainInv
  <1>5. \A i \in DOMAIN plain :
          /\ plain[i].at \in Nat /\ plain[i].n \in Nat \ {0} /\ plain[i].n <= PerBeat(ThisType)
          /\ plain[i].at + plain[i].n <= ThisPage.n
          /\ plain[i].last <=> plain[i].at + plain[i].n = ThisPage.n
    BY <1>3, <1>4, MineFilled
  <1>6. 1 \in DOMAIN plain /\ Len(plain) \in Nat \ {0} /\ DOMAIN plain = 1..Len(plain)
    BY <1>1
  <1>7. Consecutive(Tail(plain), plain[1].at + plain[1].n, PlainEnd)
    BY <1>1, <1>2, ConsecutiveTail
  <1>8. ASSUME plain[1].last PROVE Tail(plain) = <<>>
    <2>1. SUFFICES ASSUME Tail(plain) # <<>> PROVE FALSE
      OBVIOUS
    <2>2. 2 \in DOMAIN plain /\ Tail(plain)[1] = plain[2]
      BY <1>1, <1>6, <2>1
    <2>3. plain[2].at = plain[1].at + plain[1].n
      BY <1>7, <2>1, <2>2 DEF Consecutive
    <2>4. plain[2].at = ThisPage.n
      BY <1>5, <1>6, <1>8, <2>3
    <2>5. QED
      BY <1>3, <1>5, <2>2, <2>4
  <1>9. ASSUME plain[1].last, "in_select" \in valid PROVE FALSE
    <2>1. plain[1].at + plain[1].n = PlainEnd
      BY <1>7, <1>8, <1>9 DEF Consecutive
    <2>2. PlainEnd = AtDec
      BY <1>9 DEF PlainEnd
    <2>3. AtDec < ThisPage.n /\ AtDec \in Int
      BY <1>2, <1>9, PlainToCome
    <2>4. plain[1].at + plain[1].n = ThisPage.n
      BY <1>5, <1>6, <1>9
    <2>5. QED
      BY <1>3, <2>1, <2>2, <2>3, <2>4
  <1>10. plain[1].at = Given
    BY DEF Given
  <1>11. QED
    BY <1>1, <1>2, <1>3, <1>4, <1>5, <1>6, <1>7, <1>8, <1>9, <1>10

\* Only the output multiplexer frees out_select.
LEMMA SelectFrame ==
  ASSUME System, ~FsmSteps, ~HybridOut, ~PlainOut
  PROVE  /\ data' = data /\ valid' \subseteq valid
         /\ "out_select" \in valid' <=> "out_select" \in valid
  <1>1. data' = data /\ valid' \subseteq valid
    BY FsmFrame DEF FsmSteps
  <1>2. CASE RewriteLastTake
    BY <1>1, <1>2 DEF RewriteLastTake, Consume
  <1>3. CASE ~RewriteLastTake
    BY <1>1, <1>3, CountFrame DEF FsmSteps
  <1>4. QED
    BY <1>1, <1>2, <1>3

\* Steps that leave the plain path and what is before it alone.
LEMMA PlainFrame ==
  ASSUME PlainInv, UNCHANGED <<work, chunk, parser, payload, dec, plain, data>>,
         FsmPage' = FsmPage,
         "in_select" \in valid' <=> "in_select" \in valid,
         "out_select" \in valid' <=> "out_select" \in valid
  PROVE  PlainInv' /\ Given' = Given /\ (PlainOn' <=> PlainOn)
  <1>1. ThisPage' = ThisPage /\ ThisType' = ThisType
    BY DEF ThisPage, ThisType
  <1>2. AtParser' = AtParser /\ AtPayload' = AtPayload /\ AtDec' = AtDec
    BY <1>1 DEF AtParser, AtPayload, AtDec
  <1>3. (PlainOn' <=> PlainOn) /\ PlainEnd' = PlainEnd /\ Given' = Given
    BY <1>1, <1>2 DEF PlainOn, PlainEnd, Given
  <1>4. Consecutive(plain, Given, PlainEnd)' <=> Consecutive(plain, Given, PlainEnd)
    BY <1>3 DEF Consecutive
  <1>5. QED
    BY <1>2, <1>3, <1>4 DEF PlainInv, Mine, Filled

\* Without a plain page under way there is nothing in the path.
LEMMA PlainOff ==
  ASSUME ~PlainOn', plain' = <<>>, "in_select" \in valid' => data'.in_select # "PLAIN"
  PROVE  PlainInv'
  <1>1. DOMAIN plain' = {}
    OBVIOUS
  <1>2. QED
    BY <1>1 DEF PlainInv

\* The parser's steps add to what is to come only behind what is there.
LEMMA AtDecStays ==
  ASSUME TypeOK, PageConfsInv, StepInv, CountInv, SourceInv, ParserSteps, PlainOn,
         "in_select" \in valid, FsmPage' = FsmPage
  PROVE  /\ AtDec' = AtDec /\ UNCHANGED <<work, chunk, dec, plain, valid, data>>
         /\ dec # <<>> /\ ~dec[1].last => AtPayload' = AtPayload
  <1>1. /\ parser \in ParserRegs /\ ParserCounts
        /\ (parser.conf => parser.state \in {"PAYLOAD", "FLUSH_CONF"})
    BY Places DEF CountInv
  <1>2. UNCHANGED <<work, chunk, dec, plain, valid, data>>
    BY DEF ParserSteps, ParserTakeConf, ParseHeader, EmitPayload, FlushConf, ParserUnchanged,
           fsm_vars, conf_vars
  <1>3. CASE ParserTakeConf \/ ParseHeader \/ FlushConf
    <2>1. parser.state # "PAYLOAD" /\ payload' = payload
      BY <1>3 DEF ParserTakeConf, ParseHeader, FlushConf
    <2>2. ~(dec # <<>> /\ dec[1].last) => payload # <<>>
      BY <2>1 DEF StepInv, PagesInStep, Gone, LastBehind, LastBefore, LastToCome
    <2>3. QED
      BY <1>2, <2>1, <2>2 DEF AtDec, AtPayload
  <1>4. CASE EmitPayload
    <2>1. payload = <<>> /\ payload' # <<>>
      BY <1>1, <1>4, EmitFacts
    <2>2. CASE dec # <<>> /\ dec[1].last
      BY <1>2, <2>2 DEF AtDec
    <2>3. CASE ~(dec # <<>> /\ dec[1].last)
      <3>1. LastToCome
        BY <2>1, <2>3 DEF StepInv, PagesInStep, Gone, LastBehind, LastBefore
      <3>2. parser.chunk = chunk /\ parser.page = FsmPage
        BY <1>1, <3>1, ToComePlace
      <3>3. ThisPage.kind = "PLAIN"
        BY PageUnderWay DEF PlainOn
      <3>4. payload'[1].at = parser.sent * PerBeat(ThisType)
        BY <1>1, <1>4, <3>2, <3>3, EmitFacts DEF ThisPage, ThisType
      <3>5. AtPayload' = AtPayload
        BY <2>1, <3>4 DEF AtPayload, AtParser
      <3>6. QED
        BY <1>2, <3>5 DEF AtDec
    <2>4. QED
      BY <1>2, <2>2, <2>3
  <1>5. QED
    BY <1>2, <1>3, <1>4 DEF ParserSteps

LEMMA PlainParserStep ==
  ASSUME TypeOK, PageConfsInv, StepInv, CountInv, SourceInv, PlainInv, ParserSteps,
         chunk > 0 => FsmPage' = FsmPage
  PROVE  PlainInv' /\ (PlainOn' <=> PlainOn) /\ (PlainOn => Given' = Given)
  <1>1. UNCHANGED <<work, chunk, dec, plain, valid, data>>
    BY DEF ParserSteps, ParserTakeConf, ParseHeader, EmitPayload, FlushConf, ParserUnchanged,
           fsm_vars, conf_vars
  <1>2. CASE ~PlainOn
    <2>1. plain = <<>> /\ ("in_select" \in valid => data.in_select # "PLAIN")
      BY <1>2 DEF PlainInv
    <2>2. ~PlainOn'
      BY <1>1, <1>2 DEF PlainOn
    <2>3. QED
      BY <1>1, <1>2, <2>1, <2>2, PlainOff
  <1>3. CASE PlainOn
    <2>1. chunk > 0
      BY <1>3, PageUnderWay DEF PlainOn
    <2>2. FsmPage' = FsmPage /\ ThisPage' = ThisPage
      BY <1>1, <2>1 DEF ThisPage
    <2>3. CASE "in_select" \in valid
      <3>1. AtDec' = AtDec /\ (dec # <<>> /\ ~dec[1].last => AtPayload' = AtPayload)
        BY <1>3, <2>2, <2>3, AtDecStays
      <3>2. PlainEnd' = PlainEnd /\ Given' = Given /\ PlainOn'
        BY <1>1, <1>3, <2>2, <3>1 DEF PlainEnd, Given, PlainOn
      <3>3. Consecutive(plain, Given, PlainEnd)'
        BY <1>1, <1>3, <3>2 DEF PlainInv, Consecutive
      <3>4. QED
        BY <1>1, <1>3, <2>2, <3>1, <3>2, <3>3 DEF PlainInv, Mine, Filled
    <2>4. CASE "in_select" \notin valid
      <3>1. PlainEnd' = PlainEnd /\ Given' = Given /\ PlainOn'
        BY <1>1, <1>3, <2>2, <2>4 DEF PlainEnd, Given, PlainOn
      <3>2. Consecutive(plain, Given, PlainEnd)'
        BY <1>1, <1>3, <3>1 DEF PlainInv, Consecutive
      <3>3. QED
        BY <1>1, <1>3, <2>2, <2>4, <3>1, <3>2 DEF PlainInv, Mine, Filled
    <2>5. QED
      BY <2>3, <2>4
  <1>4. QED
    BY <1>2, <1>3

\* The FSM takes a plain page, of which nothing has come through yet.
LEMMA PlainTakeStep ==
  ASSUME TypeOK, PageConfsInv, StepInv, CountInv, SourceInv, PlainInv, TakePageConf
  PROVE  PlainInv' /\ (PlainOn' => Given' = 0) /\ (PlainOn' <=> PageConf.kind = "PLAIN")
  <1>1. ParserCounts
    BY DEF CountInv
  <1>2. /\ FsmPage' = parser.page /\ parser.chunk = chunk /\ chunk \in DOMAIN work
        /\ parser.page \in DOMAIN work[chunk].pages /\ parser.conf
        /\ PageConf.kind = work[chunk].pages[parser.page].kind
        /\ parser' = [parser EXCEPT !.conf = FALSE] /\ parser \in ParserRegs
        /\ UNCHANGED <<work, chunk, payload, dec, plain>>
    BY <1>1, FsmPageAtPage DEF TakePageConf, TypeOK, ParserTypeOK
  <1>3. "in_select" \notin valid /\ "out_select" \notin valid
    BY DEF TakePageConf, PageConfsInv, PageConfsConsumed
  <1>4. plain = <<>> /\ dec = <<>> /\ ParserAhead
    BY <1>3 DEF PlainInv, PlainOn, StepInv, PagesInStep, Gone, LastBehind, LastBefore, LastToCome
  <1>5. PageConf.kind \in PageKind
    BY <1>2, PageFields
  <1>6. CASE PageConf.kind # "PLAIN"
    <2>1. data'.in_select # "PLAIN" /\ ~PlainOn'
      <3>1. CASE PageConf.kind = "HYBRID"
        BY <1>1, <3>1, DriveHybrid DEF PlainOn
      <3>2. CASE PageConf.kind = "DICT"
        BY <1>1, <1>3, <3>2, DriveDict DEF PlainOn
      <3>3. QED
        BY <1>5, <1>6, <3>1, <3>2 DEF PageKind
    <2>2. QED
      BY <1>2, <1>4, <1>6, <2>1, PlainOff
  <1>7. CASE PageConf.kind = "PLAIN"
    <2>1. PlainOn' /\ "in_select" \in valid'
      BY <1>1, <1>7, DrivePlain DEF PlainOn
    <2>2. Given' = AtPayload' /\ PlainEnd' = Given'
      BY <1>2, <1>4, <2>1 DEF Given, PlainEnd, AtDec
    <2>3. AtPayload' = 0
      <3>1. CASE payload # <<>>
        <4>1. Ahead(payload[1])
          BY <1>4, <3>1 DEF ParserAhead
        <4>2. payload[1].at = 0
          BY <1>2, <1>7, <3>1, <4>1 DEF SourceInv
        <4>3. QED
          BY <1>2, <3>1, <4>2 DEF AtPayload
      <3>2. CASE payload = <<>>
        <4>1. parser.sent = 0
          BY <1>2, <3>2 DEF SourceInv
        <4>2. parser'.sent = 0
          BY <1>2, <4>1 DEF ParserRegs
        <4>3. PerBeat(ThisType)' = PerBeat(work[chunk].typ) /\ PerBeat(work[chunk].typ) \in Nat
          BY <1>2, WorkFields, PerBeatPos DEF ThisType, PerBeat
        <4>4. 0 * PerBeat(work[chunk].typ) = 0
          BY <4>3
        <4>5. QED
          BY <1>2, <3>2, <4>2, <4>3, <4>4 DEF AtPayload, AtParser
      <3>3. QED
        BY <3>1, <3>2
    <2>4. Consecutive(plain, Given, PlainEnd)'
      BY <1>2, <1>4, <2>2 DEF Consecutive
    <2>5. QED
      BY <1>2, <1>4, <1>7, <2>1, <2>2, <2>3, <2>4 DEF PlainInv
  <1>8. QED
    BY <1>6, <1>7

\* A beat goes into the plain path behind those that are there.
LEMMA PlainInStep ==
  ASSUME TypeOK, PageConfsInv, StepInv, CountInv, SourceInv, PlainInv, PlainIn
  PROVE  PlainInv' /\ PlainOn /\ PlainOn' /\ Given' = Given
  <1>1. /\ dec # <<>> /\ "in_select" \in valid /\ data.in_select = "PLAIN"
        /\ plain' = Append(plain, Head(dec)) /\ TakeOffered({})
    BY DEF PlainIn, Offered
  <1>2. /\ UNCHANGED <<work, fsm_vars, data, parser, payload>> /\ dec' = Tail(dec)
        /\ IF Head(dec).last THEN "in_select" \notin valid' ELSE valid' = valid
    BY DecTakenFrame DEF DecTaken
  <1>3. PICK b : b = dec[1]
    OBVIOUS
  <1>4. dec' = <<>> /\ Head(dec) = b /\ b \in InBeat /\ plain \in Seq(InBeat)
    BY <1>1, <1>2, <1>3, OneBeat DEF TypeOK, ParserTypeOK, OutTypeOK, StepInv, PagesInStep
  <1>5. PlainOn /\ Mine(b) /\ Filled(b) /\ (~b.last => b.at + b.n = AtPayload)
    BY <1>1, <1>3 DEF PlainInv, SourceInv
  <1>6. PlainOn'
    BY <1>1, <1>2, <1>5 DEF PlainOn, TakeOffered, Consume
  <1>7. /\ FsmPage' = FsmPage /\ ThisPage' = ThisPage /\ ThisType' = ThisType
        /\ UNCHANGED <<work, chunk, parser, payload>>
    BY <1>2, FsmPageFrame DEF fsm_vars
  <1>8. ThisPage.kind = "PLAIN" /\ (b.last => b.at + b.n = ThisPage.n)
    <2>1. ThisPage.kind = "PLAIN"
      BY <1>5, PageUnderWay DEF PlainOn
    <2>2. QED
      BY <1>4, <1>5, <2>1, MineFilled
  <1>9. PlainEnd = b.at /\ Consecutive(plain, Given, b.at)
    BY <1>1, <1>3, <1>5 DEF PlainEnd, AtDec, PlainInv
  <1>10. Consecutive(plain', Given, b.at + b.n)
    BY <1>1, <1>4, <1>9, ConsecutiveAppend
  <1>11. PlainEnd' = b.at + b.n
    <2>1. CASE b.last
      BY <1>2, <1>4, <1>7, <1>8, <2>1 DEF PlainEnd
    <2>2. CASE ~b.last
      <3>1. AtPayload' = AtPayload
        BY <1>7 DEF AtPayload, AtParser
      <3>2. QED
        BY <1>1, <1>2, <1>4, <1>5, <2>2, <3>1 DEF PlainEnd, AtDec
    <2>3. QED
      BY <2>1, <2>2
  <1>12. plain' # <<>> /\ Len(plain') = Len(plain) + 1 /\ plain' \in Seq(InBeat)
         /\ \A i \in DOMAIN plain' : (i \in DOMAIN plain /\ plain'[i] = plain[i]) \/ plain'[i] = b
    BY <1>1, <1>4
  <1>13. Given' = Given
    BY <1>10, <1>12 DEF Given, Consecutive
  <1>14. Consecutive(plain, Given, PlainEnd)'
    BY <1>10, <1>11, <1>13 DEF Consecutive
  <1>15. \A i \in DOMAIN plain' : Mine(plain'[i]) /\ Filled(plain'[i])
    BY <1>5, <1>12 DEF PlainInv
  <1>16. \A i \in DOMAIN plain' : Mine(plain[i])' /\ Filled(plain[i])'
    BY <1>7, <1>15 DEF Mine, Filled
  <1>17. QED
    BY <1>4, <1>5, <1>6, <1>13, <1>14, <1>16 DEF PlainInv

\* A beat leaves the plain path.
LEMMA PlainOutStep ==
  ASSUME TypeOK, PageConfsInv, StepInv, CountInv, SourceInv, PlainInv, PlainOut
  PROVE  /\ PlainInv' /\ plain # <<>> /\ UNCHANGED <<work, fsm_vars, data, stream_vars>>
         /\ ~PlainOn' <=> plain[1].last
         /\ PlainOn' => Given' = plain[1].at + plain[1].n
  <1>1. /\ plain # <<>> /\ plain' = Tail(plain) /\ {"plain_type", "out_select"} \subseteq valid
        /\ data.out_select = "PLAIN"
    BY DEF PlainOut, PlainAtMux
  <1>2. /\ UNCHANGED <<work, fsm_vars, data, stream_vars>>
        /\ ("in_select" \in valid' <=> "in_select" \in valid)
        /\ state = "PROCESS_PAGE"
        /\ "out_select" \in valid' <=> ~plain[1].last
    <2>1. state = "PROCESS_PAGE"
      BY <1>1 DEF PageConfsInv, PageConfsConsumed
    <2>2. /\ UNCHANGED <<work, fsm_vars, in_vars, dec>>
          /\ NormalizeAccept(PlainBeat, IF PlainBeat.last THEN {"out_select", "plain_type"} ELSE {})
      BY DEF PlainOut
    <2>3. PlainBeat.last = plain[1].last
      BY DEF PlainBeat
    <2>4. Watched = Confs /\ {"in_select", "out_select"} \subseteq Confs
      BY <2>1 DEF Watched, Confs
    <2> HIDE DEF PlainOut
    <2>5. QED
      BY <1>1, <2>1, <2>2, <2>3, <2>4 DEF NormalizeAccept, Consume, stream_vars, in_vars
  <1>3. /\ PlainOn /\ plain \in Seq(InBeat) /\ ThisPage.kind = "PLAIN"
        /\ plain[1].last => Tail(plain) = <<>> /\ "in_select" \notin valid
        /\ Consecutive(Tail(plain), plain[1].at + plain[1].n, PlainEnd)
    BY <1>1, PlainFirst
  <1>4. /\ FsmPage' = FsmPage /\ ThisPage' = ThisPage /\ ThisType' = ThisType
        /\ UNCHANGED <<work, chunk, parser, payload, dec, data>>
    BY <1>2, FsmPageFrame DEF fsm_vars, stream_vars
  <1>5. PlainOn' <=> ~plain[1].last
    BY <1>1, <1>2 DEF PlainOn
  <1>6. CASE plain[1].last
    BY <1>1, <1>2, <1>3, <1>5, <1>6, PlainOff
  <1>7. CASE ~plain[1].last
    <2>1. PlainEnd' = PlainEnd /\ AtPayload' = AtPayload
      BY <1>2, <1>4 DEF PlainEnd, AtDec, AtPayload, AtParser
    <2>2. Given' = plain[1].at + plain[1].n
      BY <1>1, <1>3, <2>1 DEF Given, Consecutive
    <2>3. Consecutive(plain, Given, PlainEnd)'
      BY <1>1, <1>3, <2>1, <2>2 DEF Consecutive
    <2>4. \A i \in DOMAIN plain' : i + 1 \in DOMAIN plain /\ plain'[i] = plain[i + 1]
      BY <1>1, <1>3
    <2>5. \A i \in DOMAIN plain' : Mine(plain[i])' /\ Filled(plain[i])'
      BY <1>4, <2>4 DEF PlainInv, Mine, Filled
    <2>6. "in_select" \in valid' /\ data'.in_select = "PLAIN" =>
            (dec' # <<>> /\ ~dec'[1].last => dec'[1].at + dec'[1].n = AtPayload')
      BY <1>2, <1>4, <2>1 DEF PlainInv
    <2>7. QED
      BY <1>1, <1>2, <1>5, <1>7, <2>2, <2>3, <2>5, <2>6 DEF PlainInv
  <1>8. QED
    BY <1>1, <1>2, <1>5, <1>6, <1>7

\* The other steps move no value in the plain path.
LEMMA PlainStays ==
  ASSUME TypeOK, PageConfsInv, StepInv, CountInv, SourceInv, PlainInv, [Next]_vars,
         ~TakeChunkConf, ~TakePageConf, ~PlainOut
  PROVE  PlainInv' /\ (PlainOn' <=> PlainOn) /\ (PlainOn => Given' = Given)
  <1>1. /\ UNCHANGED <<work, chunk, data>> /\ valid' \subseteq valid
        /\ chunk > 0 => FsmPage' = FsmPage
    BY FsmPageStays DEF CountInv
  <1>2. ASSUME ~PlainOn, plain' = <<>>
        PROVE  PlainInv' /\ ~PlainOn'
    <2>1. ~PlainOn' /\ ("in_select" \in valid' => data'.in_select # "PLAIN")
      BY <1>1, <1>2 DEF PlainOn, PlainInv
    <2>2. QED
      BY <1>2, <2>1, PlainOff
  <1>3. CASE FinishPage
    <2>1. UNCHANGED <<work, chunk, parser, payload, dec, plain, data, valid>>
          /\ state = "PROCESS_PAGE"
      BY <1>3 DEF FinishPage, in_vars, conf_vars
    <2>2. chunk > 0
      BY <2>1, Places
    <2>3. QED
      BY <1>1, <2>1, <2>2, PlainFrame
  <1>4. CASE ParserSteps
    BY <1>1, <1>4, PlainParserStep
  <1>5. CASE Decompress
    <2>1. /\ payload # <<>> /\ "decompressor_conf" \in valid /\ Len(dec) < 1
          /\ dec' = Append(dec, Head(payload)) /\ payload' = Tail(payload)
          /\ UNCHANGED <<work, fsm_vars, valid, data, parser, plain>>
      BY <1>5 DEF Decompress, conf_vars
    <2>2. "in_select" \in valid
      BY <2>1 DEF StepInv, PagesInStep
    <2>3. PICK b : b = payload[1]
      OBVIOUS
    <2>4. dec = <<>> /\ Head(payload) = b /\ payload' = <<>>
      BY <2>1, <2>3, OneBeat DEF TypeOK, ParserTypeOK, StepInv, PagesInStep
    <2>5. dec' # <<>> /\ dec'[1] = b
      BY <2>1, <2>4, FirstBeat
    <2>6. Mine(b)
      BY <2>1, <2>2, <2>3, <2>4 DEF SourceInv
    <2>7. /\ FsmPage' = FsmPage /\ ThisPage' = ThisPage /\ ThisType' = ThisType
          /\ UNCHANGED <<work, chunk, parser, plain, valid, data>>
      BY <2>1, FsmPageFrame DEF fsm_vars
    <2>8. AtDec' = AtDec
      BY <2>1, <2>3, <2>4, <2>5 DEF AtDec, AtPayload
    <2>9. PlainEnd' = PlainEnd /\ Given' = Given /\ (PlainOn' <=> PlainOn)
      BY <2>7, <2>8 DEF PlainEnd, Given, PlainOn
    <2>10. Consecutive(plain, Given, PlainEnd)' <=> Consecutive(plain, Given, PlainEnd)
      BY <2>7, <2>9 DEF Consecutive
    <2>11. ASSUME "in_select" \in valid, data.in_select = "PLAIN", ~b.last
           PROVE  b.at + b.n = AtPayload'
      <3>1. ThisPage.kind = "PLAIN"
        BY <2>11, PageUnderWay
      <3>2. b.at + b.n = parser.sent * PerBeat(work[b.c].typ)
        BY <2>1, <2>3, <2>6, <2>11, <3>1 DEF SourceInv, Mine, ThisPage
      <3>3. AtPayload' = parser.sent * PerBeat(ThisType')
        BY <2>4, <2>7 DEF AtPayload, AtParser, PerBeat
      <3>4. QED
        BY <2>6, <2>7, <3>2, <3>3 DEF Mine, ThisType
    <2>12. \A i \in DOMAIN plain : (Mine(plain[i])' <=> Mine(plain[i])) /\ (Filled(plain[i])' <=> Filled(plain[i]))
      BY <2>7 DEF Mine, Filled
    <2>13. QED
      BY <2>5, <2>7, <2>9, <2>10, <2>11, <2>12 DEF PlainInv
  <1>6. CASE PlainIn
    BY <1>6, PlainInStep
  <1>7. CASE HpdTakeBeat \/ HpdDrain \/ DictLoad
    <2>1. "in_select" \in valid /\ data.in_select # "PLAIN" /\ plain' = plain
      BY <1>7 DEF HpdTakeBeat, HpdDrain, DictLoad, Offered, HpdUnchanged
    <2>2. ~PlainOn
      BY <2>1, PageUnderWay DEF PlainOn
    <2>3. plain = <<>>
      BY <2>2 DEF PlainInv
    <2>4. QED
      BY <1>2, <2>1, <2>2, <2>3
  <1>8. CASE HybridOut
    <2>1. ~PlainOn /\ plain' = plain
      BY <1>8 DEF HybridOut, HybridAtMux, PlainOn
    <2>2. QED
      BY <1>2, <2>1 DEF PlainInv
  <1>9. CASE System /\ ~FsmSteps /\ ~ParserSteps /\ ~Decompress /\ ~DecTaken /\ ~HybridOut
    <2>1. /\ UNCHANGED <<work, fsm_vars, data, stream_vars>>
          /\ \A c \in {"in_select", "decompressor_conf"} : c \in valid' <=> c \in valid
      BY <1>9, StreamFrame
    <2>2. "out_select" \in valid' <=> "out_select" \in valid
      BY <1>9, SelectFrame
    <2>3. plain' = plain
      BY <1>9 DEF System, FsmSteps, ParserSteps, DecTaken, HpdTakeConf, HpdProcessFirstDatabeat,
           HpdDummy, HpdEmit, HpdUnchanged, DictLookup, RewriteLastTake, NormalizeGate, Deliver
    <2>4. FsmPage' = FsmPage /\ UNCHANGED <<work, chunk, parser, payload, dec>>
      BY <2>1, FsmPageFrame DEF fsm_vars, stream_vars
    <2>5. QED
      BY <2>1, <2>2, <2>3, <2>4, PlainFrame
  <1>10. CASE UNCHANGED vars
    <2>1. UNCHANGED <<work, state, last_page, chunk, parser, payload, dec, plain, data, valid>>
      BY <1>10 DEF vars, in_vars, conf_vars, fsm_vars
    <2>2. FsmPage' = FsmPage
      BY <2>1, FsmPageFrame
    <2>3. QED
      BY <2>1, <2>2, PlainFrame
  <1>11. QED
    BY <1>3, <1>4, <1>5, <1>6, <1>7, <1>8, <1>9, <1>10 DEF Next, Done, FsmSteps, DecTaken

LEMMA PlainStep ==
  ASSUME TypeOK, PageConfsInv, StepInv, CountInv, SourceInv, PlainInv, [Next]_vars
  PROVE  PlainInv'
  <1>1. CASE TakeChunkConf
    <2>1. /\ state = "IDLE" /\ plain' = plain /\ valid' = valid \cup {"num_values"}
      BY <1>1 DEF TakeChunkConf
    <2>2. valid \subseteq {"num_values"}
      BY <2>1 DEF PageConfsInv, PageConfsConsumed
    <2>3. ~PlainOn /\ ~PlainOn' /\ "in_select" \notin valid'
      BY <2>1, <2>2 DEF PlainOn
    <2>4. plain' = <<>>
      BY <2>1, <2>3 DEF PlainInv
    <2>5. QED
      BY <2>3, <2>4, PlainOff
  <1>2. QED
    BY <1>1, PlainTakeStep, PlainOutStep, PlainStays

-----------------------------------------------------------------------------
(* The hybrid path.                                                        *)

LEMMA FirstIn ==
  ASSUME NEW S, NEW q \in Seq(S), q # <<>>
  PROVE  q[1] \in S /\ 1 \in DOMAIN q /\ Len(q) \in Nat \ {0}
OBVIOUS

LEMMA NoneLeft ==
  ASSUME NEW a \in Nat, NEW b \in Nat, NEW c \in Nat, NEW d \in Nat, a + b + c + d = 0
  PROVE  a = 0 /\ b = 0 /\ c = 0 /\ d = 0
OBVIOUS

\* What its registers can hold.
LEMMA HybridRegs ==
  ASSUME TypeOK
  PROVE  /\ hpd \in HpdRegs /\ hpd.n \in Nat /\ hpd.at \in Nat /\ hpd.last \in BOOLEAN
         /\ data \in DataType /\ data.hybrid_conf.n \in Nat /\ data.hybrid_conf.keep \in BOOLEAN
         /\ data.hybrid_conf.last \in BOOLEAN /\ data.hybrid_num_values \in Nat
         /\ ids \in Seq(IdBeat) /\ looked \in Seq(DictIds) /\ rw \in Int
         /\ ids # <<>> => ids[1] \in IdBeat /\ ids[1].n \in Nat /\ ids[1].at \in Nat
                          /\ ids[1].last \in BOOLEAN
         /\ looked # <<>> => looked[1] \in DictIds /\ looked[1].n \in Nat /\ looked[1].at \in Nat
         /\ ConfLeft \in Nat /\ IdsLeft \in Nat /\ LookedLeft \in Nat
  <1>1. hpd \in HpdRegs /\ data \in DataType /\ ids \in Seq(IdBeat) /\ looked \in Seq(DictIds)
        /\ rw \in Int
    BY DEF TypeOK, FsmTypeOK, HybridTypeOK
  <1>2. hpd.n \in Nat /\ hpd.at \in Nat /\ hpd.last \in BOOLEAN
    BY <1>1 DEF HpdRegs
  <1>3. /\ data.hybrid_conf.n \in Nat /\ data.hybrid_conf.keep \in BOOLEAN
        /\ data.hybrid_conf.last \in BOOLEAN /\ data.hybrid_num_values \in Nat
    BY <1>1 DEF DataType
  <1>4. ids # <<>> => ids[1] \in IdBeat /\ ids[1].n \in Nat /\ ids[1].at \in Nat
                      /\ ids[1].last \in BOOLEAN
    <2>1. ids # <<>> => ids[1] \in IdBeat
      BY <1>1, FirstIn
    <2>2. QED
      BY <2>1 DEF IdBeat
  <1>5. looked # <<>> => looked[1] \in DictIds /\ looked[1].n \in Nat /\ looked[1].at \in Nat
    <2>1. looked # <<>> => looked[1] \in DictIds
      BY <1>1, FirstIn
    <2>2. QED
      BY <2>1 DEF DictIds
  <1>6. ConfLeft \in Nat /\ IdsLeft \in Nat /\ LookedLeft \in Nat
    BY <1>3, <1>4, <1>5 DEF ConfLeft, IdsLeft, LookedLeft
  <1>7. QED
    BY <1>1, <1>2, <1>3, <1>4, <1>5, <1>6

\* No value is in the path but those of the page it is working on.
LEMMA HybridRest ==
  ASSUME TypeOK, HybridInv, ~HybridOn
  PROVE  /\ hpd.n = 0 /\ hpd.state \notin {"WAIT", "PIPE"}
         /\ ConfLeft = 0 /\ IdsLeft = 0 /\ looked = <<>>
         /\ ids # <<>> => ids[1].n = 0 /\ ids[1].last
  <1>1. hpd.n \in Nat /\ ConfLeft \in Nat /\ IdsLeft \in Nat /\ LookedLeft \in Nat
    BY HybridRegs
  <1>2. ConfLeft + hpd.n + IdsLeft + LookedLeft = 0
    BY DEF HybridInv, HybridLeft
  <1>3. hpd.n = 0 /\ ConfLeft = 0 /\ IdsLeft = 0 /\ LookedLeft = 0
    BY <1>1, <1>2, NoneLeft
  <1>4. looked = <<>>
    BY <1>3 DEF LookedLeft, HybridInv, LookedWell
  <1>5. ids # <<>> => ids[1].n = 0 /\ ids[1].last
    BY <1>3 DEF IdsLeft, HybridInv, IdsWell
  <1>6. QED
    BY <1>3, <1>4, <1>5 DEF HybridInv, HpdWell

\* A step that brings nothing into the empty path leaves it empty.
LEMMA HybridQuiet ==
  ASSUME TypeOK, HybridInv, ~HybridOn, ~HybridOn', "hybrid_conf" \notin valid',
         UNCHANGED <<hpd, ids, looked>>
  PROVE  HybridInv'
  <1>1. /\ hpd.n = 0 /\ hpd.state \notin {"WAIT", "PIPE"} /\ IdsLeft = 0 /\ looked = <<>>
        /\ ids # <<>> => ids[1].n = 0 /\ ids[1].last
    BY HybridRest
  <1>2. Len(ids) <= 1 /\ Len(looked) <= 1 /\ (hpd.state = "DUMMY" => ids = <<>>)
    BY DEF HybridInv, HpdWell, IdsWell, LookedWell
  <1>3. HybridLeft' = 0 /\ ConfLeft' = 0 /\ IdsLeft' = 0 /\ LookedLeft' = 0
    BY <1>1 DEF HybridLeft, ConfLeft, IdsLeft, LookedLeft
  <1>4. HpdWell' /\ IdsWell' /\ LookedWell'
    BY <1>1, <1>2 DEF HpdWell, IdsWell, LookedWell
  <1>5. QED
    BY <1>1, <1>3, <1>4 DEF HybridInv

\* Steps that leave the path alone.
LEMMA HybridFrame ==
  ASSUME TypeOK, HybridInv,
         UNCHANGED <<work, chunk, data, last_page, hpd, ids, looked, rw>>,
         HybridOn' <=> HybridOn, HybridOn => FsmPage' = FsmPage,
         \A c \in {"hybrid_conf", "hybrid_num_values"} : c \in valid' <=> c \in valid
  PROVE  HybridInv' /\ HybridLeft' = HybridLeft
  <1>1. HybridLeft' = HybridLeft
    BY DEF HybridLeft
  <1>2. CASE ~HybridOn
    <2>1. hpd.n = 0 /\ IdsLeft = 0 /\ looked = <<>> /\ hpd.state \notin {"WAIT", "PIPE"}
          /\ (ids # <<>> => ids[1].n = 0)
      BY <1>2, HybridRest
    <2>2. IdsLeft' = IdsLeft /\ ConfLeft' = ConfLeft /\ LookedLeft' = LookedLeft
      BY DEF IdsLeft, ConfLeft, LookedLeft
    <2>3. HpdWell' /\ IdsWell' /\ LookedWell'
      BY <2>1, <2>2 DEF HybridInv, HpdWell, IdsWell, LookedWell
    <2>4. QED
      BY <1>1, <2>2, <2>3 DEF HybridInv
  <1>3. CASE HybridOn
    <2>1. FsmPage' = FsmPage /\ ThisPage' = ThisPage /\ ThisType' = ThisType
      BY <1>3 DEF ThisPage, ThisType
    <2>2. IdsLeft' = IdsLeft /\ ConfLeft' = ConfLeft /\ LookedLeft' = LookedLeft
      BY DEF IdsLeft, ConfLeft, LookedLeft
    <2>3. HpdWell' /\ IdsWell' /\ LookedWell'
      BY <2>1, <2>2 DEF HybridInv, HpdWell, IdsWell, LookedWell, Mine
    <2>4. QED
      BY <1>1, <2>2, <2>3 DEF HybridInv
  <1>4. QED
    BY <1>2, <1>3

LEMMA DictFrame ==
  ASSUME DictInv, UNCHANGED <<work, chunk, data, dict_seen, hpd, ids, dict>>,
         Finishing' <=> Finishing,
         \A c \in {"dict_type", "hybrid_conf"} : c \in valid' <=> c \in valid
  PROVE  DictInv'
  <1>1. (Unloading' <=> Unloading) /\ (Serving' <=> Serving) /\ (Loaded' <=> Loaded)
        /\ IdsLeft' = IdsLeft
    BY DEF Unloading, Serving, Loaded, ThisType, IdsLeft
  <1>2. QED
    BY <1>1 DEF DictInv

\* A chunk begins with the path empty and the dictionary of the last chunk unloaded, or
\* about to be.
LEMMA HybridChunk ==
  ASSUME TypeOK, PageConfsInv, StepInv, CountInv, HybridInv, DictInv, TakeChunkConf
  PROVE  HybridInv' /\ DictInv' /\ HybridLeft = 0 /\ HybridLeft' = 0
  <1>1. /\ state = "IDLE" /\ valid \subseteq {"num_values"} /\ valid' = valid \cup {"num_values"}
        /\ UNCHANGED <<hpd, ids, looked, dict, rw>> /\ dict_seen' = FALSE
    BY DEF TakeChunkConf, hyb_vars, PageConfsInv, PageConfsConsumed
  <1>2. ~HybridOn /\ ~HybridOn' /\ "hybrid_conf" \notin valid' /\ "hybrid_conf" \notin valid
    BY <1>1 DEF HybridOn
  <1>3. HybridLeft = 0 /\ HybridLeft' = 0
    BY <1>2 DEF HybridLeft
  <1>4. hpd.n = 0 /\ IdsLeft = 0 /\ IdsLeft' = IdsLeft
    BY <1>1, <1>2, HybridRest DEF IdsLeft
  <1>5. HybridInv'
    BY <1>1, <1>2, HybridQuiet
  <1>6. (Unloading' <=> Unloading) /\ (Serving' <=> Serving)
    BY <1>1, <1>2 DEF Unloading, Serving
  <1>7. ~Serving
    BY <1>1 DEF DictInv, Finishing
  <1>8. DictInv'
    <2>1. hpd'.n = 0 /\ IdsLeft' = 0 /\ dict' = dict
      BY <1>1, <1>4
    <2>2. QED
      BY <1>1, <1>2, <1>6, <1>7, <2>1 DEF DictInv
  <1>9. QED
    BY <1>3, <1>5, <1>8

\* What the FSM finds when it takes a page: an empty path, and, if the chunk's dictionary
\* is still to be used, no `last` on the way to it.
LEMMA HybridBeforePage ==
  ASSUME TypeOK, PageConfsInv, StepInv, CountInv, HybridInv, DictInv, TakePageConf
  PROVE  /\ ~HybridOn /\ HybridLeft = 0 /\ "hybrid_conf" \notin valid /\ "dict_type" \notin valid
         /\ hpd.n = 0 /\ IdsLeft = 0 /\ looked = <<>> /\ hpd.state \notin {"WAIT", "PIPE"}
         /\ ~Finishing /\ (Finishing' <=> PageConf.last) /\ PageConf.last \in BOOLEAN
         /\ UNCHANGED <<work, chunk, hpd, ids, looked, dict, rw>>
         /\ Serving <=> dict_seen
         /\ dict_seen => Loaded /\ hpd.state # "DUMMY" /\ ids = <<>>
         /\ rw = 0 /\ dict_seen \in BOOLEAN
  <1>1. /\ state = "CONFIGURED" /\ valid \subseteq {"num_values"}
        /\ UNCHANGED <<work, chunk, hpd, ids, looked, dict, rw>>
    BY DEF TakePageConf, hyb_vars, PageConfsInv, PageConfsConsumed
  <1>2. ~HybridOn /\ "hybrid_conf" \notin valid /\ "dict_type" \notin valid /\ HybridLeft = 0
    BY <1>1 DEF HybridOn, HybridLeft
  <1>3. /\ hpd.n = 0 /\ IdsLeft = 0 /\ looked = <<>> /\ hpd.state \notin {"WAIT", "PIPE"}
        /\ ids # <<>> => ids[1].last
    BY <1>2, HybridRest
  <1>4. ~Finishing /\ (Finishing' <=> PageConf.last) /\ PageConf.last \in BOOLEAN
    BY FsmPageAtPage DEF CountInv
  <1>5. dict_seen \in BOOLEAN
    BY DEF TypeOK, FsmTypeOK
  <1>6. Serving <=> dict_seen
    BY <1>2, <1>4, <1>5 DEF DictInv
  <1>7. dict_seen => Loaded
    BY <1>6 DEF DictInv
  <1>8. dict_seen => hpd.state # "DUMMY" /\ ids = <<>>
    BY <1>3, <1>6 DEF Serving, Unloading
  <1>9. rw = 0
    BY <1>1 DEF PageConfsInv, CountNeedsSelect
  <1>10. QED
    BY <1>1, <1>2, <1>3, <1>4, <1>5, <1>6, <1>7, <1>8, <1>9

LEMMA HybridPage ==
  ASSUME TypeOK, PageConfsInv, StepInv, CountInv, HybridInv, DictInv, TakePageConf
  PROVE  /\ HybridInv' /\ DictInv' /\ HybridLeft = 0
         /\ HybridLeft' = (IF PageConf.kind = "HYBRID" THEN PageConf.n ELSE 0)
  <1>1. /\ ~HybridOn /\ HybridLeft = 0 /\ "hybrid_conf" \notin valid /\ "dict_type" \notin valid
        /\ hpd.n = 0 /\ IdsLeft = 0 /\ looked = <<>> /\ hpd.state \notin {"WAIT", "PIPE"}
        /\ ~Finishing /\ (Finishing' <=> PageConf.last) /\ PageConf.last \in BOOLEAN
        /\ UNCHANGED <<work, chunk, hpd, ids, looked, dict, rw>>
        /\ Serving <=> dict_seen
        /\ dict_seen => Loaded /\ hpd.state # "DUMMY" /\ ids = <<>>
        /\ rw = 0 /\ dict_seen \in BOOLEAN
    BY HybridBeforePage
  <1>2. /\ FsmPage' = parser.page /\ FsmPage = parser.page - 1 /\ parser.chunk = chunk
        /\ parser.page \in DOMAIN work[chunk].pages /\ chunk \in DOMAIN work /\ chunk > 0
        /\ PageConf.kind = work[chunk].pages[parser.page].kind
        /\ PageConf.n = work[chunk].pages[parser.page].n
        /\ (last_page' <=> PageConf.last)
    BY FsmPageAtPage DEF CountInv
  <1>3. /\ PageConf.kind \in PageKind /\ PageConf.n \in Nat \ {0} /\ parser.page \in Nat \ {0}
        /\ PageConf.kind = "DICT" => parser.page = 1
        /\ PageConf.kind = "HYBRID" => parser.page # 1 /\ work[chunk].pages[1].kind = "DICT"
    BY <1>2, PageFields, KindPlaces
  <1>4. IdsLeft' = 0 /\ (Loaded' <=> Loaded) /\ LookedLeft' = 0
    BY <1>1 DEF IdsLeft, Loaded, ThisType, LookedLeft
  <1>5. dict.state = "LOAD" => ~Unloading
    BY DEF DictInv
  <1>6. Serving <=> dict.state = "SERVE" /\ ~Unloading
    BY DEF Serving
  <1>7. dict.state \in {"LOAD", "SERVE"}
    BY DEF TypeOK, HybridTypeOK
  <1>8. ParserCounts
    BY DEF CountInv
  <1>9. CASE PageConf.kind = "HYBRID"
    <2>1. dict_seen
      <3>1. FsmPage > 0
        BY <1>2, <1>3, <1>9
      <3>2. QED
        BY <1>2, <1>3, <1>9, <3>1 DEF CountInv, FsmCounts
    <2>2. /\ data'.out_select = "HYBRID" /\ data'.hybrid_num_values = PageConf.n
          /\ data'.hybrid_conf.n = PageConf.n /\ data'.hybrid_conf.keep
          /\ data'.hybrid_conf.last = PageConf.last /\ dict_seen' = dict_seen
          /\ "dict_type" \notin valid'
          /\ {"hybrid_conf", "hybrid_num_values", "out_select"} \subseteq valid'
      BY <1>8, <1>9, DriveHybrid
    <2>3. HybridOn' /\ HybridLeft' = PageConf.n /\ ConfLeft' = PageConf.n
      BY <2>2 DEF HybridOn, HybridLeft, ConfLeft
    <2>4. HpdWell' /\ IdsWell' /\ LookedWell'
      BY <1>1, <2>1, <1>4 DEF HpdWell, IdsWell, LookedWell
    <2>5. HybridLeft' = ConfLeft' + hpd'.n + IdsLeft' + LookedLeft'
      BY <1>1, <1>3, <1>4, <2>3
    <2>6. HybridInv'
      BY <2>4, <2>5 DEF HybridInv
    <2>7. Unloading' <=> PageConf.last
      BY <1>1, <2>1, <2>2 DEF Unloading
    <2>8. dict'.state = "SERVE" /\ Loaded'
      BY <1>1, <1>4, <1>6, <2>1
    <2>9. Serving' <=> ~PageConf.last
      BY <2>7, <2>8 DEF Serving
    <2>10. DictInv'
      BY <1>1, <2>1, <2>2, <2>8, <2>9 DEF DictInv
    <2>11. QED
      BY <1>1, <1>9, <2>3, <2>6, <2>10
  <1>10. CASE PageConf.kind = "DICT"
    <2>1. /\ dict_seen' = TRUE /\ "dict_type" \in valid' /\ "out_select" \notin valid'
          /\ "hybrid_conf" \notin valid'
      BY <1>8, <1>10, DriveDict
    <2>2. ~HybridOn' /\ HybridLeft' = 0
      BY <2>1 DEF HybridOn, HybridLeft
    <2>3. HybridInv'
      BY <1>1, <2>1, <2>2, HybridQuiet
    <2>4. (Unloading' <=> Unloading) /\ (Serving' <=> Serving)
      BY <1>1, <2>1 DEF Unloading, Serving
    <2>5. ~dict_seen
      <3>1. FsmPage = 0
        BY <1>2, <1>3, <1>10
      <3>2. QED
        BY <3>1 DEF CountInv, FsmCounts
    <2>6. DictInv'
      BY <1>1, <1>4, <1>5, <2>1, <2>4, <2>5 DEF DictInv
    <2>7. QED
      BY <1>1, <1>10, <2>2, <2>3, <2>6
  <1>11. CASE PageConf.kind = "PLAIN"
    <2>1. /\ data'.out_select = "PLAIN" /\ dict_seen' = dict_seen /\ "dict_type" \notin valid'
          /\ "hybrid_conf" \in valid' <=> PageConf.last /\ dict_seen
          /\ "hybrid_conf" \in valid' =>
               data'.hybrid_conf.n = 0 /\ ~data'.hybrid_conf.keep /\ data'.hybrid_conf.last
      BY <1>8, <1>11, DrivePlain
    <2>2. ~HybridOn' /\ HybridLeft' = 0
      BY <2>1 DEF HybridOn, HybridLeft
    <2>3. CASE "hybrid_conf" \in valid'
      <3>1. ConfLeft' = 0
        BY <2>1, <2>3 DEF ConfLeft
      <3>2. HpdWell' /\ IdsWell' /\ LookedWell'
        BY <1>1, <2>1, <2>3 DEF HpdWell, IdsWell, LookedWell
      <3>3. HybridInv'
        BY <1>1, <1>4, <2>2, <3>1, <3>2 DEF HybridInv
      <3>4. Unloading'
        BY <2>1, <2>3 DEF Unloading
      <3>5. dict'.state = "SERVE"
        BY <1>1, <1>6, <2>1, <2>3
      <3>6. DictInv'
        BY <1>1, <1>4, <2>1, <2>3, <3>4, <3>5 DEF DictInv, Serving
      <3>7. QED
        BY <1>1, <1>11, <2>2, <3>3, <3>6
    <2>4. CASE "hybrid_conf" \notin valid'
      <3>1. HybridInv'
        BY <1>1, <2>2, <2>4, HybridQuiet
      <3>2. (Unloading' <=> Unloading) /\ (Serving' <=> Serving)
        BY <1>1, <2>4 DEF Unloading, Serving
      <3>3. DictInv'
        BY <1>1, <1>4, <1>5, <2>1, <2>4, <3>2 DEF DictInv
      <3>4. QED
        BY <1>1, <1>11, <2>2, <3>1, <3>3
    <2>5. QED
      BY <2>3, <2>4
  <1>12. QED
    BY <1>3, <1>9, <1>10, <1>11 DEF PageKind

\* The page that ST_PROCESS_PAGE works on.
LEMMA PageWorkedOn ==
  ASSUME TypeOK, StepInv, CountInv, state = "PROCESS_PAGE"
  PROVE  /\ chunk > 0 /\ chunk \in DOMAIN work
         /\ FsmPage \in DOMAIN work[chunk].pages /\ FsmPage > 0
         /\ ThisPage.kind \in PageKind /\ ThisPage.n \in Nat \ {0}
         /\ ThisType \in Types /\ PerBeat(ThisType) \in Nat \ {0}
  <1>1. chunk > 0 /\ chunk \in DOMAIN work
    BY Places
  <1>2. FsmPage > 0
    BY DEF CountInv, FsmCounts
  <1>3. FsmPage \in DOMAIN work[chunk].pages
    BY <1>1, <1>2, FsmPageRange DEF CountInv
  <1>4. ThisPage.kind \in PageKind /\ ThisPage.n \in Nat \ {0}
    BY <1>1, <1>3, PageFields DEF ThisPage
  <1>5. ThisType \in Types
    BY <1>1, WorkFields DEF ThisType
  <1>6. QED
    BY <1>1, <1>2, <1>3, <1>4, <1>5, PerBeatPos

\* The HybridPageDecoder takes a page, or the order to end the ids.
LEMMA HybridTakeConf ==
  ASSUME TypeOK, PageConfsInv, StepInv, CountInv, HybridInv, DictInv, HpdTakeConf
  PROVE  HybridInv' /\ DictInv' /\ HybridLeft' = HybridLeft
  <1> DEFINE conf == data.hybrid_conf
  <1>1. /\ hpd.state = "IDLE" /\ "hybrid_conf" \in valid
        /\ hpd' = [hpd EXCEPT !.last = conf.last, !.n = conf.n, !.at = 0,
                     !.state = IF conf.keep THEN "WAIT" ELSE "DUMMY"]
        /\ Consume({"hybrid_conf"}) /\ UNCHANGED <<work, fsm_vars, ids, dict, looked, rw, parser>>
    BY DEF HpdTakeConf, HpdUnchanged, in_vars
  <1>2. state = "PROCESS_PAGE"
    BY <1>1 DEF PageConfsInv, PageConfsConsumed
  <1>3. valid' = valid \ {"hybrid_conf"} /\ data' = data
    BY <1>1, <1>2 DEF Consume, Watched, Confs
  <1>4. /\ conf.n \in Nat /\ conf.keep \in BOOLEAN /\ conf.last \in BOOLEAN /\ hpd \in HpdRegs
    BY HybridRegs
  <1>5. /\ hpd'.state = (IF conf.keep THEN "WAIT" ELSE "DUMMY")
        /\ hpd'.n = conf.n /\ hpd'.at = 0 /\ hpd'.last = conf.last
    BY <1>1, <1>4 DEF HpdRegs
  <1>6. ThisPage.n \in Nat \ {0} /\ last_page \in BOOLEAN
    BY <1>2, PageWorkedOn DEF TypeOK, FsmTypeOK
  <1>7. /\ conf.keep => conf.n = ThisPage.n /\ (conf.last <=> last_page)
        /\ ~conf.keep => conf.n = 0 /\ conf.last
    BY <1>1 DEF CountInv, DrivenForPage
  <1>8. hpd.n = 0 /\ ids = <<>> /\ looked = <<>> /\ hpd.state # "DUMMY"
    BY <1>1 DEF HybridInv, HpdWell
  <1>9. /\ FsmPage' = FsmPage /\ ThisPage' = ThisPage /\ ThisType' = ThisType
        /\ (Finishing' <=> Finishing)
        /\ UNCHANGED <<work, chunk, last_page, dict_seen, ids, dict, looked, rw>>
    BY <1>1, FsmPageFrame DEF fsm_vars
  <1> HIDE DEF conf
  <1>10. /\ HybridLeft' = HybridLeft /\ ConfLeft' = 0 /\ ConfLeft = conf.n
         /\ IdsLeft = 0 /\ IdsLeft' = 0 /\ LookedLeft = 0 /\ LookedLeft' = 0
    BY <1>1, <1>3, <1>8, <1>9 DEF HybridLeft, HybridOn, ConfLeft, IdsLeft, LookedLeft, conf
  <1>11. HybridLeft' = ConfLeft' + hpd'.n + IdsLeft' + LookedLeft'
    BY <1>4, <1>5, <1>8, <1>10 DEF HybridInv
  <1>12. HpdWell' /\ IdsWell' /\ LookedWell'
    <2>1. "hybrid_conf" \notin valid' /\ ids' = <<>> /\ looked' = <<>>
      BY <1>3, <1>8, <1>9
    <2>2. hpd'.state \in {"WAIT", "PIPE"} <=> hpd'.n > 0
      BY <1>4, <1>5, <1>6, <1>7
    <2>3. hpd'.n > 0 => hpd'.at = ThisPage'.n - hpd'.n /\ (hpd'.last <=> last_page')
      BY <1>4, <1>5, <1>6, <1>7, <1>9
    <2>4. hpd'.state # "PIPE"
      BY <1>5
    <2>5. QED
      BY <2>1, <2>2, <2>3, <2>4 DEF HpdWell, IdsWell, LookedWell
  <1>13. HybridInv'
    BY <1>11, <1>12 DEF HybridInv
  <1>14. Unloading' <=> Unloading
    <2>1. Unloading <=> conf.last
      BY <1>1, <1>8 DEF Unloading, conf
    <2>2. Unloading' <=> conf.last
      <3>1. CASE conf.keep
        BY <1>3, <1>5, <1>6, <1>7, <1>8, <1>9, <3>1 DEF Unloading
      <3>2. CASE ~conf.keep
        BY <1>3, <1>5, <1>7, <3>2 DEF Unloading
      <3>3. QED
        BY <3>1, <3>2
    <2>3. QED
      BY <2>1, <2>2
  <1>15. DictInv'
    <2>1. (Serving' <=> Serving) /\ (Loaded' <=> Loaded)
      BY <1>9, <1>14 DEF Serving, Loaded
    <2>2. hpd'.n > 0 => conf.keep
      BY <1>4, <1>5, <1>7
    <2>3. "dict_type" \in valid' <=> "dict_type" \in valid
      BY <1>3
    <2>4. "hybrid_conf" \notin valid'
      BY <1>3
    <2>5. QED
      BY <1>1, <1>9, <1>10, <1>14, <2>1, <2>2, <2>3, <2>4 DEF DictInv, conf
  <1>16. QED
    BY <1>10, <1>13, <1>15

\* A beat of the page goes into the HybridPageDecoder, or behind its last value.
LEMMA HybridTakeBeat ==
  ASSUME TypeOK, PageConfsInv, StepInv, CountInv, SourceInv, HybridInv, DictInv,
         HpdTakeBeat \/ HpdDrain
  PROVE  HybridInv' /\ DictInv' /\ HybridLeft' = HybridLeft
  <1>1. /\ UNCHANGED <<work, fsm_vars, data, parser, payload>>
        /\ dec # <<>>
    BY DecTakenFrame DEF DecTaken
  <1>2. UNCHANGED <<ids, dict, looked, rw>> /\ TakeOffered({}) /\ Head(dec) = dec[1]
    BY <1>1, OneBeat DEF HpdTakeBeat, HpdDrain, HpdUnchanged, TypeOK, ParserTypeOK, StepInv, PagesInStep
  <1>3. \A c \in {"out_select", "hybrid_conf", "hybrid_num_values", "dict_type"} :
          c \in valid' <=> c \in valid
    BY <1>2 DEF TakeOffered, Consume
  <1>4. Mine(dec[1])
    BY <1>1 DEF SourceInv
  <1>5. /\ FsmPage' = FsmPage /\ ThisPage' = ThisPage /\ ThisType' = ThisType
        /\ (Finishing' <=> Finishing)
        /\ UNCHANGED <<work, chunk, last_page, dict_seen>>
    BY <1>1, FsmPageFrame DEF fsm_vars
  <1>6. hpd \in HpdRegs
    BY HybridRegs
  <1>7. /\ hpd'.n = hpd.n /\ hpd'.at = hpd.at /\ hpd'.last = hpd.last
        /\ hpd'.state \in {"WAIT", "PIPE"} <=> hpd.state \in {"WAIT", "PIPE"}
        /\ hpd'.state = "DUMMY" <=> hpd.state = "DUMMY"
        /\ hpd'.state = "PIPE" => hpd'.c = dec[1].c /\ hpd'.p = dec[1].p
    <2>1. CASE HpdTakeBeat
      BY <1>2, <1>6, <2>1 DEF HpdTakeBeat, HpdRegs
    <2>2. CASE HpdDrain
      BY <1>2, <1>6, <2>2 DEF HpdDrain, HpdRegs
    <2>3. QED
      BY <2>1, <2>2
  <1>8. hpd'.state = "PIPE" => Mine(hpd)'
    BY <1>4, <1>5, <1>7 DEF Mine
  <1>9. HybridLeft' = HybridLeft /\ ConfLeft' = ConfLeft /\ IdsLeft' = IdsLeft
        /\ LookedLeft' = LookedLeft
    BY <1>1, <1>2, <1>3 DEF HybridLeft, HybridOn, ConfLeft, IdsLeft, LookedLeft
  <1>10. HpdWell' /\ IdsWell' /\ LookedWell'
    BY <1>2, <1>3, <1>5, <1>7, <1>8, <1>9 DEF HybridInv, HpdWell, IdsWell, LookedWell, Mine
  <1>11. HybridInv'
    BY <1>7, <1>9, <1>10 DEF HybridInv
  <1>12. (Unloading' <=> Unloading) /\ (Serving' <=> Serving) /\ (Loaded' <=> Loaded)
    BY <1>1, <1>2, <1>3, <1>5, <1>7 DEF Unloading, Serving, Loaded
  <1>13. DictInv'
    BY <1>1, <1>2, <1>3, <1>5, <1>7, <1>9, <1>12 DEF DictInv
  <1>14. QED
    BY <1>9, <1>11, <1>13

\* What the steps of the HybridPageDecoder that put out ids, or look at its input, leave
\* alone.
LEMMA HpdFrame ==
  ASSUME TypeOK, HpdProcessFirstDatabeat \/ HpdDummy \/ \E n \in 1..MaxBeat : HpdEmit(n)
  PROVE  /\ UNCHANGED <<work, chunk, last_page, dict_seen, data, valid, dict, looked, rw>>
         /\ FsmPage' = FsmPage /\ ThisPage' = ThisPage /\ ThisType' = ThisType
         /\ (Finishing' <=> Finishing)
         /\ HybridLeft' = HybridLeft /\ ConfLeft' = ConfLeft /\ LookedLeft' = LookedLeft
         /\ Loaded' <=> Loaded
  <1>1. UNCHANGED <<work, fsm_vars, parser, data, valid, dict, looked, rw>>
    BY DEF HpdProcessFirstDatabeat, HpdDummy, HpdEmit, HpdUnchanged, conf_vars, in_vars
  <1>2. /\ UNCHANGED <<work, chunk, last_page, dict_seen, data, valid, dict, looked, rw>>
        /\ FsmPage' = FsmPage /\ ThisPage' = ThisPage /\ ThisType' = ThisType
        /\ (Finishing' <=> Finishing)
    BY <1>1, FsmPageFrame DEF fsm_vars
  <1>3. /\ HybridLeft' = HybridLeft /\ ConfLeft' = ConfLeft /\ LookedLeft' = LookedLeft
        /\ Loaded' <=> Loaded
    BY <1>2 DEF HybridLeft, HybridOn, ConfLeft, LookedLeft, Loaded
  <1>4. QED
    BY <1>2, <1>3

\* While a value is in the path, the page is a hybrid one and holds the multiplexer.
LEMMA HybridWorks ==
  ASSUME TypeOK, PageConfsInv, StepInv, CountInv, HybridInv,
         hpd.n > 0 \/ IdsLeft > 0 \/ looked # <<>> \/ HybridOn
  PROVE  /\ HybridOn /\ ThisPage.kind = "HYBRID" /\ ThisPage.n \in Nat \ {0}
         /\ state = "PROCESS_PAGE" /\ chunk > 0 /\ chunk \in DOMAIN work
         /\ FsmPage \in DOMAIN work[chunk].pages
         /\ ThisType \in Types /\ PerBeat(ThisType) \in Nat \ {0}
  <1>1. HybridOn
    BY HybridRest, HybridRegs
  <1>2. QED
    BY <1>1, PageUnderWay DEF HybridOn

LEMMA HybridFirst ==
  ASSUME TypeOK, HybridInv, DictInv, HpdProcessFirstDatabeat
  PROVE  HybridInv' /\ DictInv' /\ HybridLeft' = HybridLeft
  <1>1. /\ UNCHANGED <<work, chunk, last_page, dict_seen, data, valid, dict, looked, rw>>
        /\ FsmPage' = FsmPage /\ ThisPage' = ThisPage /\ ThisType' = ThisType
        /\ (Finishing' <=> Finishing)
        /\ HybridLeft' = HybridLeft /\ ConfLeft' = ConfLeft /\ LookedLeft' = LookedLeft
        /\ Loaded' <=> Loaded
    BY HpdFrame
  <1>2. hpd.state = "WAIT" /\ hpd' = [hpd EXCEPT !.state = "PIPE", !.taken = 0] /\ ids' = ids
    BY DEF HpdProcessFirstDatabeat
  <1>3. /\ hpd'.n = hpd.n /\ hpd'.at = hpd.at /\ hpd'.last = hpd.last
        /\ hpd'.state = "PIPE" /\ hpd'.taken = 0
    BY <1>2, HybridRegs DEF HpdRegs
  <1>4. IdsLeft' = IdsLeft
    BY <1>2 DEF IdsLeft
  <1>5. HpdWell' /\ IdsWell' /\ LookedWell'
    BY <1>1, <1>2, <1>3, <1>4 DEF HybridInv, HpdWell, IdsWell, LookedWell, Mine
  <1>6. HybridInv'
    BY <1>1, <1>3, <1>4, <1>5 DEF HybridInv
  <1>7. (Unloading' <=> Unloading) /\ (Serving' <=> Serving)
    BY <1>1, <1>2, <1>3 DEF Unloading, Serving
  <1>8. DictInv'
    BY <1>1, <1>3, <1>4, <1>7 DEF DictInv
  <1>9. QED
    BY <1>1, <1>6, <1>8

LEMMA HybridDummy ==
  ASSUME TypeOK, HybridInv, DictInv, HpdDummy
  PROVE  HybridInv' /\ DictInv' /\ HybridLeft' = HybridLeft
  <1>1. /\ UNCHANGED <<work, chunk, last_page, dict_seen, data, valid, dict, looked, rw>>
        /\ FsmPage' = FsmPage /\ ThisPage' = ThisPage /\ ThisType' = ThisType
        /\ (Finishing' <=> Finishing)
        /\ HybridLeft' = HybridLeft /\ ConfLeft' = ConfLeft /\ LookedLeft' = LookedLeft
        /\ Loaded' <=> Loaded
    BY HpdFrame
  <1>2. /\ hpd.state = "DUMMY" /\ hpd' = [hpd EXCEPT !.state = "IDLE"]
        /\ ids' = Append(ids, [c |-> 0, p |-> 0, at |-> 0, n |-> 0, last |-> TRUE])
    BY DEF HpdDummy
  <1>3. /\ hpd'.n = hpd.n /\ hpd'.at = hpd.at /\ hpd'.last = hpd.last /\ hpd'.state = "IDLE"
        /\ hpd.n \in Nat
    BY <1>2, HybridRegs DEF HpdRegs
  <1>4. ids = <<>> /\ "hybrid_conf" \notin valid /\ hpd.n = 0
    <2>1. ids = <<>> /\ "hybrid_conf" \notin valid /\ ~(hpd.n > 0)
      BY <1>2 DEF HybridInv, HpdWell
    <2>2. QED
      BY <1>3, <2>1
  <1>5. PICK b : b = [c |-> 0, p |-> 0, at |-> 0, n |-> 0, last |-> TRUE]
    OBVIOUS
  <1>6. ids' # <<>> /\ Len(ids') = 1 /\ ids'[1] = b /\ b.n = 0 /\ b.last
    BY <1>2, <1>4, <1>5, FirstBeat
  <1>7. IdsLeft = 0 /\ IdsLeft' = 0
    BY <1>4, <1>6 DEF IdsLeft
  <1>8. HpdWell' /\ IdsWell' /\ LookedWell'
    <2>1. HpdWell'
      BY <1>1, <1>3, <1>4 DEF HpdWell
    <2>2. IdsWell'
      BY <1>3, <1>4, <1>6 DEF IdsWell
    <2>3. LookedWell'
      BY <1>1, <1>3, <1>7 DEF HybridInv, LookedWell, Mine
    <2>4. QED
      BY <2>1, <2>2, <2>3
  <1>9. HybridInv'
    BY <1>1, <1>3, <1>7, <1>8 DEF HybridInv
  <1>10. Unloading' /\ Unloading
    BY <1>2, <1>6 DEF Unloading
  <1>11. DictInv'
    BY <1>1, <1>3, <1>4, <1>7, <1>10 DEF DictInv, Serving
  <1>12. QED
    BY <1>1, <1>9, <1>11

\* A run decoder beat: ids of the page, with `last` behind the chunk's last id.
LEMMA HybridEmit ==
  ASSUME TypeOK, PageConfsInv, StepInv, CountInv, HybridInv, DictInv,
         NEW n \in 1..MaxBeat, HpdEmit(n)
  PROVE  HybridInv' /\ DictInv' /\ HybridLeft' = HybridLeft
  <1>1. /\ UNCHANGED <<work, chunk, last_page, dict_seen, data, valid, dict, looked, rw>>
        /\ FsmPage' = FsmPage /\ ThisPage' = ThisPage /\ ThisType' = ThisType
        /\ (Finishing' <=> Finishing)
        /\ HybridLeft' = HybridLeft /\ ConfLeft' = ConfLeft /\ LookedLeft' = LookedLeft
        /\ Loaded' <=> Loaded
    BY HpdFrame
  <1> DEFINE done == n = hpd.n
  <1>19. PICK b : b = [c |-> hpd.c, p |-> hpd.p, at |-> hpd.at, n |-> n, last |-> done /\ hpd.last]
    OBVIOUS
  <1>2. /\ hpd.state = "PIPE" /\ hpd.taken > 0 /\ n <= hpd.n /\ Len(ids) < 1
        /\ ids' = Append(ids, b)
        /\ hpd' = [hpd EXCEPT !.n = @ - n, !.at = @ + n,
                      !.seen_last = IF done THEN FALSE ELSE @,
                      !.state = CASE ~done                   -> "PIPE"
                                  [] done /\ hpd.seen_last   -> "IDLE"
                                  [] done /\ ~hpd.seen_last  -> "DRAIN"]
    BY <1>19 DEF HpdEmit
  <1>3. /\ hpd \in HpdRegs /\ hpd.n \in Nat /\ hpd.at \in Nat /\ hpd.last \in BOOLEAN
        /\ ids \in Seq(IdBeat) /\ IdsLeft \in Nat /\ LookedLeft \in Nat /\ ConfLeft \in Nat
        /\ last_page \in BOOLEAN
    BY HybridRegs DEF TypeOK, FsmTypeOK
  <1>4. n \in Nat \ {0}
    BY DepthAssumption DEF MaxBeat
  <1>5. /\ hpd'.n = hpd.n - n /\ hpd'.at = hpd.at + n /\ hpd'.last = hpd.last
        /\ hpd'.c = hpd.c /\ hpd'.p = hpd.p
        /\ IF done THEN hpd'.state \in {"IDLE", "DRAIN"} ELSE hpd'.state = "PIPE"
    <2>1. /\ hpd'.n = hpd.n - n /\ hpd'.at = hpd.at + n /\ hpd'.last = hpd.last
          /\ hpd'.c = hpd.c /\ hpd'.p = hpd.p
          /\ hpd'.state = CASE ~done                   -> "PIPE"
                            [] done /\ hpd.seen_last   -> "IDLE"
                            [] done /\ ~hpd.seen_last  -> "DRAIN"
      BY <1>2, <1>3 DEF HpdRegs
    <2>2. CASE ~done
      BY <2>1, <2>2
    <2>3. CASE done /\ hpd.seen_last
      BY <2>1, <2>3
    <2>4. CASE done /\ ~hpd.seen_last
      BY <2>1, <2>4
    <2>5. QED
      BY <2>2, <2>3, <2>4
  <1>6. ids = <<>>
    BY <1>2, <1>3, EmptySeq
  <1>7. /\ b.c = hpd.c /\ b.p = hpd.p /\ b.at = hpd.at /\ b.n = n
        /\ b.last <=> done /\ hpd.last
    BY <1>3, <1>19
  <1>8. ids' # <<>> /\ Len(ids') = 1 /\ ids'[1] = b
    BY <1>2, <1>6, FirstBeat
  <1>9. IdsLeft = 0 /\ IdsLeft' = n
    BY <1>6, <1>7, <1>8 DEF IdsLeft
  <1>10. hpd.n > 0 /\ Mine(hpd) /\ hpd.at = ThisPage.n - hpd.n /\ (hpd.last <=> last_page)
         /\ "hybrid_conf" \notin valid
    <2>1. hpd.n > 0 /\ Mine(hpd) /\ hpd.at = ThisPage.n - hpd.n /\ (hpd.last <=> last_page)
      BY <1>2 DEF HybridInv, HpdWell
    <2>2. QED
      BY <1>3, <2>1 DEF HybridInv, HpdWell
  <1>11. hpd'.n \in Nat /\ (done <=> hpd'.n = 0) /\ n # 0
    BY <1>2, <1>3, <1>4, <1>5
  <1>12. /\ hpd'.n + n = hpd.n
         /\ hpd.at = ThisPage.n - hpd'.n - n /\ hpd'.at = ThisPage.n - hpd'.n
    <2>1. ThisPage.n \in Nat
      BY <1>3, <1>10, HybridWorks
    <2>2. QED
      BY <1>3, <1>4, <1>5, <1>10, <1>11, <2>1
  <1> HIDE DEF done
  <1>13. HpdWell' /\ IdsWell' /\ LookedWell'
    <2>1. Mine(hpd)' /\ Mine(b)'
      BY <1>1, <1>5, <1>7, <1>10 DEF Mine
    <2>2. HpdWell'
      <3>1. hpd'.state \in {"WAIT", "PIPE"} <=> hpd'.n > 0
        BY <1>5, <1>11
      <3>2. hpd'.state # "DUMMY"
        BY <1>5
      <3>3. QED
        BY <1>1, <1>5, <1>10, <1>12, <2>1, <3>1, <3>2 DEF HpdWell
    <2>3. IdsWell'
      <3>1. b.at = ThisPage'.n - hpd'.n - b.n /\ b.n # 0
        BY <1>1, <1>7, <1>11, <1>12
      <3>2. b.last <=> last_page' /\ hpd'.n = 0
        BY <1>1, <1>7, <1>10, <1>11
      <3>3. Mine(ids[1])' /\ Len(ids') <= 1
        BY <1>8, <2>1 DEF Mine
      <3>4. QED
        BY <1>8, <3>1, <3>2, <3>3 DEF IdsWell
    <2>4. LookedWell'
      <3>1. ASSUME looked # <<>>
            PROVE  looked[1].at = ThisPage.n - hpd'.n - IdsLeft' - looked[1].n
        <4>1. looked[1].at = ThisPage.n - hpd.n - IdsLeft - looked[1].n
          BY <3>1 DEF HybridInv, LookedWell
        <4>2. looked[1].n \in Nat
          BY <3>1, HybridRegs
        <4>3. ThisPage.n \in Nat
          BY <1>3, <1>10, HybridWorks
        <4>4. QED
          BY <1>3, <1>4, <1>5, <1>9, <4>1, <4>2, <4>3
      <3>2. QED
        BY <1>1, <3>1 DEF HybridInv, LookedWell, Mine
    <2>5. QED
      BY <2>2, <2>3, <2>4
  <1>14. HybridLeft' = ConfLeft' + hpd'.n + IdsLeft' + LookedLeft'
    <2>1. HybridLeft = ConfLeft + hpd.n + IdsLeft + LookedLeft
      BY DEF HybridInv
    <2>2. QED
      BY <1>1, <1>3, <1>4, <1>9, <1>11, <1>12, <2>1
  <1>15. HybridInv'
    BY <1>13, <1>14 DEF HybridInv
  <1>16. Unloading' <=> Unloading
    <2>1. Unloading <=> hpd.last
      BY <1>2, <1>6, <1>10 DEF Unloading
    <2>2. Unloading' <=> hpd.last
      <3>1. CASE hpd'.n = 0
        BY <1>1, <1>5, <1>7, <1>8, <1>10, <1>11, <3>1 DEF Unloading
      <3>2. CASE hpd'.n # 0
        BY <1>1, <1>5, <1>7, <1>8, <1>10, <1>11, <3>2 DEF Unloading
      <3>3. QED
        BY <3>1, <3>2
    <2>3. QED
      BY <2>1, <2>2
  <1>17. DictInv'
    <2>1. Serving' <=> Serving
      BY <1>1, <1>16 DEF Serving
    <2>2. Loaded
      BY <1>10 DEF DictInv
    <2>3. QED
      BY <1>1, <1>16, <2>1, <2>2 DEF DictInv
  <1>18. QED
    BY <1>1, <1>15, <1>17

\* The dictionary takes a beat of its page; with the last one it serves the chunk.
LEMMA HybridLoad ==
  ASSUME TypeOK, PageConfsInv, StepInv, CountInv, SourceInv, HybridInv, DictInv, DictLoad
  PROVE  HybridInv' /\ DictInv' /\ HybridLeft' = HybridLeft
  <1>1. /\ UNCHANGED <<work, fsm_vars, data, parser, payload>> /\ dec # <<>>
        /\ "in_select" \in valid
    BY DecTakenFrame DEF DecTaken
  <1>2. /\ dict.state = "LOAD" /\ "dict_type" \in valid
        /\ dict' = [c |-> Head(dec).c, typ |-> data.dict_type,
                    state |-> IF Head(dec).last THEN "SERVE" ELSE "LOAD"]
        /\ TakeOffered({"dict_type"}) /\ UNCHANGED <<hpd, ids, looked, rw>>
    BY DEF DictLoad
  <1>3. Head(dec) = dec[1] /\ dec[1] \in InBeat
    BY <1>1, OneBeat DEF TypeOK, ParserTypeOK, StepInv, PagesInStep
  <1>4. state = "PROCESS_PAGE"
    BY <1>1 DEF PageConfsInv, PageConfsConsumed
  <1>5. /\ \A c \in {"out_select", "hybrid_conf", "hybrid_num_values"} : c \in valid' <=> c \in valid
        /\ "dict_type" \in valid' <=> ~dec[1].last
    BY <1>2, <1>3, <1>4 DEF TakeOffered, Consume, Watched, Confs
  <1>6. /\ FsmPage' = FsmPage /\ (Finishing' <=> Finishing) /\ ThisType' = ThisType
        /\ UNCHANGED <<work, chunk, last_page, dict_seen, data>>
    BY <1>1, FsmPageFrame DEF fsm_vars
  <1>7. HybridInv' /\ HybridLeft' = HybridLeft
    <2>1. HybridOn' <=> HybridOn
      BY <1>5, <1>6 DEF HybridOn
    <2>2. QED
      BY <1>2, <1>5, <1>6, <2>1, HybridFrame
  <1>8. data.dict_type = ThisType /\ dict_seen /\ ~last_page
    BY <1>2 DEF CountInv, DrivenForPage
  <1>9. ~Finishing
    BY <1>4, <1>8 DEF Finishing
  <1>10. ~Unloading /\ (Unloading' <=> Unloading) /\ IdsLeft' = IdsLeft
    BY <1>2, <1>5, <1>6 DEF DictInv, Unloading, IdsLeft
  <1>11. ~("hybrid_conf" \in valid /\ data.hybrid_conf.keep) /\ ~(hpd.n > 0) /\ ~(IdsLeft > 0)
    BY <1>2 DEF DictInv, Loaded
  <1>12. dec[1].c = chunk
    BY <1>1 DEF SourceInv, Mine
  <1>13. /\ dict'.c = chunk /\ dict'.typ = ThisType
         /\ dict'.state = (IF dec[1].last THEN "SERVE" ELSE "LOAD")
    BY <1>2, <1>3, <1>8, <1>12
  <1>14. Serving' <=> dec[1].last
    BY <1>10, <1>13 DEF Serving
  <1>15. Serving' => Loaded'
    BY <1>6, <1>13, <1>14 DEF Loaded
  <1>16. DictInv'
    BY <1>2, <1>5, <1>6, <1>8, <1>9, <1>10, <1>11, <1>14, <1>15 DEF DictInv
  <1>17. QED
    BY <1>7, <1>16

\* TypedRewriteLast takes the count of the page's values.
LEMMA HybridRewrite ==
  ASSUME TypeOK, PageConfsInv, StepInv, CountInv, HybridInv, DictInv, RewriteLastTake
  PROVE  HybridInv' /\ DictInv' /\ HybridLeft' = HybridLeft
  <1>1. /\ "hybrid_num_values" \in valid /\ rw' = data.hybrid_num_values
        /\ Consume({"hybrid_num_values"})
        /\ UNCHANGED <<work, fsm_vars, parser, hpd, ids, dict, looked>>
    BY DEF RewriteLastTake, in_vars, hyb_vars
  <1>2. /\ state = "PROCESS_PAGE" /\ HybridOn
    BY <1>1 DEF PageConfsInv, PageConfsConsumed, CountNeedsSelect, HybridOn
  <1>3. valid' = valid \ {"hybrid_num_values"} /\ data' = data
    BY <1>1, <1>2 DEF Consume, Watched, Confs
  <1>4. /\ FsmPage' = FsmPage /\ (Finishing' <=> Finishing) /\ ThisType' = ThisType
        /\ ThisPage' = ThisPage
        /\ UNCHANGED <<work, chunk, last_page, dict_seen, data, hpd, ids, dict, looked>>
    BY <1>1, <1>3, FsmPageFrame DEF fsm_vars
  <1>5. HybridLeft' = HybridLeft
    BY <1>1, <1>2, <1>3 DEF HybridLeft, HybridOn
  <1>6. ConfLeft' = ConfLeft /\ IdsLeft' = IdsLeft /\ LookedLeft' = LookedLeft
    BY <1>3, <1>4 DEF ConfLeft, IdsLeft, LookedLeft
  <1>7. HpdWell' /\ IdsWell' /\ LookedWell'
    BY <1>3, <1>4, <1>6 DEF HybridInv, HpdWell, IdsWell, LookedWell, Mine
  <1>8. HybridInv'
    BY <1>4, <1>5, <1>6, <1>7 DEF HybridInv
  <1>9. DictInv'
    BY <1>3, <1>4, DictFrame
  <1>10. QED
    BY <1>5, <1>8, <1>9

\* Values leave the hybrid path; the page's last ones give up the multiplexer.
LEMMA HybridOutStep ==
  ASSUME TypeOK, PageConfsInv, StepInv, CountInv, HybridInv, DictInv, HybridOut
  PROVE  /\ HybridInv' /\ DictInv' /\ HybridLeft' = HybridLeft - looked[1].n
         /\ looked # <<>> /\ looked[1] \in DictIds /\ HybridOn
         /\ HybridBeat.last <=> HybridLeft = looked[1].n
         /\ HybridLeft \in Nat /\ looked[1].n \in Nat /\ looked[1].at = ThisPage.n - HybridLeft
  <1>1. /\ looked # <<>> /\ rw > 0 /\ HybridOn
        /\ NormalizeAccept(HybridBeat, IF HybridBeat.last THEN {"out_select"} ELSE {})
        /\ rw' = rw - HybridBeat.n /\ looked' = Tail(looked)
        /\ UNCHANGED <<work, fsm_vars, parser, hpd, ids, dict>>
    BY DEF HybridOut, HybridAtMux, HybridOn, in_vars
  <1>2. /\ hpd.n \in Nat /\ ConfLeft \in Nat /\ IdsLeft \in Nat /\ rw \in Int
        /\ looked \in Seq(DictIds) /\ looked[1] \in DictIds /\ looked[1].n \in Nat
        /\ looked[1].at \in Nat
    BY <1>1, HybridRegs
  <1>3. Tail(looked) = <<>> /\ looked[1].n > 0
        /\ looked[1].at = ThisPage.n - hpd.n - IdsLeft - looked[1].n
    BY <1>1, <1>2, OneBeat DEF HybridInv, LookedWell
  <1>4. HybridBeat.n = looked[1].n /\ (HybridBeat.last <=> rw = looked[1].n)
    BY DEF HybridBeat
  <1>5. "hybrid_num_values" \notin valid /\ state = "PROCESS_PAGE" /\ ThisPage.n \in Nat
        /\ "hybrid_conf" \notin valid
    <2>1. rw # 0
      BY <1>1, <1>2
    <2>2. QED
      BY <1>1, <2>1, HybridWorks DEF PageConfsInv, CountTakenOnce, HybridInv, HpdWell
  <1>6. HybridLeft = rw /\ ConfLeft = 0 /\ LookedLeft = looked[1].n
    BY <1>1, <1>5 DEF HybridLeft, ConfLeft, LookedLeft
  <1>7. rw = hpd.n + IdsLeft + looked[1].n
    BY <1>2, <1>6 DEF HybridInv
  <1>8. /\ data' = data
        /\ \A c \in {"dict_type", "hybrid_conf", "hybrid_num_values"} : c \in valid' <=> c \in valid
        /\ "out_select" \in valid' <=> ~HybridBeat.last
    BY <1>1, <1>5 DEF NormalizeAccept, Consume, Watched, Confs, HybridOn
  <1>9. /\ FsmPage' = FsmPage /\ (Finishing' <=> Finishing) /\ ThisType' = ThisType
        /\ ThisPage' = ThisPage
        /\ UNCHANGED <<work, chunk, last_page, dict_seen, hpd, ids, dict>>
    BY <1>1, FsmPageFrame DEF fsm_vars
  <1>10. HybridLeft' = rw - looked[1].n
    <2>1. HybridOn' <=> ~HybridBeat.last
      BY <1>1, <1>8 DEF HybridOn
    <2>2. CASE HybridBeat.last
      BY <1>2, <1>4, <2>1, <2>2 DEF HybridLeft
    <2>3. CASE ~HybridBeat.last
      BY <1>1, <1>4, <1>5, <1>8, <2>1, <2>3 DEF HybridLeft
    <2>4. QED
      BY <2>2, <2>3
  <1>11. looked' = <<>> /\ LookedLeft' = 0 /\ ConfLeft' = 0 /\ IdsLeft' = IdsLeft
    BY <1>1, <1>3, <1>5, <1>8, <1>9 DEF LookedLeft, ConfLeft, IdsLeft
  <1>12. HpdWell' /\ IdsWell' /\ LookedWell'
    BY <1>5, <1>8, <1>9, <1>11 DEF HybridInv, HpdWell, IdsWell, LookedWell, Mine
  <1>13. HybridLeft' = ConfLeft' + hpd'.n + IdsLeft' + LookedLeft'
    BY <1>2, <1>7, <1>9, <1>10, <1>11
  <1>14. HybridInv'
    BY <1>12, <1>13 DEF HybridInv
  <1>15. DictInv'
    BY <1>8, <1>9, DictFrame
  <1>16. looked[1].at = ThisPage.n - HybridLeft /\ HybridLeft \in Nat
    BY <1>2, <1>3, <1>5, <1>6, <1>7, SMTT(60)
  <1>17. QED
    BY <1>1, <1>2, <1>4, <1>6, <1>10, <1>14, <1>15, <1>16

\* What the dictionary looks at: ids with values are of the page, and the `last` that
\* unloads it comes behind all of them.
LEMMA LookupFacts ==
  ASSUME TypeOK, PageConfsInv, StepInv, CountInv, HybridInv, DictInv, DictLookup
  PROVE  /\ dict.state = "SERVE" /\ ids # <<>> /\ looked = <<>> /\ Tail(ids) = <<>>
         /\ ids[1] \in IdBeat /\ ids[1].n \in Nat /\ ids[1].at \in Nat
         /\ ids[1].last \in BOOLEAN /\ hpd.n \in Nat
         /\ "hybrid_conf" \notin valid
         /\ hpd.state # "DUMMY" /\ IdsLeft = ids[1].n
         /\ ids[1].n = 0 => ids[1].last
         /\ ids[1].last => hpd.n = 0
         /\ ids[1].n > 0 => dict.c = chunk /\ dict.typ = ThisType /\ ThisPage.n \in Nat
                            /\ PerBeat(ThisType) \in Nat \ {0}
         /\ UNCHANGED <<work, chunk, last_page, dict_seen, data, valid, hpd, rw>>
         /\ FsmPage' = FsmPage /\ ThisPage' = ThisPage /\ ThisType' = ThisType
         /\ (Finishing' <=> Finishing)
  <1>1. /\ dict.state = "SERVE" /\ ids # <<>> /\ Len(looked) < 1
        /\ UNCHANGED <<work, fsm_vars, parser, data, valid, hpd, rw>>
    BY DEF DictLookup, conf_vars, in_vars
  <1>2. /\ ids \in Seq(IdBeat) /\ looked \in Seq(DictIds) /\ hpd.n \in Nat
        /\ ids[1] \in IdBeat /\ ids[1].n \in Nat /\ ids[1].at \in Nat /\ ids[1].last \in BOOLEAN
    BY <1>1, HybridRegs
  <1>3. looked = <<>>
    BY <1>1, <1>2, EmptySeq
  <1>4. Tail(ids) = <<>>
    BY <1>1, <1>2, OneBeat DEF HybridInv, IdsWell
  <1>5. "hybrid_conf" \notin valid /\ hpd.state # "DUMMY"
    BY <1>1 DEF HybridInv, HpdWell
  <1>6. (ids[1].n = 0 => ids[1].last) /\ (ids[1].last => hpd.n = 0)
    BY <1>1 DEF HybridInv, IdsWell
  <1>7. IdsLeft = ids[1].n
    BY <1>1 DEF IdsLeft
  <1>8. ids[1].n > 0 => dict.c = chunk /\ dict.typ = ThisType /\ ThisPage.n \in Nat
                        /\ PerBeat(ThisType) \in Nat \ {0}
    <2>1. ids[1].n > 0 => Loaded
      BY <1>7 DEF DictInv
    <2>2. ids[1].n > 0 => ThisPage.n \in Nat /\ PerBeat(ThisType) \in Nat \ {0}
      BY <1>7, HybridWorks
    <2>3. QED
      BY <2>1, <2>2 DEF Loaded
  <1>9. /\ UNCHANGED <<work, chunk, last_page, dict_seen, data, valid, hpd, rw>>
        /\ FsmPage' = FsmPage /\ ThisPage' = ThisPage /\ ThisType' = ThisType
        /\ (Finishing' <=> Finishing)
    BY <1>1, FsmPageFrame DEF fsm_vars
  <1>10. QED
    BY <1>1, <1>2, <1>3, <1>4, <1>5, <1>6, <1>7, <1>8, <1>9

LEMMA SplitPlace ==
  ASSUME NEW at \in Nat, NEW t \in Nat, NEW h \in Nat, NEW n \in Nat, NEW f \in Nat,
         at = t - h - n, ~(n <= f)
  PROVE  at + f = t - h - (n - f) /\ n - f # 0
OBVIOUS

LEMMA OnlyOne ==
  ASSUME NEW r
  PROVE  <<r>> \o <<>> = <<r>>
  <1>1. <<r>> \in Seq({r}) /\ <<>> \in Seq({r})
    OBVIOUS
  <1>2. QED
    BY <1>1

\* The ids of a beat are looked up; they may take several databeats.
LEMMA HybridLookup ==
  ASSUME TypeOK, PageConfsInv, StepInv, CountInv, HybridInv, DictInv, DictLookup
  PROVE  HybridInv' /\ DictInv' /\ HybridLeft' = HybridLeft
  <1> DEFINE fit == PerBeat(dict.typ)
  <1>1. PICK b : b = ids[1]
    OBVIOUS
  <1>2. /\ dict.state = "SERVE" /\ ids # <<>> /\ looked = <<>> /\ Tail(ids) = <<>>
        /\ b \in IdBeat /\ b.n \in Nat /\ b.at \in Nat
        /\ b.last \in BOOLEAN /\ hpd.n \in Nat
        /\ "hybrid_conf" \notin valid
        /\ hpd.state # "DUMMY" /\ IdsLeft = b.n
        /\ b.n = 0 => b.last
        /\ b.last => hpd.n = 0
        /\ b.n > 0 => dict.c = chunk /\ dict.typ = ThisType /\ ThisPage.n \in Nat
                      /\ PerBeat(ThisType) \in Nat \ {0}
    BY <1>1, LookupFacts
  <1>3. /\ UNCHANGED <<work, chunk, last_page, dict_seen, data, valid, hpd, rw>>
        /\ FsmPage' = FsmPage /\ ThisPage' = ThisPage /\ ThisType' = ThisType
        /\ (Finishing' <=> Finishing)
    BY LookupFacts
  <1>4. HybridLeft' = HybridLeft /\ ConfLeft' = 0 /\ ConfLeft = 0 /\ LookedLeft = 0
    BY <1>2, <1>3 DEF HybridLeft, HybridOn, ConfLeft, LookedLeft
  <1>5. HybridLeft = hpd.n + b.n
    BY <1>2, <1>4 DEF HybridInv
  <1>6. b.n > 0 => Mine(b) /\ b.at = ThisPage.n - hpd.n - b.n /\ (b.last <=> last_page /\ hpd.n = 0)
    BY <1>1, <1>2 DEF HybridInv, IdsWell
  <1>7. /\ looked' = (IF b.n = 0 THEN looked
                      ELSE Append(looked, [c |-> b.c, p |-> b.p, at |-> b.at,
                                           n |-> IF b.n <= fit THEN b.n ELSE fit,
                                           typ |-> dict.typ, dict |-> dict.c]))
        /\ ids' = (IF b.n <= fit THEN Tail(ids)
                   ELSE <<[c |-> b.c, p |-> b.p, at |-> b.at + fit, n |-> b.n - fit,
                            last |-> b.last]>> \o Tail(ids))
        /\ dict' = (IF b.n <= fit /\ b.last THEN [state |-> "LOAD", c |-> 0, typ |-> NoType] ELSE dict)
    <2>1. Head(ids) = b
      BY <1>1, <1>2
    <2>2. QED
      BY <2>1 DEF DictLookup
  <1>8. fit \in Nat \ {0}
    <2>1. dict.typ \in Types
      BY <1>2 DEF TypeOK, HybridTypeOK
    <2>2. QED
      BY <2>1, PerBeatPos
  <1>9. b.n > 0 => fit = PerBeat(ThisType)
    BY <1>2
  <1> HIDE DEF fit
  \* the beat is done with
  <1>10. ASSUME b.n <= fit, ids' = <<>>, LookedWell', LookedLeft' = b.n
         PROVE  HybridInv' /\ DictInv'
    <2>1. IdsLeft' = 0 /\ IdsWell'
      BY <1>10 DEF IdsLeft, IdsWell
    <2>2. HpdWell'
      BY <1>2, <1>3, <1>10 DEF HybridInv, HpdWell, Mine
    <2>3. HybridInv'
      BY <1>2, <1>3, <1>4, <1>5, <1>10, <2>1, <2>2 DEF HybridInv
    <2>4. CASE b.last
      <3>1. Unloading
        BY <1>1, <1>2, <2>4 DEF Unloading
      <3>2. dict'.state = "LOAD"
        BY <1>7, <1>10, <2>4
      <3>3. ~Unloading'
        BY <1>2, <1>3, <1>10, <2>4 DEF Unloading
      <3>4. ~Serving /\ ~Serving' /\ ~(hpd'.n > 0)
        BY <1>2, <1>3, <2>4, <3>1, <3>2 DEF Serving
      <3>5. QED
        BY <1>2, <1>3, <2>1, <2>3, <3>3, <3>4 DEF DictInv
    <2>5. CASE ~b.last
      <3>1. dict' = dict
        BY <1>7, <2>5
      <3>2. Unloading' <=> Unloading
        BY <1>1, <1>2, <1>3, <1>10, <2>5 DEF Unloading
      <3>3. (Serving' <=> Serving) /\ (Loaded' <=> Loaded)
        BY <1>3, <3>1, <3>2 DEF Serving, Loaded
      <3>4. DictInv'
        BY <1>3, <2>1, <3>1, <3>2, <3>3 DEF DictInv
      <3>5. QED
        BY <2>3, <3>4
    <2>6. QED
      BY <1>2, <2>4, <2>5
  <1>11. CASE b.n = 0
    <2>1. looked' = <<>> /\ ids' = <<>> /\ b.n <= fit
      BY <1>2, <1>7, <1>8, <1>11
    <2>2. LookedWell' /\ LookedLeft' = b.n
      BY <1>11, <2>1 DEF LookedWell, LookedLeft
    <2>3. QED
      BY <1>4, <1>10, <2>1, <2>2
  <1>12. CASE b.n > 0 /\ b.n <= fit
    <2>1. PICK l : l = [c |-> b.c, p |-> b.p, at |-> b.at, n |-> b.n, typ |-> dict.typ, dict |-> dict.c]
      OBVIOUS
    <2>2. looked' = Append(<<>>, l) /\ ids' = <<>>
      BY <1>2, <1>7, <1>12, <2>1
    <2>3. looked' # <<>> /\ Len(looked') = 1 /\ looked'[1] = l
      BY <2>2, FirstBeat
    <2>4. /\ l.c = b.c /\ l.p = b.p /\ l.at = b.at /\ l.n = b.n /\ l.typ = dict.typ /\ l.dict = dict.c
      BY <2>1
    <2>5. LookedLeft' = b.n
      BY <2>3, <2>4 DEF LookedLeft
    <2>6. LookedWell'
      <3>1. Mine(looked[1])'
        BY <1>3, <1>6, <1>12, <2>3, <2>4 DEF Mine
      <3>2. IdsLeft' = 0
        BY <2>2 DEF IdsLeft
      <3>3. l.at = ThisPage'.n - hpd'.n - IdsLeft' - l.n
        BY <1>2, <1>3, <1>6, <1>12, <2>4, <3>2
      <3>4. l.n > 0 /\ l.n <= PerBeat(ThisType')
        BY <1>3, <1>9, <1>12, <2>4
      <3>5. PerBeat(ThisType)' = PerBeat(ThisType')
        BY DEF PerBeat
      <3>6. l.typ = ThisType' /\ l.dict = chunk'
        BY <1>2, <1>3, <1>12, <2>4
      <3>7. QED
        BY <2>3, <3>1, <3>3, <3>4, <3>5, <3>6 DEF LookedWell
    <2>7. QED
      BY <1>4, <1>10, <1>12, <2>2, <2>5, <2>6
  <1>13. CASE b.n > fit
    <2>1. PICK l : l = [c |-> b.c, p |-> b.p, at |-> b.at, n |-> fit, typ |-> dict.typ, dict |-> dict.c]
      OBVIOUS
    <2>2. PICK r : r = [c |-> b.c, p |-> b.p, at |-> b.at + fit, n |-> b.n - fit, last |-> b.last]
      OBVIOUS
    <2>3. b.n > 0 /\ ~(b.n <= fit)
      BY <1>2, <1>8, <1>13
    <2>4. looked' = Append(<<>>, l) /\ ids' = <<r>> \o <<>> /\ dict' = dict
      <3>1. b.n # 0
        BY <2>3
      <3>2. looked' = Append(looked, l)
        BY <1>7, <2>1, <2>3, <3>1
      <3>3. ids' = <<r>> \o Tail(ids)
        BY <1>7, <2>2, <2>3
      <3>4. dict' = dict
        BY <1>7, <2>3
      <3>5. QED
        BY <1>2, <3>2, <3>3, <3>4
    <2>5. looked' # <<>> /\ Len(looked') = 1 /\ looked'[1] = l
      BY <2>4, FirstBeat
    <2>6. ids' = <<r>> /\ ids' # <<>> /\ Len(ids') = 1 /\ ids'[1] = r
      BY <2>4, OnlyOne, FirstBeat
    <2>7. /\ l.c = b.c /\ l.p = b.p /\ l.at = b.at /\ l.n = fit /\ l.typ = dict.typ /\ l.dict = dict.c
          /\ r.c = b.c /\ r.p = b.p /\ r.at = b.at + fit /\ r.n = b.n - fit /\ r.last = b.last
      BY <2>1, <2>2
    <2>8. LookedLeft' = fit /\ IdsLeft' = b.n - fit
      BY <2>5, <2>6, <2>7 DEF LookedLeft, IdsLeft
    <2>9. HybridLeft' = ConfLeft' + hpd'.n + IdsLeft' + LookedLeft'
      BY <1>2, <1>3, <1>4, <1>5, <1>8, <2>8
    <2>10. IdsWell'
      <3>1. Mine(ids[1])'
        BY <1>3, <1>6, <2>3, <2>6, <2>7 DEF Mine
      <3>2. r.at = ThisPage'.n - hpd'.n - r.n /\ r.n # 0
        <4>1. b.at = ThisPage.n - hpd.n - b.n /\ ThisPage.n \in Nat
          BY <1>2, <1>6, <2>3
        <4>2. b.at + fit = ThisPage.n - hpd.n - (b.n - fit) /\ b.n - fit # 0
          <5>1. b.at \in Nat /\ hpd.n \in Nat /\ b.n \in Nat /\ fit \in Nat
            BY <1>2, <1>8
          <5>2. QED
            BY <2>3, <4>1, <5>1, SplitPlace
        <4>3. QED
          BY <1>3, <2>7, <4>2
      <3>3. r.last <=> last_page' /\ hpd'.n = 0
        BY <1>3, <1>6, <2>3, <2>7
      <3>4. QED
        BY <2>6, <3>1, <3>2, <3>3 DEF IdsWell
    <2>11. LookedWell'
      <3>1. Mine(looked[1])'
        BY <1>3, <1>6, <2>3, <2>5, <2>7 DEF Mine
      <3>2. l.at = ThisPage'.n - hpd'.n - IdsLeft' - l.n
        <4>1. /\ ThisPage' = ThisPage /\ hpd' = hpd /\ l.at = b.at /\ l.n = fit /\ IdsLeft' = b.n - fit
              /\ b.at = ThisPage.n - hpd.n - b.n
          BY <1>3, <1>6, <2>3, <2>7, <2>8
        <4>2. ThisPage.n \in Nat /\ hpd.n \in Nat /\ b.n \in Nat /\ fit \in Nat
          BY <1>2, <1>8, <2>3
        <4>3. QED
          BY <4>1, <4>2
      <3>3. l.n > 0 /\ l.n <= PerBeat(ThisType')
        <4>1. b.n > 0 /\ l.n = fit /\ ThisType' = ThisType
          BY <1>3, <2>3, <2>7
        <4>2. fit = PerBeat(ThisType') /\ l.n = PerBeat(ThisType')
          BY <1>9, <4>1
        <4>3. QED
          BY <1>8, <4>1, <4>2
      <3>4. PerBeat(ThisType)' = PerBeat(ThisType')
        BY DEF PerBeat
      <3>5. l.typ = ThisType' /\ l.dict = chunk'
        BY <1>2, <1>3, <2>3, <2>7
      <3>6. QED
        BY <2>5, <3>1, <3>2, <3>3, <3>4, <3>5 DEF LookedWell
    <2>12. HpdWell'
      BY <1>2, <1>3 DEF HybridInv, HpdWell, Mine
    <2>13. HybridInv'
      BY <2>9, <2>10, <2>11, <2>12 DEF HybridInv
    <2>14. (Unloading' <=> Unloading) /\ (Serving' <=> Serving) /\ (Loaded' <=> Loaded)
      <3>1. Unloading' <=> Unloading
        BY <1>1, <1>2, <1>3, <2>6, <2>7 DEF Unloading
      <3>2. QED
        BY <1>3, <2>4, <3>1 DEF Serving, Loaded
    <2>15. Loaded
      BY <1>2, <2>3 DEF DictInv
    <2>16. DictInv'
      BY <1>3, <2>4, <2>14, <2>15 DEF DictInv
    <2>17. QED
      BY <1>4, <2>13, <2>16
  <1>14. QED
    BY <1>2, <1>8, <1>11, <1>12, <1>13

\* No other step moves a value in the hybrid path.
LEMMA HybridStays ==
  ASSUME TypeOK, PageConfsInv, StepInv, CountInv, SourceInv, HybridInv, DictInv, [Next]_vars,
         ~TakeChunkConf, ~TakePageConf, ~HybridOut
  PROVE  HybridInv' /\ DictInv' /\ HybridLeft' = HybridLeft
  <1>1. /\ UNCHANGED <<work, chunk, dict_seen, last_page, data>>
        /\ Finishing' <=> Finishing
        /\ chunk > 0 => FsmPage' = FsmPage
    BY FsmPageStays DEF CountInv
  <1>2. HybridOn => FsmPage' = FsmPage
    BY <1>1, HybridWorks
  <1>3. ASSUME UNCHANGED <<hpd, ids, dict, looked, rw>>, HybridOn' <=> HybridOn,
               \A c \in {"hybrid_conf", "hybrid_num_values", "dict_type"} : c \in valid' <=> c \in valid
        PROVE  HybridInv' /\ DictInv' /\ HybridLeft' = HybridLeft
    BY <1>1, <1>2, <1>3, HybridFrame, DictFrame
  <1>4. CASE FinishPage \/ ParserSteps \/ Decompress \/ NormalizeGate \/ Deliver \/ UNCHANGED vars
    <2>1. UNCHANGED <<hpd, ids, dict, looked, rw, valid, data>>
      BY <1>4 DEF FinishPage, ParserSteps, ParserTakeConf, ParseHeader, EmitPayload, FlushConf,
           ParserUnchanged, Decompress, NormalizeGate, Deliver, vars, conf_vars, hyb_vars
    <2>2. QED
      BY <1>3, <2>1 DEF HybridOn
  <1>5. CASE PlainIn
    <2>1. UNCHANGED <<hpd, ids, dict, looked, rw>> /\ TakeOffered({})
      BY <1>5 DEF PlainIn, hyb_vars
    <2>2. \A c \in {"out_select", "hybrid_conf", "hybrid_num_values", "dict_type"} :
            c \in valid' <=> c \in valid
      BY <2>1 DEF TakeOffered, Consume
    <2>3. QED
      BY <1>1, <1>3, <2>1, <2>2 DEF HybridOn
  <1>6. CASE PlainOut
    <2>1. UNCHANGED <<hpd, ids, dict, looked, rw>> /\ ~HybridOn
      BY <1>6 DEF PlainOut, PlainAtMux, HybridOn, hyb_vars
    <2>2. \A c \in {"hybrid_conf", "hybrid_num_values", "dict_type"} : c \in valid' <=> c \in valid
      BY <1>6 DEF PlainOut, NormalizeAccept, Consume
    <2>3. "out_select" \in valid' => "out_select" \in valid
      BY <1>6 DEF PlainOut, NormalizeAccept, Consume
    <2>4. QED
      BY <1>1, <1>3, <2>1, <2>2, <2>3 DEF HybridOn
  <1>7. CASE HpdTakeConf
    BY <1>7, HybridTakeConf
  <1>8. CASE HpdTakeBeat \/ HpdDrain
    BY <1>8, HybridTakeBeat
  <1>9. CASE HpdProcessFirstDatabeat
    BY <1>9, HybridFirst
  <1>10. CASE HpdDummy
    BY <1>10, HybridDummy
  <1>11. CASE \E n \in 1..MaxBeat : HpdEmit(n)
    BY <1>11, HybridEmit
  <1>12. CASE DictLoad
    BY <1>12, HybridLoad
  <1>13. CASE DictLookup
    BY <1>13, HybridLookup
  <1>14. CASE RewriteLastTake
    BY <1>14, HybridRewrite
  <1>15. QED
    BY <1>4, <1>5, <1>6, <1>7, <1>8, <1>9, <1>10, <1>11, <1>12, <1>13, <1>14
    DEF Next, Done, System, ParserSteps

LEMMA HybridStep ==
  ASSUME TypeOK, PageConfsInv, StepInv, CountInv, SourceInv, HybridInv, DictInv, [Next]_vars
  PROVE  HybridInv' /\ DictInv'
BY HybridChunk, HybridPage, HybridOutStep, HybridStays

-----------------------------------------------------------------------------
(* Where the values of a chunk enter TypedNormalizeUntil.                  *)

LEMMA EnteredInt ==
  ASSUME TypeOK, PageConfsInv, StepInv, CountInv, SourceInv, PlainInv, HybridInv
  PROVE  /\ Entered \in Int /\ PageLeft \in Int
         /\ chunk > 0 => Upto(chunk, FsmPage) \in Nat
         /\ HybridLeft \in Nat
  <1>1. HybridLeft \in Nat
    <2>1. hpd.n \in Nat /\ ConfLeft \in Nat /\ IdsLeft \in Nat /\ LookedLeft \in Nat
      BY HybridRegs
    <2>2. QED
      BY <2>1 DEF HybridInv
  <1>2. ASSUME PlainOn PROVE ThisPage.n \in Nat /\ Given \in Int
    <2>1. ThisPage.n \in Nat
      BY <1>2, PageUnderWay DEF PlainOn
    <2>2. CASE plain # <<>>
      BY <2>1, <2>2, PlainFirst
    <2>3. CASE plain = <<>> /\ "in_select" \in valid
      <3>1. AtDec \in Int
        BY <1>2, <2>3, PlainToCome
      <3>2. Given = AtDec
        BY <2>3 DEF Given, PlainEnd
      <3>3. QED
        BY <2>1, <3>1, <3>2
    <2>4. CASE plain = <<>> /\ "in_select" \notin valid
      <3>1. Given = ThisPage.n
        BY <2>4 DEF Given, PlainEnd
      <3>2. QED
        BY <2>1, <3>1
    <2>5. QED
      BY <2>1, <2>2, <2>3, <2>4
  <1>3. PageLeft \in Int
    BY <1>1, <1>2 DEF PageLeft
  <1>4. chunk > 0 => Upto(chunk, FsmPage) \in Nat
    <2>1. SUFFICES ASSUME chunk > 0 PROVE Upto(chunk, FsmPage) \in Nat
      OBVIOUS
    <2>2. FsmPage \in 0..Len(work[chunk].pages) /\ chunk \in DOMAIN work
      BY <2>1, FsmPageRange, Places DEF CountInv
    <2>3. QED
      BY <2>2, UptoCounts
  <1>5. chunk \in Nat
    BY Places
  <1>6. CASE chunk = 0
    BY <1>1, <1>3, <1>4, <1>5, <1>6 DEF Entered
  <1>7. CASE chunk # 0
    BY <1>1, <1>3, <1>4, <1>5, <1>7 DEF Entered
  <1>8. QED
    BY <1>6, <1>7

\* In ST_IDLE every value of the last chunk has entered.
LEMMA EnteredAll ==
  ASSUME TypeOK, PageConfsInv, StepInv, CountInv, state = "IDLE", chunk > 0
  PROVE  Entered = work[chunk].num_values /\ chunk \in DOMAIN work
  <1>1. valid \subseteq {"num_values"}
    BY DEF PageConfsInv, PageConfsConsumed
  <1>2. PageLeft = 0
    BY <1>1 DEF PageLeft, PlainOn, HybridLeft, HybridOn
  <1>3. chunk \in DOMAIN work /\ FsmPage = Len(work[chunk].pages) /\ FsmPage \in 0..Len(work[chunk].pages)
    BY Places, FsmPageRange DEF CountInv, Finishing
  <1>4. Upto(chunk, FsmPage) = work[chunk].num_values /\ work[chunk].num_values \in Nat
    BY <1>3, UptoCounts, WorkFields
  <1>5. QED
    BY <1>2, <1>3, <1>4 DEF Entered

\* What the values of a page's beat come behind.
LEMMA BeforeMine ==
  ASSUME TypeOK, PageConfsInv, StepInv, CountInv, NEW b, Mine(b), state = "PROCESS_PAGE",
         b.at \in Int
  PROVE  Before(b) = Upto(chunk, FsmPage) - ThisPage.n + b.at
  <1>1. chunk \in DOMAIN work /\ FsmPage \in DOMAIN work[chunk].pages /\ FsmPage > 0
    BY PageWorkedOn
  <1>2. FsmPage # 0
    BY <1>1, PageFields
  <1>3. Upto(chunk, FsmPage) = ThisPage.upto
    BY <1>2 DEF Upto, ThisPage
  <1>4. QED
    BY <1>3 DEF Before, Mine, ThisPage

\* The step hands the beat b to TypedNormalizeUntil.
Enters(b) ==
  /\ NormalizeAccept(b, IF b.last THEN IF b.dict # 0 THEN {"out_select"}
                                       ELSE {"out_select", "plain_type"}
                        ELSE {})
  /\ b \in OutBeat /\ Good(b) /\ b.c = chunk /\ (b.last <=> EndsPage(b))
  /\ Before(b) = Entered /\ Entered' = Entered + b.n

LEMMA HybridEnters ==
  ASSUME TypeOK, PageConfsInv, StepInv, CountInv, SourceInv, PlainInv, HybridInv, DictInv,
         HybridOut
  PROVE  \E b : Enters(b)
  <1>1. /\ HybridLeft' = HybridLeft - looked[1].n
        /\ looked # <<>> /\ looked[1] \in DictIds /\ HybridOn
        /\ HybridBeat.last <=> HybridLeft = looked[1].n
        /\ HybridLeft \in Nat /\ looked[1].n \in Nat /\ looked[1].at = ThisPage.n - HybridLeft
    BY HybridOutStep
  <1>2. /\ ThisPage.kind = "HYBRID" /\ ThisPage.n \in Nat \ {0} /\ state = "PROCESS_PAGE"
        /\ chunk > 0 /\ chunk \in DOMAIN work /\ FsmPage \in DOMAIN work[chunk].pages
        /\ ThisType \in Types
    BY <1>1, HybridWorks
  <1>3. /\ NormalizeAccept(HybridBeat, IF HybridBeat.last THEN {"out_select"} ELSE {})
        /\ UNCHANGED <<work, fsm_vars, parser>>
    BY DEF HybridOut, in_vars
  <1>4. /\ Mine(looked[1]) /\ looked[1].n > 0 /\ looked[1].n <= PerBeat(ThisType)
        /\ looked[1].typ = ThisType /\ looked[1].dict = chunk
    BY <1>1 DEF HybridInv, LookedWell
  <1>5. /\ HybridLeft - looked[1].n \in Nat /\ looked[1].c \in Nat /\ looked[1].p \in Nat
        /\ looked[1].at \in Nat
    <2>1. HybridLeft = ConfLeft + hpd.n + IdsLeft + LookedLeft /\ LookedLeft = looked[1].n
      BY <1>1 DEF HybridInv, LookedLeft
    <2>2. hpd.n \in Nat /\ ConfLeft \in Nat /\ IdsLeft \in Nat
      BY HybridRegs
    <2>3. /\ looked[1].c \in Nat /\ looked[1].p \in Nat /\ looked[1].at \in Nat
          /\ looked[1].n \in Nat
      BY <1>1 DEF DictIds
    <2>4. HybridLeft - looked[1].n = ConfLeft + hpd.n + IdsLeft
      BY <2>1, <2>2, <2>3
    <2>5. QED
      BY <2>2, <2>3, <2>4
  <1>6. PICK b : b = HybridBeat
    OBVIOUS
  <1>7. /\ b.c = looked[1].c /\ b.p = looked[1].p /\ b.at = looked[1].at /\ b.n = looked[1].n
        /\ b.typ = looked[1].typ /\ b.dict = looked[1].dict /\ (b.last <=> rw = looked[1].n)
        /\ b.last \in BOOLEAN /\ b \in OutBeat
    <2>1. b = [c |-> looked[1].c, p |-> looked[1].p, at |-> looked[1].at, n |-> looked[1].n,
               typ |-> looked[1].typ, dict |-> looked[1].dict, last |-> rw = looked[1].n]
      BY <1>6 DEF HybridBeat
    <2>2. /\ looked[1].at \in Int /\ looked[1].n \in Int
          /\ looked[1].typ \in Types /\ looked[1].dict \in Nat
      <3>1. chunk \in Nat
        BY Places
      <3>2. QED
        BY <1>1, <1>2, <1>4, <1>5, <3>1
    <2>3. QED
      BY <1>5, <2>1, <2>2 DEF OutBeat
  <1>8. b.last <=> b.at + b.n = ThisPage.n
    BY <1>1, <1>2, <1>6, <1>7
  <1>9. Mine(b) /\ b.c = chunk /\ b.p = FsmPage
    BY <1>4, <1>7 DEF Mine
  <1>10. b.at + b.n <= ThisPage.n
    BY <1>1, <1>2, <1>5, <1>7
  <1>11. Good(b) /\ (b.last <=> EndsPage(b))
    BY <1>2, <1>4, <1>5, <1>7, <1>8, <1>9, <1>10 DEF Good, EndsPage, ThisPage, ThisType
  <1>12. FsmPage' = FsmPage /\ UNCHANGED <<work, chunk>>
    BY <1>3, FsmPageFrame DEF fsm_vars
  <1>13. ~PlainOn /\ ~PlainOn'
    <2>1. data' = data
      BY <1>3 DEF NormalizeAccept, Consume
    <2>2. QED
      BY <1>1, <2>1 DEF HybridOn, PlainOn
  <1>14. PageLeft = HybridLeft /\ PageLeft' = HybridLeft - b.n
    BY <1>1, <1>7, <1>13 DEF PageLeft
  <1>15. Upto(chunk, FsmPage) \in Nat /\ Upto(chunk, FsmPage)' = Upto(chunk, FsmPage)
    <2>1. Upto(chunk, FsmPage) \in Nat
      BY <1>2, EnteredInt
    <2>2. QED
      BY <1>12, <2>1 DEF Upto
  <1>16. Entered = Upto(chunk, FsmPage) - PageLeft /\ Entered' = Upto(chunk, FsmPage) - PageLeft'
    BY <1>2, <1>12, <1>15 DEF Entered
  <1>17. Before(b) = Upto(chunk, FsmPage) - ThisPage.n + b.at
    BY <1>2, <1>5, <1>7, <1>9, BeforeMine
  <1>18. Before(b) = Entered /\ Entered' = Entered + b.n
    <2>1. PICK u \in Nat : u = Upto(chunk, FsmPage)
      BY <1>15
    <2>2. b.at = ThisPage.n - HybridLeft /\ HybridLeft \in Nat /\ ThisPage.n \in Nat /\ b.n \in Nat
      BY <1>1, <1>2, <1>7
    <2>3. Before(b) = u - ThisPage.n + b.at /\ Entered = u - HybridLeft
      BY <1>14, <1>16, <1>17, <2>1
    <2>4. Entered' = u - (HybridLeft - b.n)
      BY <1>14, <1>16, <2>1
    <2>5. QED
      BY <2>2, <2>3, <2>4
  <1>19. b.dict # 0
    BY <1>2, <1>4, <1>7
  <1>20. QED
    BY <1>3, <1>6, <1>7, <1>9, <1>11, <1>18, <1>19 DEF Enters

LEMMA PlainEnters ==
  ASSUME TypeOK, PageConfsInv, StepInv, CountInv, SourceInv, PlainInv, HybridInv, DictInv,
         PlainOut
  PROVE  \E b : Enters(b)
  <1>1. /\ plain # <<>> /\ UNCHANGED <<work, fsm_vars, data, stream_vars>>
        /\ ~PlainOn' <=> plain[1].last
        /\ PlainOn' => Given' = plain[1].at + plain[1].n
    BY PlainOutStep
  <1>2. /\ PlainOn /\ plain[1] \in InBeat /\ Mine(plain[1]) /\ ThisPage.kind = "PLAIN"
        /\ plain[1].at = Given /\ plain[1].at \in Nat
        /\ plain[1].n \in Nat \ {0} /\ plain[1].n <= PerBeat(ThisType)
        /\ plain[1].at + plain[1].n <= ThisPage.n
        /\ plain[1].last <=> plain[1].at + plain[1].n = ThisPage.n
    BY <1>1, PlainFirst
  <1>3. /\ ThisPage.n \in Nat \ {0} /\ state = "PROCESS_PAGE"
        /\ chunk > 0 /\ chunk \in DOMAIN work /\ FsmPage \in DOMAIN work[chunk].pages
        /\ ThisType \in Types
    BY <1>2, PageUnderWay DEF PlainOn
  <1>4. /\ NormalizeAccept(PlainBeat, IF PlainBeat.last THEN {"out_select", "plain_type"} ELSE {})
        /\ "plain_type" \in valid /\ HybridLeft' = HybridLeft
    <2>1. /\ NormalizeAccept(PlainBeat, IF PlainBeat.last THEN {"out_select", "plain_type"} ELSE {})
          /\ "plain_type" \in valid
      BY DEF PlainOut, PlainAtMux
    <2>2. "hybrid_num_values" \in valid' <=> "hybrid_num_values" \in valid
      BY <2>1 DEF NormalizeAccept, Consume
    <2>3. ~HybridOn /\ ~HybridOn'
      BY <1>1, <1>2 DEF HybridOn, PlainOn
    <2>4. QED
      BY <2>1, <2>3 DEF HybridLeft
  <1>5. data.plain_type = ThisType
    BY <1>4 DEF CountInv, DrivenForPage
  <1>6. PICK b : b = PlainBeat
    OBVIOUS
  <1>7. /\ b.c = plain[1].c /\ b.p = plain[1].p /\ b.at = plain[1].at /\ b.n = plain[1].n
        /\ b.typ = ThisType /\ b.dict = 0 /\ b.last = plain[1].last
        /\ b \in OutBeat
    BY <1>2, <1>3, <1>5, <1>6 DEF PlainBeat, OutBeat, InBeat
  <1>8. Mine(b) /\ b.c = chunk /\ b.p = FsmPage
    BY <1>2, <1>7 DEF Mine
  <1>9. Good(b) /\ (b.last <=> EndsPage(b))
    BY <1>2, <1>3, <1>7, <1>8 DEF Good, EndsPage, ThisPage, ThisType
  <1>10. /\ FsmPage' = FsmPage /\ ThisPage' = ThisPage /\ UNCHANGED <<work, chunk>>
    BY <1>1, FsmPageFrame DEF fsm_vars, stream_vars
  <1>11. HybridLeft = 0
    BY <1>2 DEF HybridLeft, HybridOn, PlainOn
  <1>12. PageLeft = ThisPage.n - b.at /\ PageLeft' = ThisPage.n - (b.at + b.n)
    <2>1. PageLeft = ThisPage.n - b.at
      BY <1>2, <1>7 DEF PageLeft
    <2>2. CASE PlainOn'
      BY <1>1, <1>7, <1>10, <2>1, <2>2 DEF PageLeft
    <2>3. CASE ~PlainOn'
      <3>1. b.at + b.n = ThisPage.n /\ PageLeft' = 0
        BY <1>1, <1>2, <1>4, <1>7, <1>11, <2>3 DEF PageLeft
      <3>2. QED
        BY <1>3, <2>1, <3>1
    <2>4. QED
      BY <2>2, <2>3
  <1>13. Upto(chunk, FsmPage) \in Nat /\ Upto(chunk, FsmPage)' = Upto(chunk, FsmPage)
    <2>1. Upto(chunk, FsmPage) \in Nat
      BY <1>3, EnteredInt
    <2>2. QED
      BY <1>10, <2>1 DEF Upto
  <1>14. Entered = Upto(chunk, FsmPage) - PageLeft /\ Entered' = Upto(chunk, FsmPage) - PageLeft'
    BY <1>3, <1>10, <1>13 DEF Entered
  <1>15. Before(b) = Upto(chunk, FsmPage) - ThisPage.n + b.at
    BY <1>2, <1>3, <1>7, <1>8, BeforeMine
  <1>16. Before(b) = Entered /\ Entered' = Entered + b.n
    BY <1>2, <1>3, <1>7, <1>12, <1>13, <1>14, <1>15
  <1>17. QED
    BY <1>4, <1>6, <1>7, <1>8, <1>9, <1>16 DEF Enters

\* No value enters in a step that takes no chunk and no beat at the multiplexer.
LEMMA EnteredStays ==
  ASSUME TypeOK, PageConfsInv, StepInv, CountInv, SourceInv, PlainInv, HybridInv, DictInv,
         [Next]_vars, ~TakeChunkConf, ~HybridOut, ~PlainOut
  PROVE  Entered' = Entered /\ UNCHANGED <<work, chunk>>
  <1>1. UNCHANGED <<work, chunk>> /\ chunk \in Nat
    <2>1. CASE TakePageConf
      BY <2>1, Places, FsmPageAtPage DEF TakePageConf
    <2>2. CASE ~TakePageConf
      BY <2>2, Places, FsmPageStays DEF CountInv
    <2>3. QED
      BY <2>1, <2>2
  <1>2. CASE chunk = 0
    BY <1>1, <1>2 DEF Entered
  <1>3. CASE TakePageConf
    <2>1. /\ FsmPage' = parser.page /\ FsmPage = parser.page - 1 /\ chunk > 0
          /\ parser.page \in DOMAIN work[chunk].pages /\ parser.page > 0 /\ chunk \in DOMAIN work
          /\ PageConf.kind = work[chunk].pages[parser.page].kind
          /\ PageConf.n = work[chunk].pages[parser.page].n
      BY <1>3, FsmPageAtPage DEF CountInv
    <2>2. PICK p : p = parser.page
      OBVIOUS
    <2>3. PICK page : page = work[chunk].pages[p]
      OBVIOUS
    <2>4. /\ Upto(chunk, p - 1) \in Nat /\ Upto(chunk, p) \in Nat
          /\ Upto(chunk, p) = Upto(chunk, p - 1) + (IF page.kind = "DICT" THEN 0 ELSE page.n)
          /\ page.kind \in PageKind /\ page.n \in Nat
      BY <2>1, <2>2, <2>3, PageCounts, PageFields
    <2>5. /\ HybridLeft = 0 /\ HybridLeft' = (IF page.kind = "HYBRID" THEN page.n ELSE 0)
      BY <1>3, <2>1, <2>2, <2>3, HybridPage
    <2>6. /\ PlainOn' => Given' = 0
          /\ PlainOn' <=> page.kind = "PLAIN"
      BY <1>3, <2>1, <2>2, <2>3, PlainTakeStep
    <2>7. ~PlainOn
      BY <1>3 DEF TakePageConf, PageConfsInv, PageConfsConsumed, PlainOn
    <2>8. Entered = Upto(chunk, p - 1)
      <3>1. PageLeft = 0
        BY <2>5, <2>7 DEF PageLeft
      <3>2. QED
        BY <2>1, <2>2, <2>4, <3>1 DEF Entered
    <2>9. ThisPage' = page
      BY <1>1, <2>1, <2>2, <2>3 DEF ThisPage
    <2>10. PageLeft' = (IF page.kind = "DICT" THEN 0 ELSE page.n)
      <3>1. CASE page.kind = "PLAIN"
        <4>1. PageLeft' = page.n - 0
          BY <2>6, <2>9, <3>1 DEF PageLeft
        <4>2. QED
          BY <2>4, <3>1, <4>1
      <3>2. CASE page.kind # "PLAIN"
        <4>1. PageLeft' = HybridLeft'
          BY <2>6, <3>2 DEF PageLeft
        <4>2. QED
          BY <2>4, <2>5, <3>2, <4>1 DEF PageKind
      <3>3. QED
        BY <3>1, <3>2
    <2>11. Upto(chunk, FsmPage)' = Upto(chunk, p)
      BY <1>1, <2>1, <2>2 DEF Upto
    <2>12. Entered' = Upto(chunk, p) - PageLeft'
      BY <1>1, <2>1, <2>11 DEF Entered
    <2>13. QED
      BY <1>1, <2>4, <2>8, <2>10, <2>12
  <1>4. CASE ~TakePageConf /\ chunk # 0
    <2>1. FsmPage' = FsmPage /\ ThisPage' = ThisPage
      BY <1>1, <1>4, FsmPageStays DEF CountInv
    <2>2. (PlainOn' <=> PlainOn) /\ (PlainOn => Given' = Given)
      BY <1>4, PlainStays
    <2>3. HybridLeft' = HybridLeft
      BY <1>4, HybridStays
    <2>4. PageLeft' = PageLeft
      BY <2>1, <2>2, <2>3 DEF PageLeft
    <2>5. Upto(chunk, FsmPage)' = Upto(chunk, FsmPage)
      BY <1>1, <2>1 DEF Upto
    <2>6. QED
      BY <1>1, <2>4, <2>5 DEF Entered
  <1>5. QED
    BY <1>1, <1>2, <1>3, <1>4

-----------------------------------------------------------------------------
(* Places of beats, and beats that follow each other.                      *)

\* A beat's values lie in its chunk, and what ends the chunk ends a page.
LEMMA BeatPlace ==
  ASSUME TypeOK, NEW b \in OutBeat, Good(b)
  PROVE  /\ b.c \in DOMAIN work /\ b.c \in Nat \ {0} /\ b.p \in DOMAIN work[b.c].pages
         /\ b.at \in Nat /\ b.n \in Nat \ {0} /\ b.n <= PerBeat(work[b.c].typ)
         /\ Before(b) \in Nat /\ work[b.c].num_values \in Nat \ {0}
         /\ Before(b) < work[b.c].num_values
         /\ Before(b) + b.n <= work[b.c].num_values
         /\ EndsChunk(b) => EndsPage(b)
         /\ PlaceOf(b).c = b.c /\ PlaceOf(b).g = Before(b)
  <1> DEFINE page == work[b.c].pages[b.p]
             nv   == work[b.c].num_values
  <1>1. /\ b.c \in DOMAIN work /\ b.p \in DOMAIN work[b.c].pages /\ page.kind # "DICT"
        /\ b.at >= 0 /\ b.n > 0 /\ b.n <= PerBeat(work[b.c].typ) /\ b.at + b.n <= page.n
    BY DEF Good
  <1>2. b.at \in Nat /\ b.n \in Nat \ {0}
    BY <1>1 DEF OutBeat
  <1>3. b.c \in Nat \ {0} /\ nv \in Nat \ {0} /\ page.n \in Nat
    BY <1>1, WorkFields, PageFields
  <1>4. /\ Upto(b.c, b.p - 1) \in Nat /\ page.upto = Upto(b.c, b.p - 1) + page.n
        /\ page.upto <= nv
    BY <1>1, PageCounts
  <1>5. Before(b) = page.upto - page.n + b.at
    BY DEF Before
  <1>6. /\ EndsPage(b) <=> b.at + b.n = page.n
        /\ EndsChunk(b) <=> Before(b) + b.n = nv
    BY DEF EndsPage, EndsChunk
  <1>7. PlaceOf(b).c = b.c /\ PlaceOf(b).g = Before(b)
    BY DEF PlaceOf
  <1> HIDE DEF page, nv
  <1>8. Before(b) \in Nat /\ Before(b) + b.n <= nv /\ Before(b) < nv
    BY <1>1, <1>2, <1>3, <1>4, <1>5
  <1>9. EndsChunk(b) => EndsPage(b)
    BY <1>1, <1>2, <1>3, <1>4, <1>5, <1>6
  <1>10. QED
    BY <1>1, <1>2, <1>3, <1>7, <1>8, <1>9 DEF page, nv

LEMMA ChainAppend ==
  ASSUME NEW q \in Seq(OutBeat), NEW from, NEW to, Chain(q, from, to),
         NEW b \in OutBeat, PlaceOf(b) = to
  PROVE  Chain(Append(q, b), from, PlaceAfter(b))
  <1> DEFINE r == Append(q, b)
  <1>1. /\ Len(r) = Len(q) + 1 /\ r[Len(r)] = b /\ r # <<>> /\ Len(q) \in Nat
        /\ \A i \in 1..Len(q) : r[i] = q[i]
        /\ q = <<>> <=> Len(q) = 0
    OBVIOUS
  <1> HIDE DEF r
  <1>2. PlaceOf(r[1]) = from
    <2>1. CASE q = <<>>
      BY <1>1, <2>1 DEF Chain
    <2>2. CASE q # <<>>
      BY <1>1, <2>2 DEF Chain
    <2>3. QED
      BY <2>1, <2>2
  <1>3. ASSUME NEW i \in 1..(Len(r) - 1) PROVE PlaceOf(r[i + 1]) = PlaceAfter(r[i])
    <2>1. CASE i < Len(q)
      <3>1. i \in 1..(Len(q) - 1) /\ r[i] = q[i] /\ r[i + 1] = q[i + 1]
        BY <1>1, <1>3, <2>1
      <3>2. QED
        BY <3>1 DEF Chain
    <2>2. CASE i = Len(q)
      <3>1. q # <<>> /\ r[i] = q[Len(q)] /\ r[i + 1] = b
        BY <1>1, <1>3, <2>2
      <3>2. QED
        BY <3>1 DEF Chain
    <2>3. QED
      BY <1>1, <1>3, <2>1, <2>2
  <1>4. QED
    BY <1>1, <1>2, <1>3 DEF Chain, r

LEMMA ChainTail ==
  ASSUME NEW q \in Seq(OutBeat), q # <<>>, NEW from, NEW to, Chain(q, from, to)
  PROVE  Chain(Tail(q), PlaceAfter(q[1]), to)
  <1> DEFINE r == Tail(q)
  <1>1. /\ Len(r) = Len(q) - 1 /\ Len(q) \in Nat \ {0}
        /\ \A i \in 1..Len(r) : r[i] = q[i + 1]
        /\ r = <<>> <=> Len(r) = 0
    <2>1. /\ Len(r) = Len(q) - 1 /\ Len(q) \in Nat \ {0} /\ (r = <<>> <=> Len(q) = 1)
          /\ \A i \in 1..(Len(q) - 1) : r[i] = q[i + 1]
      BY TailFacts
    <2> HIDE DEF r
    <2>2. QED
      BY <2>1
  <1> HIDE DEF r
  <1>2. ASSUME r = <<>> PROVE PlaceAfter(q[1]) = to
    <2>1. Len(q) = 1
      BY <1>1, <1>2
    <2>2. QED
      BY <2>1 DEF Chain
  <1>3. ASSUME r # <<>> PROVE PlaceOf(r[1]) = PlaceAfter(q[1]) /\ PlaceAfter(r[Len(r)]) = to
    <2>1. /\ 1 \in 1..(Len(q) - 1) /\ r[1] = q[1 + 1] /\ r[Len(r)] = q[Len(q)]
      BY <1>1, <1>3
    <2>2. QED
      BY <1>1, <2>1 DEF Chain
  <1>4. ASSUME NEW i \in 1..(Len(r) - 1) PROVE PlaceOf(r[i + 1]) = PlaceAfter(r[i])
    <2>1. i + 1 \in 1..(Len(q) - 1) /\ r[i] = q[i + 1] /\ r[i + 1] = q[(i + 1) + 1]
      BY <1>1, <1>4
    <2>2. QED
      BY <2>1 DEF Chain
  <1>5. QED
    BY <1>2, <1>3, <1>4 DEF Chain, r

LEMMA ChainFrame ==
  ASSUME UNCHANGED work
  PROVE  /\ Chain(skid', GatePlace', EntryPlace') => Chain(skid, GatePlace, EntryPlace)'
         /\ Chain(pipe', OutPlace', GatePlace') => Chain(pipe, OutPlace, GatePlace)'
BY DEF Chain, PlaceOf, PlaceAfter, Place, Before

LEMMA BeatsFrame ==
  ASSUME UNCHANGED work
  PROVE  /\ \A i \in DOMAIN skid' :
              (Good(skid[i])' <=> Good(skid'[i])) /\ (EndsPage(skid[i])' <=> EndsPage(skid'[i]))
         /\ \A i \in DOMAIN pipe' :
              (Good(pipe[i])' <=> Good(pipe'[i])) /\ (EndsChunk(pipe[i])' <=> EndsChunk(pipe'[i]))
BY DEF Good, EndsPage, EndsChunk, Before, PerBeat

\* The types of the streams that end at the sink.
LEMMA OutRegs ==
  ASSUME TypeOK
  PROVE  /\ skid \in Seq(OutBeat) /\ pipe \in Seq(OutBeat) /\ typ_fifo \in Seq(Types)
         /\ out \in Seq(Transfer) /\ remaining \in Nat /\ in_typ \in Types \cup {NoType}
         /\ Len(out) \in Nat /\ Closed \in Nat /\ Sized \in Int /\ chunk \in Nat
         /\ Closed <= Len(out)
         /\ SkidDepth \in Nat \ {0}
  <1>1. out \in Seq(Transfer) /\ work \in Seq(Chunk) /\ chunk \in 0..Len(work)
    BY WorkloadsAssumption DEF TypeOK, OutTypeOK, FsmTypeOK
  <1>2. Len(out) \in Nat /\ (out # <<>> => Len(out) > 0) /\ chunk \in Nat
    BY <1>1
  <1>3. Closed \in Nat /\ Sized \in Int /\ Closed <= Len(out)
    BY <1>2 DEF Closed, Sized
  <1>4. QED
    BY <1>1, <1>2, <1>3, DepthAssumption DEF TypeOK, OutTypeOK

\* A chunk behind another has more values than the skid buffer has behind its first beat.
LEMMA MoreThanSkid ==
  ASSUME TypeOK, chunk \in DOMAIN work, chunk > 1,
         NEW len \in Nat, len <= SkidDepth, NEW x \in Int, x <= (len - 1) * PerBeat(ThisType)
  PROVE  x < work[chunk].num_values
  <1>1. /\ ThisType \in Types /\ work[chunk].num_values \in Nat
        /\ PerBeat(ThisType) \in Nat \ {0}
    BY WorkFields, PerBeatPos DEF ThisType
  <1>2. work[chunk].num_values > (SkidDepth - 1) * PerBeat(ThisType)
    BY SpanAssumption DEF TypeOK, FsmTypeOK, ThisType
  <1>3. SkidDepth \in Nat
    BY DepthAssumption
  <1>4. ASSUME NEW a \in Int, NEW d \in Int, NEW m \in Nat, a <= d
        PROVE  a * m <= d * m
    BY <1>4
  <1>5. (len - 1) * PerBeat(ThisType) <= (SkidDepth - 1) * PerBeat(ThisType)
    BY <1>1, <1>3, <1>4
  <1>6. ASSUME NEW y \in Int, NEW z \in Int, x <= y, y <= z, NEW v \in Nat, v > z
        PROVE  x < v
    BY <1>6
  <1>7. QED
    BY <1>1, <1>2, <1>3, <1>5, <1>6

\* A size that has not been taken is that of a chunk not all of which has entered.
LEMMA SizeBeforeEnd ==
  ASSUME TypeOK, PageConfsInv, StepInv, CountInv, SourceInv, PlainInv, HybridInv, StreamInv,
         "num_values" \in valid
  PROVE  Entered < work[chunk].num_values /\ chunk > 0 /\ data.num_values = work[chunk].num_values
  <1>1. chunk > 0 /\ data.num_values = work[chunk].num_values
    BY DEF CountInv, DrivenForPage
  <1>2. chunk \in DOMAIN work /\ chunk \in Nat /\ Entered \in Int
    BY <1>1, Places, EnteredInt
  <1>3. CASE remaining = 0
    BY <1>1, <1>3 DEF StreamInv, GateInv, TakesSize
  <1>4. CASE remaining # 0
    <2>1. Sized = chunk - 1 /\ Sized > 0
      BY <1>2, <1>4 DEF Sized, StreamInv, GateInv
    <2>2. GatePlace.c = chunk - 1
      BY <1>4, <2>1 DEF GatePlace
    <2>3. EntryPlace.c \in {chunk, chunk + 1}
      BY <1>1 DEF EntryPlace, Place
    <2>4. GatePlace # EntryPlace
      BY <1>2, <2>2, <2>3
    <2>5. skid # <<>> /\ PlaceOf(skid[1]) = GatePlace
      BY <2>4 DEF StreamInv, SkidInv, Chain
    <2>6. skid[1].c < chunk /\ 1 \in DOMAIN skid /\ Len(skid) \in Nat /\ Len(skid) <= SkidDepth
      <3>1. skid \in Seq(OutBeat)
        BY OutRegs
      <3>2. skid[1].c = chunk - 1
        BY <2>2, <2>5 DEF PlaceOf
      <3>3. QED
        BY <1>2, <2>5, <3>1, <3>2 DEF StreamInv, SkidInv
    <2>7. Entered <= (Len(skid) - 1) * PerBeat(ThisType)
      BY <2>6 DEF StreamInv, SkidInv
    <2>8. QED
      BY <1>1, <1>2, <2>1, <2>6, <2>7, MoreThanSkid
  <1>5. QED
    BY <1>1, <1>3, <1>4

\* Leaving the last page of a chunk, the FSM has handed over the chunk's size.
LEMMA NumValuesFreed ==
  ASSUME TypeOK, PageConfsInv, StepInv, CountInv, SourceInv, PlainInv, HybridInv, StreamInv
  PROVE  NumValuesConsumed
  <1>1. SUFFICES ASSUME state = "IDLE", "num_values" \in valid
                 PROVE  FALSE
    BY DEF NumValuesConsumed
  <1>2. Entered < work[chunk].num_values /\ chunk > 0
    BY <1>1, SizeBeforeEnd
  <1>3. Entered = work[chunk].num_values /\ chunk \in DOMAIN work
    BY <1>1, <1>2, EnteredAll
  <1>4. work[chunk].num_values \in Nat
    BY <1>3, WorkFields
  <1>5. QED
    BY <1>2, <1>3, <1>4

-----------------------------------------------------------------------------
(* The steps keep the chain of places.                                     *)

\* What the invariant of the skid buffer says of one beat behind another.
LEMMA Distance ==
  ASSUME NEW e \in Int, NEW d \in Int, NEW n \in Int, NEW m \in Int,
         e <= d * m, n <= m
  PROVE  e + n <= (d + 1) * m
<1>1. (d + 1) * m = d * m + m
  OBVIOUS
<1>2. d * m \in Int
  OBVIOUS
<1>3. PICK z \in Int : z = d * m
  BY <1>2
<1>4. QED
  BY <1>1, <1>3

\* A beat goes into the skid buffer.
LEMMA SkidTakes ==
  ASSUME TypeOK, SkidInv, NEW b \in OutBeat, Good(b), b.c = chunk, b.last <=> EndsPage(b),
         Before(b) = Entered, Entered' = Entered + b.n, Len(skid) < SkidDepth,
         chunk > 0, chunk \in Nat,
         skid' = Append(skid, b), UNCHANGED <<work, chunk>>, GatePlace' = GatePlace
  PROVE  SkidInv'
  <1>1. skid \in Seq(OutBeat) /\ SkidDepth \in Nat
    BY OutRegs
  <1>2. PICK len \in Nat : len = Len(skid)
    BY <1>1
  <1>3. /\ Len(skid') = len + 1 /\ skid'[len + 1] = b /\ DOMAIN skid' = 1..(len + 1)
        /\ \A i \in 1..len : skid'[i] = skid[i]
        /\ DOMAIN skid = 1..len
    BY <1>1, <1>2
  <1>4. Len(skid') <= SkidDepth
    BY <1>1, <1>2, <1>3
  <1>5. /\ b.n \in Nat \ {0} /\ b.n <= PerBeat(ThisType) /\ Before(b) < work[chunk].num_values
        /\ Before(b) \in Nat
    BY BeatPlace DEF ThisType
  <1>6. PerBeat(ThisType) \in Nat /\ PerBeat(ThisType)' = PerBeat(ThisType)
    <2>1. chunk \in DOMAIN work
      BY BeatPlace
    <2>2. ThisType \in Types
      BY <2>1, WorkFields DEF ThisType
    <2>3. QED
      BY <2>2, PerBeatPos DEF ThisType, PerBeat
  <1>7. ASSUME NEW i \in DOMAIN skid'
        PROVE  /\ Good(skid'[i]) /\ skid'[i].c <= chunk'
               /\ skid'[i].last <=> EndsPage(skid'[i])
               /\ skid'[i].c < chunk' => Entered' <= (Len(skid') - i) * PerBeat(ThisType)'
    <2>1. CASE i = len + 1
      <3>1. skid'[i] = b /\ chunk' = chunk
        BY <1>3, <2>1
      <3>2. QED
        BY <3>1
    <2>2. CASE i # len + 1
      <3>1. i \in DOMAIN skid /\ skid'[i] = skid[i] /\ i \in Nat /\ chunk' = chunk
        BY <1>3, <2>2
      <3>2. /\ Good(skid[i]) /\ skid[i].c <= chunk /\ (skid[i].last <=> EndsPage(skid[i]))
            /\ skid[i].c < chunk => Entered <= (len - i) * PerBeat(ThisType)
        BY <1>2, <3>1 DEF SkidInv
      <3>4. ASSUME skid[i].c < chunk PROVE Entered' <= (Len(skid') - i) * PerBeat(ThisType)'
        <4>1. Entered + b.n <= ((len - i) + 1) * PerBeat(ThisType)
          BY <1>5, <1>6, <3>1, <3>2, <3>4, Distance, SMTT(60)
        <4>2. (len - i) + 1 = Len(skid') - i
          BY <1>3, <3>1
        <4>3. QED
          BY <1>6, <4>1, <4>2
      <3>5. QED
        BY <3>1, <3>2, <3>4
    <2>3. QED
      BY <2>1, <2>2
  <1>8. Chain(skid, GatePlace, EntryPlace)'
    <2>1. PlaceOf(b) = EntryPlace
      BY <1>5 DEF PlaceOf, EntryPlace, Place
    <2>2. EntryPlace' = PlaceAfter(b)
      BY DEF EntryPlace, PlaceAfter, Place
    <2>3. Chain(skid', GatePlace', EntryPlace')
      BY <1>1, <2>1, <2>2, ChainAppend DEF SkidInv
    <2>4. QED
      BY <2>3, ChainFrame
  <1>9. QED
    BY <1>4, <1>7, <1>8, BeatsFrame DEF SkidInv

\* A beat enters TypedNormalizeUntil.
LEMMA AcceptStep ==
  ASSUME TypeOK, PageConfsInv, StepInv, CountInv, SourceInv, PlainInv, HybridInv, DictInv,
         StreamInv, HybridOut \/ PlainOut
  PROVE  StreamInv'
  <1>1. PICK b : Enters(b)
    BY HybridEnters, PlainEnters
  <1>2. UNCHANGED <<work, fsm_vars>> /\ state = "PROCESS_PAGE"
    <2>1. UNCHANGED <<work, fsm_vars>> /\ "out_select" \in valid
      BY DEF HybridOut, HybridAtMux, PlainOut, PlainAtMux
    <2>2. QED
      BY <2>1 DEF PageConfsInv, PageConfsConsumed
  <1>3. chunk > 0 /\ chunk \in Nat /\ chunk \in DOMAIN work /\ chunk' = chunk /\ work' = work
    BY <1>2, Places DEF fsm_vars
  <1>4. /\ Len(skid) < SkidDepth /\ skid' = Append(skid, b) /\ Configure(b)
        /\ UNCHANGED <<pipe, out>>
        /\ b \in OutBeat /\ Good(b) /\ b.c = chunk /\ (b.last <=> EndsPage(b))
        /\ Before(b) = Entered /\ Entered' = Entered + b.n
    BY <1>1 DEF Enters, NormalizeAccept
  <1>5. "num_values" \in valid' <=> "num_values" \in valid /\ ~TakesSize
    <2>1. Watched = Confs
      BY <1>2 DEF Watched
    <2>2. PICK more : more \subseteq {"out_select", "plain_type"}
                      /\ Consume(more \cup (IF TakesSize THEN {"num_values"} ELSE {}))
      BY <1>1 DEF Enters, NormalizeAccept
    <2>3. QED
      BY <2>1, <2>2 DEF Consume, Confs
  <1>6. /\ typ_fifo \in Seq(Types) /\ remaining \in Nat /\ Closed \in Nat /\ Sized \in Int
        /\ Closed' = Closed /\ OutPlace' = OutPlace
    BY <1>4, OutRegs DEF Closed, OutPlace
  <1>7. /\ work[chunk].num_values \in Nat \ {0} /\ work[chunk].typ \in Types
        /\ b.typ = work[chunk].typ
    BY <1>3, <1>4, WorkFields DEF Good
  <1>8. /\ GatePlace' = GatePlace /\ GateInv' /\ Closed' <= Sized'
        /\ typ_fifo' = [j \in 1..(Sized' - Closed') |-> work'[Closed' + j].typ]
    <2>1. CASE TakesSize
      <3>1. /\ remaining = 0 /\ "num_values" \in valid /\ "num_values" \notin valid'
            /\ remaining' = work[chunk].num_values /\ in_typ' = b.typ
            /\ typ_fifo' = Append(typ_fifo, b.typ)
        BY <1>4, <1>5, <2>1 DEF TakesSize, Configure, CountInv, DrivenForPage
      <3>2. Sized = chunk - 1 /\ Sized' = chunk
        BY <1>3, <3>1 DEF Sized
      <3>3. GatePlace = [c |-> chunk, g |-> 0] /\ GatePlace' = [c |-> chunk, g |-> 0]
        BY <1>3, <1>7, <3>1, <3>2 DEF GatePlace
      <3>4. GateInv'
        BY <1>3, <1>7, <3>1, <3>2 DEF GateInv, TakesSize
      <3>5. Closed <= Sized /\ typ_fifo = [j \in 1..(Sized - Closed) |-> work[Closed + j].typ]
        BY DEF StreamInv, PipeInv
      <3>6. PICK k \in Nat : k = Sized - Closed
        BY <1>6, <3>5
      <3>7. typ_fifo = [j \in 1..k |-> work[Closed + j].typ] /\ Len(typ_fifo) = k
        BY <1>6, <3>5, <3>6
      <3>8. Sized' - Closed' = k + 1 /\ Closed' <= Sized' /\ Closed + (k + 1) = chunk
        BY <1>3, <1>6, <3>2, <3>6
      <3>9. Append(typ_fifo, b.typ) = [j \in 1..(k + 1) |-> IF j = k + 1 THEN b.typ ELSE typ_fifo[j]]
        BY <1>6, <3>7
      <3>10. \A j \in 1..(k + 1) :
               (IF j = k + 1 THEN b.typ ELSE typ_fifo[j]) = work[Closed + j].typ
        <4>1. SUFFICES ASSUME NEW j \in 1..(k + 1)
                       PROVE  (IF j = k + 1 THEN b.typ ELSE typ_fifo[j]) = work[Closed + j].typ
          OBVIOUS
        <4>2. CASE j = k + 1
          BY <1>7, <3>8, <4>2
        <4>3. CASE j # k + 1
          <5>1. j \in 1..k
            BY <4>3
          <5>2. QED
            BY <3>7, <4>3, <5>1
        <4>4. QED
          BY <4>2, <4>3
      <3>11. typ_fifo' = [j \in 1..(k + 1) |-> work[Closed + j].typ]
        BY <3>1, <3>9, <3>10
      <3>12. QED
        BY <1>3, <1>6, <3>3, <3>4, <3>8, <3>11
    <2>2. CASE ~TakesSize
      <3>1. UNCHANGED <<remaining, in_typ, typ_fifo>> /\ ("num_values" \in valid' <=> "num_values" \in valid)
        BY <1>4, <1>5, <2>2 DEF Configure
      <3>2. Sized' = Sized /\ ~TakesSize'
        BY <1>3, <2>2, <3>1 DEF Sized, TakesSize
      <3>3. GatePlace' = GatePlace /\ GateInv'
        BY <1>3, <3>1, <3>2 DEF GatePlace, GateInv, StreamInv
      <3>4. QED
        BY <1>3, <1>6, <3>1, <3>2, <3>3 DEF StreamInv, PipeInv
    <2>3. QED
      BY <2>1, <2>2
  <1>9. SkidInv'
    BY <1>3, <1>4, <1>8, SkidTakes DEF StreamInv
  <1>10. PipeInv'
    <2>1. Chain(pipe, OutPlace, GatePlace)'
      <3>1. Chain(pipe', OutPlace', GatePlace')
        BY <1>4, <1>6, <1>8 DEF StreamInv, PipeInv
      <3>2. QED
        BY <1>3, <3>1, ChainFrame
    <2>2. \A i \in DOMAIN pipe' : Good(pipe[i])' /\ (pipe'[i].last <=> EndsChunk(pipe[i])')
      BY <1>3, <1>4, BeatsFrame DEF StreamInv, PipeInv
    <2>3. /\ \A k \in DOMAIN out' : k < Len(out') => out'[k].closed
          /\ Closed' < Len(out') => out'[Len(out')].typ = work'[Len(out')].typ
      BY <1>3, <1>4, <1>6 DEF StreamInv, PipeInv
    <2>4. QED
      BY <1>8, <2>1, <2>2, <2>3 DEF PipeInv
  <1>11. QED
    BY <1>8, <1>9, <1>10 DEF StreamInv

\* The counting of TypedNormalizeUntil: a beat of the register's type counts its values,
\* and the counter does not wrap.
LEMMA CountsValues ==
  ASSUME NEW b \in OutBeat, in_typ = b.typ, in_typ # NoType,
         b.n <= remaining, b.n \in Nat \ {0}, remaining \in Nat, remaining < SizeMod
  PROVE  InNumValues(b) = b.n /\ NextRemaining(b) = remaining - b.n
  <1>1. Width[b.typ] \in Nat \ {0}
    BY WidthAssumption DEF OutBeat
  <1>2. ASSUME NEW n \in Nat, NEW w \in Nat \ {0} PROVE (n * w) \div w = n
    <2>1. n * w \in Int /\ n * w = w * n + 0
      OBVIOUS
    <2>2. QED
      BY <1>2, <2>1, SMTT(30)
  <1>3. InNumValues(b) = b.n
    BY <1>1, <1>2 DEF InNumValues
  <1>4. ASSUME NEW m \in Nat \ {0}, NEW x \in Nat, x < m PROVE (x + m) % m = x
    BY <1>4, SMTT(30)
  <1>5. SizeMod \in Nat \ {0}
    BY SizeModAssumption
  <1>6. PICK x \in Nat : x = remaining - b.n
    OBVIOUS
  <1>7. x < SizeMod /\ remaining + SizeMod - b.n = x + SizeMod
    BY <1>5, <1>6
  <1>8. NextRemaining(b) = x
    BY <1>3, <1>4, <1>5, <1>7 DEF NextRemaining
  <1>9. QED
    BY <1>3, <1>6, <1>8

\* What the gate sees of its first beat.
LEMMA GateFirst ==
  ASSUME TypeOK, StreamInv, remaining # 0, skid # <<>>, NEW b, b = skid[1]
  PROVE  /\ b \in OutBeat /\ Good(b) /\ b.c = Sized /\ b.c <= chunk
         /\ Before(b) = work[Sized].num_values - remaining
         /\ Sized \in DOMAIN work /\ Sized \in Nat \ {0} /\ work[Sized].num_values \in Nat \ {0}
         /\ InNumValues(b) = b.n /\ NextRemaining(b) = remaining - b.n
         /\ b.n \in Nat \ {0} /\ b.n <= remaining
         /\ (b.last /\ NextRemaining(b) = 0) <=> EndsChunk(b)
         /\ EndsChunk(b) <=> remaining = b.n
         /\ in_typ = work[Sized].typ
         /\ Len(skid) \in Nat \ {0}
  <1>1. /\ skid \in Seq(OutBeat) /\ remaining \in Nat /\ Sized \in Int
    BY OutRegs
  <1>2. /\ 1 \in DOMAIN skid /\ b \in OutBeat /\ Len(skid) \in Nat \ {0}
    BY <1>1
  <1>3. /\ Good(b) /\ b.c <= chunk /\ (b.last <=> EndsPage(b)) /\ PlaceOf(b) = GatePlace
    BY <1>2 DEF StreamInv, SkidInv, Chain
  <1>4. GatePlace = [c |-> Sized, g |-> work[Sized].num_values - remaining]
    BY DEF GatePlace
  <1>5. b.c = Sized /\ Before(b) = work[Sized].num_values - remaining
    BY <1>3, <1>4 DEF PlaceOf
  <1>6. /\ b.c \in DOMAIN work /\ b.c \in Nat \ {0} /\ b.n \in Nat \ {0}
        /\ work[b.c].num_values \in Nat \ {0} /\ Before(b) + b.n <= work[b.c].num_values
        /\ EndsChunk(b) => EndsPage(b)
    BY <1>2, <1>3, BeatPlace
  <1>7. in_typ = work[Sized].typ /\ remaining <= work[Sized].num_values
    BY DEF StreamInv, GateInv
  <1>8. b.typ = work[Sized].typ /\ in_typ # NoType
    <2>1. work[Sized].typ \in Types
      BY <1>5, <1>6, WorkFields
    <2>2. QED
      BY <1>3, <1>5, <1>7, <2>1, NoTypeAssumption DEF Good
  <1>9. work[Sized].num_values < SizeMod
    BY <1>5, <1>6, WorkFields DEF WellFormed
  <1>10. PICK nv \in Nat : nv = work[Sized].num_values
    BY <1>5, <1>6
  <1>11. b.n <= remaining /\ remaining < SizeMod
    BY <1>1, <1>5, <1>6, <1>7, <1>9, <1>10, SizeModAssumption
  <1>12. InNumValues(b) = b.n /\ NextRemaining(b) = remaining - b.n
    BY <1>1, <1>2, <1>6, <1>7, <1>8, <1>11, CountsValues
  <1>13. EndsChunk(b) <=> remaining = b.n
    <2>1. EndsChunk(b) <=> Before(b) + b.n = nv
      BY <1>5, <1>10 DEF EndsChunk
    <2>2. QED
      BY <1>1, <1>5, <1>6, <1>10, <2>1
  <1>14. (b.last /\ NextRemaining(b) = 0) <=> EndsChunk(b)
    BY <1>1, <1>3, <1>6, <1>12, <1>13
  <1>15. QED
    BY <1>2, <1>3, <1>5, <1>6, <1>7, <1>11, <1>12, <1>13, <1>14

\* The first beat leaves the skid buffer.
LEMMA SkidGives ==
  ASSUME TypeOK, SkidInv, skid # <<>>, skid' = Tail(skid), chunk > 0, chunk \in DOMAIN work,
         UNCHANGED <<work, chunk>>, Entered' = Entered, EntryPlace' = EntryPlace,
         GatePlace' = PlaceAfter(skid[1])
  PROVE  SkidInv' /\ Len(skid') < SkidDepth
  <1>1. skid \in Seq(OutBeat) /\ SkidDepth \in Nat
    BY OutRegs
  <1>2. PICK len \in Nat \ {0} : len = Len(skid)
    BY <1>1
  <1>3. /\ Len(skid') = len - 1 /\ DOMAIN skid' = 1..(len - 1) /\ DOMAIN skid = 1..len
        /\ \A i \in 1..(len - 1) : skid'[i] = skid[i + 1]
    BY <1>1, <1>2, TailFacts
  <1>4. Len(skid') <= SkidDepth /\ Len(skid') < SkidDepth
    BY <1>1, <1>2, <1>3 DEF SkidInv
  <1>5. PerBeat(ThisType)' = PerBeat(ThisType)
    BY DEF ThisType, PerBeat
  <1>6. ASSUME NEW i \in DOMAIN skid'
        PROVE  /\ Good(skid'[i]) /\ skid'[i].c <= chunk'
               /\ skid'[i].last <=> EndsPage(skid'[i])
               /\ skid'[i].c < chunk' => Entered' <= (Len(skid') - i) * PerBeat(ThisType)'
    <2>1. i + 1 \in DOMAIN skid /\ skid'[i] = skid[i + 1] /\ i \in Nat
      BY <1>3
    <2>2. Len(skid') - i = Len(skid) - (i + 1)
      BY <1>2, <1>3, <2>1
    <2>3. QED
      BY <1>5, <2>1, <2>2 DEF SkidInv
  <1>7. Chain(skid, GatePlace, EntryPlace)'
    <2>1. Chain(skid', GatePlace', EntryPlace')
      BY <1>1, ChainTail DEF SkidInv
    <2>2. QED
      BY <2>1, ChainFrame
  <1>8. QED
    BY <1>4, <1>6, <1>7, BeatsFrame DEF SkidInv

\* A beat passes the gate.
LEMMA GateStep ==
  ASSUME TypeOK, PageConfsInv, StepInv, CountInv, SourceInv, PlainInv, HybridInv, DictInv,
         StreamInv, NormalizeGate
  PROVE  StreamInv'
  <1>1. PICK b : b = skid[1]
    OBVIOUS
  <1>2. PICK last \in BOOLEAN : last = (b.last /\ NextRemaining(b) = 0)
    OBVIOUS
  <1>3. /\ remaining # 0 /\ skid # <<>> /\ skid' = Tail(skid)
        /\ remaining' = NextRemaining(b) /\ in_typ' = (IF last THEN NoType ELSE in_typ)
        /\ pipe' = Append(pipe, [b EXCEPT !.last = last])
        /\ UNCHANGED <<work, fsm_vars, conf_vars, typ_fifo, out>>
    <2>1. skid # <<>> /\ skid \in Seq(OutBeat)
      BY OutRegs DEF NormalizeGate
    <2>2. Head(skid) = b
      BY <1>1, <2>1
    <2>3. QED
      BY <1>2, <2>2 DEF NormalizeGate
  <1>4. /\ b \in OutBeat /\ Good(b) /\ b.c = Sized /\ b.c <= chunk
        /\ Before(b) = work[Sized].num_values - remaining
        /\ Sized \in DOMAIN work /\ Sized \in Nat \ {0} /\ work[Sized].num_values \in Nat \ {0}
        /\ NextRemaining(b) = remaining - b.n
        /\ b.n \in Nat \ {0} /\ b.n <= remaining
        /\ last <=> EndsChunk(b)
        /\ EndsChunk(b) <=> remaining = b.n
        /\ in_typ = work[Sized].typ
    BY <1>1, <1>2, <1>3, GateFirst
  <1>5. Entered' = Entered /\ UNCHANGED <<work, chunk, valid>> /\ state' = state
    <2>1. ~TakeChunkConf /\ ~HybridOut /\ ~PlainOut
      BY <1>3 DEF TakeChunkConf, HybridOut, PlainOut, NormalizeAccept, norm_vars
    <2>2. [Next]_vars
      BY DEF Next, System
    <2>3. QED
      BY <1>3, <2>1, <2>2, EnteredStays DEF fsm_vars, conf_vars
  <1>6. /\ Sized' = Sized /\ Closed' = Closed /\ OutPlace' = OutPlace /\ EntryPlace' = EntryPlace
        /\ remaining \in Nat /\ skid \in Seq(OutBeat) /\ pipe \in Seq(OutBeat)
        /\ chunk \in DOMAIN work /\ chunk > 0 /\ chunk \in Nat
    <2>1. chunk \in Nat /\ remaining \in Nat /\ skid \in Seq(OutBeat) /\ pipe \in Seq(OutBeat)
      BY OutRegs
    <2>2. chunk > 0
      BY <1>4, <2>1
    <2>3. chunk \in DOMAIN work
      BY <2>2, Places
    <2>4. QED
      BY <1>3, <1>5, <2>1, <2>2, <2>3 DEF Sized, Closed, OutPlace, EntryPlace, Place
  <1>7. remaining' = remaining - b.n /\ (remaining' = 0 <=> last)
    BY <1>3, <1>4, <1>6
  <1>8. GatePlace' = PlaceAfter(b)
    <2>1. PICK nv \in Nat : nv = work[Sized].num_values
      BY <1>4
    <2>2. Before(b) + b.n = nv - remaining'
      BY <1>4, <1>6, <1>7, <2>1
    <2>3. PlaceAfter(b) = IF remaining' = 0 THEN [c |-> Sized + 1, g |-> 0]
                          ELSE [c |-> Sized, g |-> nv - remaining']
      <3>1. b.c = Sized /\ work[b.c].num_values = nv
        BY <1>4, <2>1
      <3>2. remaining' \in Int
        BY <1>6, <1>7, <2>2, <1>4
      <3>3. nv - remaining' = nv <=> remaining' = 0
        BY <2>1, <3>2
      <3>4. PlaceAfter(b) = IF nv - remaining' = nv THEN [c |-> Sized + 1, g |-> 0]
                            ELSE [c |-> Sized, g |-> nv - remaining']
        BY <2>2, <3>1 DEF PlaceAfter, Place
      <3>5. QED
        BY <3>3, <3>4
    <2>4. QED
      BY <1>3, <1>6, <2>1, <2>3 DEF GatePlace
  <1>9. SkidInv' /\ Len(skid') < SkidDepth
    BY <1>1, <1>3, <1>5, <1>6, <1>8, SkidGives DEF StreamInv
  <1>10. GateInv'
    <2>1. remaining' # 0 => Sized' > 0 /\ remaining' <= work'[Sized'].num_values
      <3>1. remaining <= work[Sized].num_values
        BY <1>3 DEF StreamInv, GateInv
      <3>2. QED
        BY <1>3, <1>4, <1>6, <1>7, <3>1
    <2>2. in_typ' = IF remaining' = 0 THEN NoType ELSE work'[Sized'].typ
      BY <1>3, <1>4, <1>6, <1>7
    <2>3. TakesSize' => Len(skid') < SkidDepth /\ Entered' < work'[chunk'].num_values
      BY <1>5, <1>9, SizeBeforeEnd DEF TakesSize
    <2>4. QED
      BY <2>1, <2>2, <2>3 DEF GateInv
  <1>11. PipeInv'
    <2>1. PICK d : d = [b EXCEPT !.last = last]
      OBVIOUS
    <2>2. /\ d.c = b.c /\ d.p = b.p /\ d.at = b.at /\ d.n = b.n /\ d.typ = b.typ
          /\ d.dict = b.dict /\ d.last = last /\ d \in OutBeat
      BY <1>4, <2>1 DEF OutBeat
    <2>3. /\ Good(d) /\ PlaceOf(d) = PlaceOf(b) /\ PlaceAfter(d) = PlaceAfter(b)
          /\ (d.last <=> EndsChunk(d))
      BY <1>4, <2>2 DEF Good, PlaceOf, PlaceAfter, EndsChunk, Before
    <2>4. PlaceOf(b) = GatePlace
      BY <1>3, <1>4 DEF PlaceOf, GatePlace
    <2>5. Chain(pipe, OutPlace, GatePlace)'
      <3>1. Chain(pipe', OutPlace', GatePlace')
        BY <1>3, <1>6, <1>8, <2>1, <2>2, <2>3, <2>4, ChainAppend DEF StreamInv, PipeInv
      <3>2. QED
        BY <1>5, <3>1, ChainFrame
    <2>6. \A i \in DOMAIN pipe' : (i \in DOMAIN pipe /\ pipe'[i] = pipe[i]) \/ pipe'[i] = d
      BY <1>3, <1>6, <2>1
    <2>7. \A i \in DOMAIN pipe' : Good(pipe'[i]) /\ (pipe'[i].last <=> EndsChunk(pipe'[i]))
      BY <2>3, <2>6 DEF StreamInv, PipeInv
    <2>8. QED
      BY <1>3, <1>5, <1>6, <2>5, <2>7, BeatsFrame DEF StreamInv, PipeInv
  <1>12. QED
    BY <1>9, <1>10, <1>11 DEF StreamInv

LEMMA Joined ==
  ASSUME NEW S, NEW q \in Seq(S), NEW r \in Seq(S)
  PROVE  q \o r \in Seq(S) /\ Len(q \o r) = Len(q) + Len(r)
OBVIOUS

LEMMA SeqFunction ==
  ASSUME NEW S, NEW q \in Seq(S)
  PROVE  q = [j \in 1..Len(q) |-> q[j]]
OBVIOUS

\* The open transfer is the one behind the closed ones.
LEMMA OpenTransfer ==
  ASSUME TypeOK, StreamInv
  PROVE  /\ Stream!Open <=> Closed < Len(out)
         /\ Stream!Current = Closed + 1
         /\ Stream!Open => Len(out) = Closed + 1 /\ Len(out) \in DOMAIN out
         /\ ~Stream!Open => Len(out) = Closed
         /\ Stream!Received \in Seq(Nat \X Nat \X Int \X Nat)
         /\ OutPlace = [c |-> Closed + 1, g |-> Len(Stream!Received)]
         /\ \A k \in 1..Closed : k \in DOMAIN out /\ out[k].closed
         /\ Stream!Open => out[Len(out)].typ = work[Closed + 1].typ
  <1>1. out \in Seq(Transfer) /\ Len(out) \in Nat /\ (out # <<>> <=> Len(out) > 0)
        /\ DOMAIN out = 1..Len(out)
    BY OutRegs
  <1>2. Stream!Open <=> out # <<>> /\ ~out[Len(out)].closed
    BY DEF Stream!Open
  <1>3. Closed = IF Stream!Open THEN Len(out) - 1 ELSE Len(out)
    BY <1>2 DEF Closed
  <1>4. Stream!Open => Len(out) \in DOMAIN out /\ Len(out) > 0
    BY <1>1, <1>2
  <1>5. /\ Stream!Open <=> Closed < Len(out)
        /\ Stream!Open => Len(out) = Closed + 1
        /\ ~Stream!Open => Len(out) = Closed
        /\ Stream!Current = Closed + 1
    <2>1. CASE Stream!Open
      <3>1. Closed = Len(out) - 1 /\ Stream!Current = Len(out)
        BY <1>3, <2>1 DEF Stream!Current
      <3>2. QED
        BY <1>1, <2>1, <3>1
    <2>2. CASE ~Stream!Open
      <3>1. Closed = Len(out) /\ Stream!Current = Len(out) + 1
        BY <1>3, <2>2 DEF Stream!Current
      <3>2. PICK len \in Nat : len = Len(out)
        BY <1>1
      <3>3. ~(Closed < Len(out)) /\ Stream!Current = Closed + 1
        BY <3>1, <3>2
      <3>4. QED
        BY <2>2, <3>1, <3>3
    <2>3. QED
      BY <2>1, <2>2
  <1>6. Stream!Received \in Seq(Nat \X Nat \X Int \X Nat)
    <2>1. CASE Stream!Open
      <3>1. out[Len(out)] \in Transfer
        BY <1>1, <1>4, <2>1
      <3>2. out[Len(out)].vals \in Seq(Nat \X Nat \X Int \X Nat)
        BY <3>1 DEF Transfer
      <3>3. QED
        BY <2>1, <3>2 DEF Stream!Received
    <2>2. CASE ~Stream!Open
      BY <2>2 DEF Stream!Received
    <2>3. QED
      BY <2>1, <2>2
  <1>7. OutPlace = [c |-> Closed + 1, g |-> Len(Stream!Received)]
    <2>1. CASE Stream!Open
      BY <1>5, <2>1 DEF OutPlace, Stream!Received
    <2>2. CASE ~Stream!Open
      <3>1. Stream!Received = <<>>
        BY <2>2 DEF Stream!Received
      <3>2. QED
        BY <1>5, <2>2, <3>1 DEF OutPlace
    <2>3. QED
      BY <2>1, <2>2
  <1>8. ASSUME NEW k \in 1..Closed PROVE k \in DOMAIN out /\ out[k].closed
    <2>1. Closed \in Nat /\ Closed <= Len(out)
      BY OutRegs
    <2>2. k \in DOMAIN out
      BY <1>1, <2>1
    <2>3. CASE k < Len(out)
      BY <2>2, <2>3 DEF StreamInv, PipeInv
    <2>4. CASE k = Len(out)
      <3>1. ~(Closed < Len(out)) /\ Len(out) > 0
        BY <1>1, <2>1, <2>4
      <3>2. ~Stream!Open /\ out # <<>>
        BY <1>1, <1>5, <3>1
      <3>3. QED
        BY <1>2, <2>2, <2>4, <3>2
    <2>5. k < Len(out) \/ k = Len(out)
      <3>1. PICK len \in Nat : len = Len(out)
        BY <1>1
      <3>2. QED
        BY <2>1, <3>1
    <2>6. QED
      BY <2>2, <2>3, <2>4, <2>5
  <1>9. Stream!Open => out[Len(out)].typ = work[Closed + 1].typ
    BY <1>5 DEF StreamInv, PipeInv
  <1>10. QED
    BY <1>4, <1>5, <1>6, <1>7, <1>8, <1>9

\* What the sink takes: the beat's values, behind those of the same chunk.
LEMMA DeliverForm ==
  ASSUME TypeOK, StreamInv, Deliver
  PROVE  \E b \in OutBeat, t \in Transfer :
           /\ pipe # <<>> /\ b = pipe[1] /\ pipe' = Tail(pipe)
           /\ Good(b) /\ (b.last <=> EndsChunk(b)) /\ b.c = Closed + 1
           /\ Before(b) = Len(Stream!Received)
           /\ t = [typ |-> work[b.c].typ,
                   vals |-> Stream!Received \o [i \in 1..b.n |-> <<b.c, b.p, b.at + i, b.dict>>],
                   closed |-> b.last]
           /\ out' = IF Stream!Open THEN [out EXCEPT ![Len(out)] = t] ELSE Append(out, t)
           /\ Closed < Sized
           /\ typ_fifo' = (IF b.last THEN Tail(typ_fifo) ELSE typ_fifo)
           /\ UNCHANGED <<work, fsm_vars, conf_vars, norm_vars>>
  <1>1. pipe # <<>> /\ typ_fifo # <<>>
    BY DEF Deliver
  <1>2. /\ pipe \in Seq(OutBeat) /\ typ_fifo \in Seq(Types) /\ Closed \in Nat /\ Sized \in Int
    BY OutRegs
  <1>3. PICK b : b = pipe[1]
    OBVIOUS
  <1>4. b \in OutBeat /\ Head(pipe) = b /\ 1 \in DOMAIN pipe
    BY <1>1, <1>2, <1>3
  <1>5. Good(b) /\ (b.last <=> EndsChunk(b)) /\ PlaceOf(b) = OutPlace
    BY <1>1, <1>3, <1>4 DEF StreamInv, PipeInv, Chain
  <1>6. b.c = Closed + 1 /\ Before(b) = Len(Stream!Received)
    BY <1>5, OpenTransfer DEF PlaceOf
  <1>7. Closed < Sized /\ Head(typ_fifo) = work[b.c].typ
    <2>1. typ_fifo = [j \in 1..(Sized - Closed) |-> work[Closed + j].typ]
      BY DEF StreamInv, PipeInv
    <2>2. Head(typ_fifo) = typ_fifo[1] /\ 1 \in DOMAIN typ_fifo
      BY <1>1, <1>2
    <2>3. 1 \in 1..(Sized - Closed)
      BY <2>1, <2>2
    <2>4. typ_fifo[1] = work[Closed + 1].typ
      BY <2>1, <2>3
    <2>5. QED
      BY <1>2, <1>6, <2>2, <2>3, <2>4
  <1>8. PICK vals : vals = [i \in 1..b.n |-> <<b.c, b.p, b.at + i, b.dict>>]
    OBVIOUS
  <1>9. vals \in Seq(Nat \X Nat \X Int \X Nat)
    <2>1. b.n \in Nat /\ b.at \in Int /\ b.c \in Nat /\ b.p \in Nat /\ b.dict \in Nat
      BY <1>4, <1>5, BeatPlace DEF OutBeat
    <2>2. QED
      BY <1>8, <2>1, SMTT(60)
  <1>10. PICK t : t = [typ |-> work[b.c].typ, vals |-> Stream!Received \o vals, closed |-> b.last]
    OBVIOUS
  <1>11. t \in Transfer
    <2>1. work[b.c].typ \in Types /\ b.last \in BOOLEAN
      BY <1>4, <1>5, WorkFields DEF Good, OutBeat
    <2>2. Stream!Received \o vals \in Seq(Nat \X Nat \X Int \X Nat)
      BY <1>9, OpenTransfer
    <2>3. QED
      BY <1>10, <2>1, <2>2 DEF Transfer
  <1>12. out' = IF Stream!Open THEN [out EXCEPT ![Len(out)] = t] ELSE Append(out, t)
    <2>1. Stream!Open <=> Len(out) > 0 /\ ~out[Len(out)].closed
      <3>1. out # <<>> <=> Len(out) > 0
        BY OutRegs
      <3>2. QED
        BY <3>1 DEF Stream!Open
    <2>2. CASE Stream!Open
      <3>1. out' = [out EXCEPT ![Len(out)] = Extended(out[Len(out)], vals, b.last)]
        BY <1>4, <1>8, <2>1, <2>2 DEF Deliver
      <3>2. Extended(out[Len(out)], vals, b.last) = t
        BY <1>6, <1>10, <2>2, OpenTransfer DEF Extended, Stream!Received
      <3>3. QED
        BY <2>2, <3>1, <3>2
    <2>3. CASE ~Stream!Open
      <3>1. out' = Append(out, [typ |-> Head(typ_fifo), vals |-> vals, closed |-> b.last])
        BY <1>4, <1>8, <2>1, <2>3 DEF Deliver
      <3>2. Stream!Received \o vals = vals
        BY <1>9, <2>3 DEF Stream!Received
      <3>3. QED
        BY <1>7, <1>10, <2>3, <3>1, <3>2
    <2>4. QED
      BY <2>2, <2>3
  <1>13. /\ pipe' = Tail(pipe) /\ typ_fifo' = (IF b.last THEN Tail(typ_fifo) ELSE typ_fifo)
         /\ UNCHANGED <<work, fsm_vars, conf_vars, norm_vars>>
    BY <1>4 DEF Deliver
  <1>14. QED
    BY <1>1, <1>3, <1>4, <1>5, <1>6, <1>7, <1>8, <1>10, <1>11, <1>12, <1>13

\* A beat reaches the sink.
LEMMA DeliverStep ==
  ASSUME TypeOK, PageConfsInv, StepInv, CountInv, SourceInv, PlainInv, HybridInv, DictInv,
         StreamInv, Deliver
  PROVE  StreamInv'
  <1>1. PICK b \in OutBeat, t \in Transfer :
           /\ pipe # <<>> /\ b = pipe[1] /\ pipe' = Tail(pipe)
           /\ Good(b) /\ (b.last <=> EndsChunk(b)) /\ b.c = Closed + 1
           /\ Before(b) = Len(Stream!Received)
           /\ t = [typ |-> work[b.c].typ,
                   vals |-> Stream!Received \o [i \in 1..b.n |-> <<b.c, b.p, b.at + i, b.dict>>],
                   closed |-> b.last]
           /\ out' = IF Stream!Open THEN [out EXCEPT ![Len(out)] = t] ELSE Append(out, t)
           /\ Closed < Sized
           /\ typ_fifo' = (IF b.last THEN Tail(typ_fifo) ELSE typ_fifo)
           /\ UNCHANGED <<work, fsm_vars, conf_vars, norm_vars>>
    BY DeliverForm
  <1>2. Entered' = Entered /\ UNCHANGED <<work, chunk, valid, remaining, in_typ, skid>>
    <2>1. ~TakeChunkConf /\ ~HybridOut /\ ~PlainOut
      <3>1. pipe' # pipe
        <4>1. pipe \in Seq(OutBeat)
          BY OutRegs
        <4>2. Len(Tail(pipe)) = Len(pipe) - 1 /\ Len(pipe) \in Nat
          BY <1>1, <4>1, TailFacts
        <4>3. pipe' = Tail(pipe)
          BY <1>1
        <4>4. QED
          BY <4>2, <4>3
      <3>2. QED
        BY <3>1 DEF TakeChunkConf, HybridOut, PlainOut, NormalizeAccept, out_vars
    <2>2. [Next]_vars
      BY DEF Next, System
    <2>3. QED
      BY <1>1, <2>1, <2>2, EnteredStays DEF fsm_vars, conf_vars, norm_vars
  <1>3. /\ Sized' = Sized /\ GatePlace' = GatePlace /\ EntryPlace' = EntryPlace
        /\ pipe \in Seq(OutBeat) /\ typ_fifo \in Seq(Types) /\ out \in Seq(Transfer)
        /\ Closed \in Nat /\ Sized \in Int /\ Len(out) \in Nat
    BY <1>2, OutRegs DEF Sized, GatePlace, EntryPlace, Place
  <1>4. SkidInv'
    <2>1. Chain(skid, GatePlace, EntryPlace)'
      <3>1. Chain(skid', GatePlace', EntryPlace')
        BY <1>2, <1>3 DEF StreamInv, SkidInv
      <3>2. QED
        BY <1>2, <3>1, ChainFrame
    <2>2. PerBeat(ThisType)' = PerBeat(ThisType)
      BY <1>2 DEF ThisType, PerBeat
    <2>3. QED
      BY <1>2, <2>1, <2>2, BeatsFrame DEF StreamInv, SkidInv
  <1>5. GateInv'
    BY <1>2, <1>3 DEF StreamInv, GateInv, TakesSize
  <1>6. PICK m \in Nat \ {0} : m = Closed + 1
    BY <1>3
  <1>7. /\ Len(out') = m /\ out'[m] = t /\ DOMAIN out' = 1..m /\ out' # <<>>
        /\ \A k \in 1..(m - 1) : out'[k].closed
    <2>1. CASE Stream!Open
      <3>1. Len(out) = m /\ m \in DOMAIN out
        BY <1>6, <2>1, OpenTransfer
      <3>2. out' = [out EXCEPT ![m] = t]
        BY <1>1, <2>1, <3>1
      <3>3. Len(out') = m /\ out'[m] = t /\ DOMAIN out' = 1..m /\ out' # <<>>
            /\ \A k \in 1..(m - 1) : out'[k] = out[k]
        BY <1>3, <3>1, <3>2
      <3>4. QED
        BY <1>3, <1>6, <3>3, OpenTransfer
    <2>2. CASE ~Stream!Open
      <3>1. Len(out) = m - 1
        BY <1>3, <1>6, <2>2, OpenTransfer
      <3>2. out' = Append(out, t)
        BY <1>1, <2>2
      <3>3. Len(out') = m /\ out'[m] = t /\ DOMAIN out' = 1..m /\ out' # <<>>
            /\ \A k \in 1..(m - 1) : out'[k] = out[k]
        BY <1>3, <3>1, <3>2
      <3>4. QED
        BY <1>3, <1>6, <3>3, OpenTransfer
    <2>3. QED
      BY <2>1, <2>2
  <1>8. t.closed = b.last /\ t.typ = work[m].typ /\ Len(t.vals) = Before(b) + b.n
    <2>1. t.closed = b.last /\ t.typ = work[m].typ
      BY <1>1, <1>6
    <2>2. PICK vals : vals = [i \in 1..b.n |-> <<b.c, b.p, b.at + i, b.dict>>]
      OBVIOUS
    <2>3. b.n \in Nat
      BY <1>1, BeatPlace
    <2>4. vals \in Seq(Nat \X Nat \X Int \X Nat) /\ Len(vals) = b.n
      <3>1. b.at \in Int /\ b.c \in Nat /\ b.p \in Nat /\ b.dict \in Nat
        BY DEF OutBeat
      <3>2. QED
        BY <2>2, <2>3, <3>1, SMTT(60)
    <2>5. Len(Stream!Received \o vals) = Len(Stream!Received) + Len(vals)
      <3>1. PICK r \in Seq(Nat \X Nat \X Int \X Nat) : r = Stream!Received
        BY OpenTransfer
      <3>2. Len(r \o vals) = Len(r) + Len(vals)
        BY <2>4, Joined
      <3>3. QED
        BY <3>1, <3>2
    <2>6. t.vals = Stream!Received \o vals
      BY <1>1, <2>2
    <2>7. QED
      BY <1>1, <2>1, <2>4, <2>5, <2>6
  <1>9. Closed' = IF b.last THEN m ELSE m - 1
    BY <1>7, <1>8 DEF Closed
  <1>10. OutPlace' = PlaceAfter(b)
    <2>1. b.last <=> Before(b) + b.n = work[b.c].num_values
      BY <1>1 DEF EndsChunk
    <2>2. CASE b.last
      BY <1>1, <1>6, <1>7, <1>9, <2>1, <2>2, SMTT(60) DEF OutPlace, PlaceAfter, Place
    <2>3. CASE ~b.last
      <3>1. Closed' < Len(out')
        BY <1>6, <1>7, <1>9, <2>3
      <3>2. OutPlace' = [c |-> m, g |-> Before(b) + b.n]
        BY <1>7, <1>8, <3>1 DEF OutPlace
      <3>3. b.c = m
        BY <1>1, <1>6
      <3>4. PlaceAfter(b) = [c |-> m, g |-> Before(b) + b.n]
        BY <2>1, <2>3, <3>3 DEF PlaceAfter, Place
      <3>5. QED
        BY <3>2, <3>4
    <2>4. QED
      BY <2>2, <2>3
  <1>11. Chain(pipe, OutPlace, GatePlace)'
    <2>1. Chain(pipe', OutPlace', GatePlace')
      BY <1>1, <1>3, <1>10, ChainTail DEF StreamInv, PipeInv
    <2>2. QED
      BY <1>2, <2>1, ChainFrame
  <1>12. \A i \in DOMAIN pipe' : Good(pipe'[i]) /\ (pipe'[i].last <=> EndsChunk(pipe'[i]))
    <2>1. PICK len \in Nat \ {0} : len = Len(pipe)
      BY <1>1, <1>3
    <2>2. \A i \in DOMAIN pipe' : i + 1 \in DOMAIN pipe /\ pipe'[i] = pipe[i + 1]
      <3>1. /\ Tail(pipe) \in Seq(OutBeat) /\ Len(Tail(pipe)) = len - 1
            /\ \A i \in 1..(len - 1) : Tail(pipe)[i] = pipe[i + 1]
        BY <1>1, <1>3, <2>1, TailFacts
      <3>2. DOMAIN pipe' = 1..(len - 1) /\ DOMAIN pipe = 1..len
        BY <1>1, <1>3, <2>1, <3>1
      <3>3. QED
        BY <1>1, <2>1, <3>1, <3>2
    <2>3. QED
      BY <2>2 DEF StreamInv, PipeInv
  <1>13. Closed' <= Sized' /\ typ_fifo' = [j \in 1..(Sized' - Closed') |-> work'[Closed' + j].typ]
    <2>1. typ_fifo = [j \in 1..(Sized - Closed) |-> work[Closed + j].typ] /\ Closed < Sized
      BY <1>1 DEF StreamInv, PipeInv
    <2>2. CASE b.last
      <3>1. PICK k \in Nat \ {0} : k = Sized - Closed
        BY <1>3, <2>1
      <3>2. typ_fifo = [j \in 1..k |-> work[Closed + j].typ] /\ Len(typ_fifo) = k /\ typ_fifo # <<>>
        BY <1>3, <2>1, <3>1
      <3>3. Closed' = Closed + 1 /\ Sized' - Closed' = k - 1 /\ Closed' <= Sized'
        BY <1>3, <1>6, <1>9, <2>1, <2>2, <3>1
      <3>4. /\ typ_fifo' = Tail(typ_fifo) /\ Tail(typ_fifo) \in Seq(Types)
            /\ Len(Tail(typ_fifo)) = k - 1
            /\ \A j \in 1..(k - 1) : Tail(typ_fifo)[j] = typ_fifo[j + 1]
        <4>1. typ_fifo' = Tail(typ_fifo)
          BY <1>1, <2>2
        <4>2. typ_fifo \in Seq(Types) /\ typ_fifo # <<>> /\ Len(typ_fifo) = k
          BY <1>1, <1>3, <3>2
        <4>3. PICK q \in Seq(Types) : q = typ_fifo
          BY <4>2
        <4>4. /\ Tail(q) \in Seq(Types) /\ Len(Tail(q)) = k - 1
              /\ \A j \in 1..(k - 1) : Tail(q)[j] = q[j + 1]
          BY <4>2, <4>3, TailFacts
        <4>5. QED
          BY <4>1, <4>3, <4>4
      <3>5. \A j \in 1..(k - 1) : Tail(typ_fifo)[j] = work[Closed' + j].typ
        <4>1. SUFFICES ASSUME NEW j \in 1..(k - 1)
                       PROVE  Tail(typ_fifo)[j] = work[Closed' + j].typ
          OBVIOUS
        <4>2. j + 1 \in 1..k /\ Closed + (j + 1) = Closed' + j
          BY <1>3, <3>3
        <4>3. QED
          BY <3>2, <3>4, <4>2
      <3>6. Tail(typ_fifo) = [j \in 1..(k - 1) |-> work[Closed' + j].typ]
        <4>1. PICK tl \in Seq(Types) : tl = Tail(typ_fifo)
          BY <3>4
        <4>2. tl = [j \in 1..Len(tl) |-> tl[j]] /\ Len(tl) = k - 1
          BY <3>4, <4>1, SeqFunction
        <4>3. tl = [j \in 1..(k - 1) |-> work[Closed' + j].typ]
          BY <3>5, <4>1, <4>2
        <4>4. QED
          BY <4>1, <4>3
      <3>7. QED
        BY <1>2, <3>3, <3>4, <3>6
    <2>3. CASE ~b.last
      <3>1. Closed' = Closed
        BY <1>3, <1>6, <1>9, <2>3
      <3>2. QED
        BY <1>1, <1>2, <1>3, <2>1, <2>3, <3>1
    <2>4. QED
      BY <2>2, <2>3
  <1>14. /\ \A k \in DOMAIN out' : k < Len(out') => out'[k].closed
         /\ Closed' < Len(out') => out'[Len(out')].typ = work'[Len(out')].typ
    <2>1. \A k \in DOMAIN out' : k < Len(out') => k \in 1..(m - 1)
      BY <1>7
    <2>2. QED
      BY <1>2, <1>7, <1>8, <2>1
  <1>15. PipeInv'
    BY <1>2, <1>11, <1>12, <1>13, <1>14, BeatsFrame DEF PipeInv
  <1>16. QED
    BY <1>4, <1>5, <1>15 DEF StreamInv

\* Nothing of StreamInv is about what else changes.
LEMMA StreamInvFrame ==
  ASSUME TypeOK, StreamInv, UNCHANGED <<work, chunk, norm_vars, out_vars>>, Entered' = Entered,
         "num_values" \in valid' <=> "num_values" \in valid
  PROVE  StreamInv'
  <1>1. UNCHANGED <<remaining, in_typ, skid, pipe, typ_fifo, out>>
    BY DEF norm_vars, out_vars
  <1>2. /\ Sized' = Sized /\ Closed' = Closed /\ GatePlace' = GatePlace /\ EntryPlace' = EntryPlace
        /\ OutPlace' = OutPlace
    BY <1>1 DEF Sized, Closed, GatePlace, EntryPlace, OutPlace, Place
  <1>3. SkidInv'
    <2>1. Chain(skid, GatePlace, EntryPlace)'
      <3>1. Chain(skid', GatePlace', EntryPlace')
        BY <1>1, <1>2 DEF StreamInv, SkidInv
      <3>2. QED
        BY <3>1, ChainFrame
    <2>2. PerBeat(ThisType)' = PerBeat(ThisType)
      BY DEF ThisType, PerBeat
    <2>3. QED
      BY <1>1, <2>1, <2>2, BeatsFrame DEF StreamInv, SkidInv
  <1>4. GateInv'
    BY <1>1, <1>2 DEF StreamInv, GateInv, TakesSize
  <1>5. PipeInv'
    <2>1. Chain(pipe, OutPlace, GatePlace)'
      <3>1. Chain(pipe', OutPlace', GatePlace')
        BY <1>1, <1>2 DEF StreamInv, PipeInv
      <3>2. QED
        BY <3>1, ChainFrame
    <2>2. QED
      BY <1>1, <1>2, <2>1, BeatsFrame DEF StreamInv, PipeInv
  <1>6. QED
    BY <1>3, <1>4, <1>5 DEF StreamInv

\* The FSM takes a chunk: what it drove for the one before is gone.
LEMMA StreamChunk ==
  ASSUME TypeOK, PageConfsInv, StepInv, CountInv, SourceInv, PlainInv, HybridInv, DictInv,
         StreamInv, TakeChunkConf
  PROVE  StreamInv'
  <1>1. /\ state = "IDLE" /\ chunk' = chunk + 1 /\ valid' = valid \cup {"num_values"}
        /\ UNCHANGED <<work, remaining, in_typ, skid, pipe, typ_fifo, out>>
    BY DEF TakeChunkConf, norm_vars, out_vars
  <1>2. "num_values" \notin valid
    BY <1>1, NumValuesFreed DEF NumValuesConsumed
  <1>3. /\ skid \in Seq(OutBeat) /\ chunk \in Nat /\ Sized = chunk /\ Sized' = chunk
        /\ Closed' = Closed /\ OutPlace' = OutPlace /\ GatePlace' = GatePlace
        /\ SkidDepth \in Nat \ {0} /\ Len(skid) \in Nat
    <2>1. chunk \in Nat /\ skid \in Seq(OutBeat) /\ SkidDepth \in Nat \ {0}
      BY OutRegs
    <2>2. Sized = chunk /\ Sized' = chunk
      BY <1>1, <1>2, <2>1 DEF Sized
    <2>3. QED
      BY <1>1, <2>1, <2>2 DEF Closed, OutPlace, GatePlace
  <1>4. /\ FsmPage' = 0 /\ chunk' \in DOMAIN work
    BY FsmPageAtChunk DEF CountInv
  <1>5. work[chunk'].num_values \in Nat \ {0} /\ work[chunk'].typ \in Types
    BY <1>4, WorkFields
  <1>6. Entered' = 0
    <2>1. valid \subseteq {"num_values"}
      BY <1>1 DEF PageConfsInv, PageConfsConsumed
    <2>2. PageLeft' = 0
      BY <1>1, <2>1 DEF PageLeft, PlainOn, HybridLeft, HybridOn
    <2>3. Upto(chunk, FsmPage)' = 0
      BY <1>4 DEF Upto
    <2>4. QED
      BY <1>1, <1>3, <2>2, <2>3 DEF Entered
  <1>7. EntryPlace' = EntryPlace
    <2>1. EntryPlace' = [c |-> chunk + 1, g |-> 0]
      BY <1>1, <1>3, <1>5, <1>6 DEF EntryPlace, Place
    <2>2. CASE chunk = 0
      BY <2>1, <2>2 DEF EntryPlace
    <2>3. CASE chunk # 0
      <3>1. Entered = work[chunk].num_values
        BY <1>1, <1>3, <2>3, EnteredAll
      <3>2. QED
        BY <2>1, <2>3, <3>1 DEF EntryPlace, Place
    <2>4. QED
      BY <2>2, <2>3
  <1>8. SkidInv'
    <2>1. Chain(skid, GatePlace, EntryPlace)'
      <3>1. Chain(skid', GatePlace', EntryPlace')
        BY <1>1, <1>3, <1>7 DEF StreamInv, SkidInv
      <3>2. QED
        BY <1>1, <3>1, ChainFrame
    <2>2. PerBeat(ThisType)' \in Nat
      <3>1. ThisType' \in Types
        BY <1>1, <1>5 DEF ThisType
      <3>2. PerBeat(ThisType') \in Nat
        BY <3>1, PerBeatPos
      <3>3. QED
        BY <3>2 DEF PerBeat
    <2>3. ASSUME NEW i \in DOMAIN skid'
          PROVE  /\ Good(skid'[i]) /\ skid'[i].c <= chunk'
                 /\ skid'[i].last <=> EndsPage(skid'[i])
                 /\ skid'[i].c < chunk' => Entered' <= (Len(skid') - i) * PerBeat(ThisType)'
      <3>1. /\ i \in DOMAIN skid /\ i \in Nat /\ i <= Len(skid) /\ skid[i] \in OutBeat
            /\ skid'[i] = skid[i]
        BY <1>1, <1>3
      <3>2. Good(skid[i]) /\ skid[i].c <= chunk /\ (skid[i].last <=> EndsPage(skid[i]))
        BY <3>1 DEF StreamInv, SkidInv
      <3>3. skid[i].c \in Nat
        BY <3>1 DEF OutBeat
      <3>4. 0 <= (Len(skid') - i) * PerBeat(ThisType)'
        <4>1. ASSUME NEW a \in Nat, NEW m \in Nat PROVE 0 <= a * m
          BY <4>1
        <4>2. Len(skid') - i \in Nat
          BY <1>1, <1>3, <3>1
        <4>3. QED
          BY <2>2, <4>1, <4>2
      <3>5. QED
        BY <1>1, <1>3, <1>6, <3>1, <3>2, <3>3, <3>4
    <2>4. QED
      BY <1>1, <2>1, <2>3, BeatsFrame DEF StreamInv, SkidInv
  <1>9. remaining = 0 => skid = <<>>
    <2>1. SUFFICES ASSUME remaining = 0, skid # <<>> PROVE FALSE
      OBVIOUS
    <2>2. PlaceOf(skid[1]) = [c |-> chunk + 1, g |-> 0]
      BY <1>3, <2>1 DEF StreamInv, SkidInv, Chain, GatePlace
    <2>3. skid[1].c = chunk + 1
      BY <2>2 DEF PlaceOf
    <2>4. 1 \in DOMAIN skid
      BY <1>3, <2>1
    <2>5. skid[1].c <= chunk
      BY <2>4 DEF StreamInv, SkidInv
    <2>6. QED
      BY <1>3, <2>3, <2>5
  <1>10. GateInv'
    <2>1. remaining' # 0 => Sized' > 0 /\ remaining' <= work'[Sized'].num_values
      BY <1>1, <1>3 DEF StreamInv, GateInv
    <2>2. in_typ' = IF remaining' = 0 THEN NoType ELSE work'[Sized'].typ
      BY <1>1, <1>3 DEF StreamInv, GateInv
    <2>3. TakesSize' => Len(skid') < SkidDepth /\ Entered' < work'[chunk'].num_values
      BY <1>1, <1>3, <1>5, <1>6, <1>9 DEF TakesSize
    <2>4. QED
      BY <2>1, <2>2, <2>3 DEF GateInv
  <1>11. PipeInv'
    <2>1. Chain(pipe, OutPlace, GatePlace)'
      <3>1. Chain(pipe', OutPlace', GatePlace')
        BY <1>1, <1>3 DEF StreamInv, PipeInv
      <3>2. QED
        BY <1>1, <3>1, ChainFrame
    <2>2. QED
      BY <1>1, <1>3, <2>1, BeatsFrame DEF StreamInv, PipeInv
  <1>12. QED
    BY <1>8, <1>10, <1>11 DEF StreamInv

LEMMA StreamStep ==
  ASSUME TypeOK, PageConfsInv, StepInv, CountInv, SourceInv, PlainInv, HybridInv, DictInv,
         StreamInv, [Next]_vars
  PROVE  StreamInv'
  <1>1. ASSUME ~TakeChunkConf, ~HybridOut, ~PlainOut, UNCHANGED <<norm_vars, out_vars>>,
               "num_values" \in valid' <=> "num_values" \in valid
        PROVE  StreamInv'
    BY <1>1, EnteredStays, StreamInvFrame
  <1>2. CASE TakeChunkConf
    BY <1>2, StreamChunk
  <1>3. CASE HybridOut \/ PlainOut
    BY <1>3, AcceptStep
  <1>4. CASE NormalizeGate
    BY <1>4, GateStep
  <1>5. CASE Deliver
    BY <1>5, DeliverStep
  <1>6. CASE TakePageConf
    <2>1. UNCHANGED <<norm_vars, out_vars>>
      BY <1>6 DEF TakePageConf
    <2>2. "num_values" \in valid' <=> "num_values" \in valid
      <3>1. PageConf.kind \in PageKind
        BY <1>6, FsmPageAtPage, PageFields DEF CountInv
      <3>2. CASE PageConf.kind = "HYBRID"
        BY <1>6, <3>2 DEF TakePageConf, ConfigureHybrid
      <3>3. CASE PageConf.kind = "DICT"
        BY <1>6, <3>3 DEF TakePageConf, ConfigureDict
      <3>4. CASE PageConf.kind = "PLAIN"
        <4>1. ConfigurePlain(PageConf)
          BY <1>6, <3>4 DEF TakePageConf
        <4>2. CASE PageConf.last /\ dict_seen
          BY <4>1, <4>2 DEF ConfigurePlain
        <4>3. CASE ~(PageConf.last /\ dict_seen)
          BY <4>1, <4>3 DEF ConfigurePlain
        <4>4. QED
          BY <4>2, <4>3
      <3>5. QED
        BY <3>1, <3>2, <3>3, <3>4 DEF PageKind
    <2>3. ~TakeChunkConf /\ ~HybridOut /\ ~PlainOut
      BY <1>6 DEF TakePageConf, TakeChunkConf, HybridOut, PlainOut, fsm_vars
    <2>4. QED
      BY <1>1, <2>1, <2>2, <2>3
  <1>8. CASE FinishPage \/ ParserSteps \/ Decompress \/ UNCHANGED vars
    BY <1>1, <1>2, <1>3, <1>8
    DEF FinishPage, ParserSteps, ParserTakeConf, ParseHeader, EmitPayload, FlushConf,
        ParserUnchanged, Decompress, vars, conf_vars
  <1>9. CASE DecTaken
    BY <1>1, <1>2, <1>3, <1>9
    DEF DecTaken, HpdTakeBeat, HpdDrain, DictLoad, PlainIn, HpdUnchanged, TakeOffered, Consume
  <1>10. CASE HpdTakeConf \/ HpdProcessFirstDatabeat \/ HpdDummy \/ (\E n \in 1..MaxBeat : HpdEmit(n))
    BY <1>1, <1>2, <1>3, <1>10
    DEF HpdTakeConf, HpdProcessFirstDatabeat, HpdDummy, HpdEmit, HpdUnchanged, Consume, conf_vars
  <1>11. CASE DictLookup \/ RewriteLastTake
    BY <1>1, <1>2, <1>3, <1>11 DEF DictLookup, RewriteLastTake, Consume, conf_vars
  <1>12. QED
    BY <1>2, <1>3, <1>4, <1>5, <1>6, <1>8, <1>9, <1>10, <1>11
    DEF Next, Done, System, ParserSteps, DecTaken

-----------------------------------------------------------------------------
(* The theorems.                                                           *)

DeliveryInv ==
  /\ TypeOK /\ PageConfsInv /\ StepInv
  /\ CountInv /\ SourceInv /\ PlainInv /\ HybridInv /\ DictInv /\ StreamInv

LEMMA DeliveryInit ==
  ASSUME Init, TypeOK
  PROVE  CountInv /\ SourceInv /\ PlainInv /\ HybridInv /\ DictInv /\ StreamInv
  <1>1. /\ chunk = 0 /\ state = "IDLE" /\ ~dict_seen /\ valid = {} /\ parser.state = "IDLE"
        /\ ~parser.conf /\ payload = <<>> /\ dec = <<>> /\ plain = <<>> /\ ids = <<>>
        /\ looked = <<>> /\ rw = 0 /\ hpd.n = 0 /\ hpd.state = "IDLE" /\ ~hpd.last
        /\ dict.state = "LOAD" /\ remaining = 0 /\ in_typ = NoType /\ skid = <<>>
        /\ pipe = <<>> /\ typ_fifo = <<>> /\ out = <<>>
    BY DEF Init
  <1>2. Finishing
    BY <1>1 DEF Finishing
  <1>3. CountInv
    BY <1>1 DEF CountInv, ParserCounts, FsmCounts, DrivenForPage
  <1>4. SourceInv
    BY <1>1 DEF SourceInv
  <1>5. PlainInv
    BY <1>1 DEF PlainInv, PlainOn
  <1>6. HybridInv
    BY <1>1 DEF HybridInv, HybridLeft, HybridOn, ConfLeft, IdsLeft, LookedLeft, HpdWell,
                IdsWell, LookedWell
  <1>7. DictInv
    <2>1. ~Unloading /\ ~Serving /\ IdsLeft = 0
      BY <1>1 DEF Unloading, Serving, IdsLeft
    <2>2. QED
      BY <1>1, <2>1 DEF DictInv
  <1>8. StreamInv
    <2>1. Sized = 0 /\ Closed = 0
      <3>1. Sized = 0
        <4>1. "num_values" \notin valid
          BY <1>1
        <4>2. Sized = chunk - 0
          BY <4>1 DEF Sized
        <4>3. QED
          BY <1>1, <4>2
      <3>2. Len(out) = 0
        BY <1>1
      <3>3. QED
        BY <1>1, <3>1, <3>2 DEF Closed
    <2>2. /\ GatePlace = [c |-> 1, g |-> 0] /\ EntryPlace = [c |-> 1, g |-> 0]
          /\ OutPlace = [c |-> 1, g |-> 0]
      BY <1>1, <2>1 DEF GatePlace, EntryPlace, OutPlace
    <2>3. Chain(skid, GatePlace, EntryPlace) /\ Chain(pipe, OutPlace, GatePlace)
      BY <1>1, <2>2 DEF Chain
    <2>4. SkidInv
      BY <1>1, <2>3, DepthAssumption DEF SkidInv
    <2>5. GateInv
      BY <1>1 DEF GateInv, TakesSize
    <2>6. PipeInv
      <3>1. <<>> = [j \in 1..0 |-> work[Closed + j].typ]
        OBVIOUS
      <3>2. QED
        BY <1>1, <2>1, <2>3, <3>1 DEF PipeInv
    <2>7. QED
      BY <2>4, <2>5, <2>6 DEF StreamInv
  <1>9. QED
    BY <1>3, <1>4, <1>5, <1>6, <1>7, <1>8

LEMMA DeliveryInductive == Spec => []DeliveryInv
  <1>1. Init /\ TypeOK => CountInv /\ SourceInv /\ PlainInv /\ HybridInv /\ DictInv /\ StreamInv
    BY DeliveryInit
  <1>2. DeliveryInv /\ [Next]_vars
        => CountInv' /\ SourceInv' /\ PlainInv' /\ HybridInv' /\ DictInv' /\ StreamInv'
    BY CountStep, SourceStep, PlainStep, HybridStep, StreamStep DEF DeliveryInv
  <1>3. QED
    BY <1>1, <1>2, StepInductive, PTL DEF Spec, DeliveryInv

\* The FSM that leaves the last page of a chunk has handed over the chunk's num_values:
\* ST_PROCESS_PAGE need not wait for it, unlike for the other configurations.
THEOREM AlwaysNumValuesConsumed == Spec => []NumValuesConsumed
  <1>1. DeliveryInv => NumValuesConsumed
    BY NumValuesFreed DEF DeliveryInv
  <1>2. QED
    BY <1>1, DeliveryInductive, PTL

\* Each transfer of TypedNormalizeUntil finds its own type at the head of the FIFO, the
\* type register is of the chunk that is counted, and a size never waits behind a full
\* skid buffer.
THEOREM AlwaysTypesMatchTransfers == Spec => []TypesMatchTransfers
  <1>1. DeliveryInv => TypesMatchTransfers
    BY DEF DeliveryInv, StreamInv, PipeInv, GateInv, TypesMatchTransfers
  <1>2. QED
    BY <1>1, DeliveryInductive, PTL

\* No beat has more values than a databeat has bytes.
LEMMA BeatFits ==
  ASSUME NEW t \in Types
  PROVE  PerBeat(t) <= MaxBeat
  <1>1. Width[t] \in 1..BeatBytes /\ BeatBytes \in Nat
    BY WidthAssumption, DepthAssumption
  <1>2. ASSUME NEW n \in Nat, NEW w \in Nat \ {0} PROVE n \div w <= n
    <2>1. n \div w \in Int /\ (n \div w) * w <= n
      BY <1>2, SMTT(30)
    <2>2. QED
      BY <1>2, <2>1, SMTT(30)
  <1>3. QED
    BY <1>1, <1>2 DEF PerBeat, MaxBeat

\* A beat at the sink is the next values of the chunk, as ColumnChunkStream has them.
LEMMA DeliverEmits ==
  ASSUME TypeOK, StreamInv, Deliver
  PROVE  Stream!Next
  <1>1. PICK b \in OutBeat, t \in Transfer :
           /\ pipe # <<>> /\ b = pipe[1] /\ pipe' = Tail(pipe)
           /\ Good(b) /\ (b.last <=> EndsChunk(b)) /\ b.c = Closed + 1
           /\ Before(b) = Len(Stream!Received)
           /\ t = [typ |-> work[b.c].typ,
                   vals |-> Stream!Received \o [i \in 1..b.n |-> <<b.c, b.p, b.at + i, b.dict>>],
                   closed |-> b.last]
           /\ out' = IF Stream!Open THEN [out EXCEPT ![Len(out)] = t] ELSE Append(out, t)
           /\ Closed < Sized
           /\ typ_fifo' = (IF b.last THEN Tail(typ_fifo) ELSE typ_fifo)
           /\ UNCHANGED <<work, fsm_vars, conf_vars, norm_vars>>
    BY DeliverForm
  <1>2. /\ b.c \in DOMAIN work /\ b.p \in DOMAIN work[b.c].pages
        /\ b.at \in Nat /\ b.n \in Nat \ {0} /\ b.n <= PerBeat(work[b.c].typ)
    BY <1>1, BeatPlace
  <1>3. /\ work[b.c].typ \in Types /\ work[b.c].num_values \in Nat
        /\ work[b.c].pages[b.p].n \in Nat /\ work[b.c].pages[b.p].upto \in Nat
    BY <1>2, WorkFields, PageFields
  <1>4. Stream!Current = b.c
    BY <1>1, OpenTransfer
  <1>5. b.n \in 1..MaxBeat
    <2>1. PerBeat(work[b.c].typ) <= MaxBeat /\ PerBeat(work[b.c].typ) \in Nat /\ MaxBeat \in Nat
      BY <1>3, BeatFits, PerBeatPos, DepthAssumption DEF MaxBeat
    <2>2. QED
      BY <1>2, <2>1
  <1> DEFINE ch   == work[Stream!Current]
             page == ch.pages[b.p]
             from == Len(Stream!Received) - (page.upto - page.n)
             vals == [i \in 1..b.n |-> Stream!ValueOf(Stream!Current, b.p, from + i)]
             transfer == [typ |-> ch.typ, vals |-> Stream!Received \o vals,
                          closed |-> Len(Stream!Received) + b.n = ch.num_values]
  <1>6. from = b.at
    <2>1. Before(b) = page.upto - page.n + b.at
      BY <1>4 DEF Before
    <2>2. QED
      <3>1. Before(b) = Len(Stream!Received) /\ page.upto \in Nat /\ page.n \in Nat /\ b.at \in Nat
        BY <1>1, <1>2, <1>3, <1>4
      <3>2. QED
        BY <2>1, <3>1
  <1>7. page.kind # "DICT" /\ 0 <= from /\ from + b.n <= page.n
        /\ b.dict = (IF page.kind = "HYBRID" THEN b.c ELSE 0)
    BY <1>1, <1>4, <1>6 DEF Good
  <1>8. vals = [i \in 1..b.n |-> <<b.c, b.p, b.at + i, b.dict>>]
    <2>1. \A i \in 1..b.n :
            Stream!ValueOf(Stream!Current, b.p, from + i) = <<b.c, b.p, b.at + i, b.dict>>
      BY <1>4, <1>6, <1>7 DEF Stream!ValueOf
    <2>2. QED
      BY <2>1
  <1>9. b.last = (Len(Stream!Received) + b.n = ch.num_values)
    <2>1. b.last \in BOOLEAN
      BY DEF OutBeat
    <2>2. QED
      BY <1>1, <1>4, <2>1 DEF EndsChunk
  <1>10. t = transfer
    BY <1>1, <1>4, <1>8, <1>9
  <1>11. Stream!Emit(b.n)
    <2>1. Stream!Current \in DOMAIN work /\ b.p \in DOMAIN work[Stream!Current].pages
          /\ UNCHANGED work
      BY <1>1, <1>2, <1>4
    <2>2. out' = IF Stream!Open THEN [out EXCEPT ![Len(out)] = transfer] ELSE Append(out, transfer)
      BY <1>1, <1>10
    <2>3. QED
      BY <1>7, <2>1, <2>2, Zenon DEF Stream!Emit
  <1>12. QED
    BY <1>5, <1>11 DEF Stream!Next

\* The decoder implements ColumnChunkStream: what its sink has received is, chunk by chunk
\* and in page order, the values of the data pages, each looked up in the dictionary of its
\* own chunk, in one transfer that the last of them closes.
THEOREM ImplementsStream == Spec => StreamSpec
  <1>1. Init => Stream!Init
    BY DEF Init, Stream!Init
  <1>2. ASSUME DeliveryInv, [Next]_vars
        PROVE  [Stream!Next]_(Stream!streamVars)
    <2>1. CASE Deliver
      BY <1>2, <2>1, DeliverEmits DEF DeliveryInv
    <2>2. CASE ~Deliver
      <3>1. UNCHANGED <<work, out>>
        BY <1>2, <2>2
        DEF Next, Done, System, TakeChunkConf, TakePageConf, FinishPage, ParserTakeConf,
            ParseHeader, EmitPayload, FlushConf, ParserUnchanged, Decompress, HpdTakeConf,
            HpdProcessFirstDatabeat, HpdTakeBeat, HpdDrain, HpdDummy, HpdEmit, HpdUnchanged,
            DictLoad, DictLookup, RewriteLastTake, HybridOut, PlainIn, PlainOut, NormalizeAccept,
            NormalizeGate, vars, out_vars
      <3>2. QED
        BY <3>1 DEF Stream!streamVars
    <2>3. QED
      BY <2>1, <2>2
  <1>3. QED
    BY <1>1, <1>2, DeliveryInductive, PTL DEF Spec, StreamSpec, Stream!Spec
=============================================================================
