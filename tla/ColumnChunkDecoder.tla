------------------------- MODULE ColumnChunkDecoder -------------------------
(***************************************************************************)
(* The column-chunk decoder of column_chunk_decoder.sv: the FSM that       *)
(* configures the pipeline page by page, and the pipeline it configures.   *)
(*                                                                         *)
(*   PageHeaderParser -> Decompressor -> in_select demultiplexer           *)
(*     -> HybridPageDecoder -> TypedDictionary -> TypedRewriteLast --+     *)
(*     -> dictionary load -----------^                               |     *)
(*     -> plain path ------------------------------------------------+     *)
(*                                out_select multiplexer <-----------+     *)
(*                                   -> TypedNormalizeUntil -> out         *)
(*                                                                         *)
(* An action is one ready/valid handshake (or one register-only step of    *)
(* the FSM).  A handshake moves the data and, on the same clock edge, lets *)
(* the FSM drop the valid of the configuration that was consumed.          *)
(* Back-pressure is an action that is not taken.                           *)
(*                                                                         *)
(* A value is known by its chunk, its page and its place there; a beat is  *)
(* a record with the chunk c and page p of its values, how many of the     *)
(* page come before them (at), their number n and `last`.                  *)
(***************************************************************************)
EXTENDS Integers, Sequences

CONSTANTS
  Workloads,  \* sequences of column chunks a host may submit
  Types,      \* value types (libstf type_t)
  Width,      \* bytes of a value of each type
  BeatBytes,  \* DATABEAT_SIZE
  SkidDepth,  \* beats an NDataSkidBuffer holds
  PipeDepth,  \* beats in transit behind the gate of TypedNormalizeUntil
  SizeMod     \* 2^32: the width of data32_t

PageKind == {"HYBRID", "DICT", "PLAIN"}

\* beats: payload beats; pad: trailing beats that hold only run padding; upto: how many
\* values the data pages of the chunk have up to the end of this one.
Page  == [kind : PageKind, n : Nat \ {0}, beats : Nat \ {0}, pad : {0, 1}, upto : Nat]
Chunk == [typ : Types, num_values : Nat \ {0}, pages : Seq(Page)]

ASSUME WorkloadsAssumption == Workloads \subseteq Seq(Chunk)
ASSUME DepthAssumption     == {SkidDepth, PipeDepth, BeatBytes} \subseteq Nat \ {0}
ASSUME WidthAssumption     == Width \in [Types -> 1..BeatBytes]
ASSUME SizeModAssumption   == SizeMod \in Nat \ {0}

NoType == "no type"
ASSUME NoTypeAssumption == NoType \notin Types

\* Values of a type that fit a databeat.
PerBeat(t) == BeatBytes \div Width[t]

\* What Parquet asks of a column chunk: a dictionary comes first, and there is one if a
\* page is encoded with it; num_values counts the values of the data pages, in 32 bits;
\* and the values of a plain page take the beats it has.
WellFormed(ch) ==
  LET pages == ch.pages
      Values(p) == IF pages[p].kind = "DICT" THEN 0 ELSE pages[p].n
  IN  /\ pages # <<>> /\ ch.num_values = pages[Len(pages)].upto /\ ch.num_values < SizeMod
      /\ \A p, q \in DOMAIN pages : p < q => pages[p].upto < pages[q].upto
      /\ \A p \in DOMAIN pages :
           /\ pages[p].upto = (IF p = 1 THEN 0 ELSE pages[p - 1].upto) + Values(p)
           /\ pages[p].kind = "DICT" => p = 1
           /\ pages[p].kind = "HYBRID" => pages[1].kind = "DICT"
           /\ pages[p].kind = "PLAIN" =>
                /\ (pages[p].beats - 1) * PerBeat(ch.typ) < pages[p].n
                /\ pages[p].n <= pages[p].beats * PerBeat(ch.typ)

ASSUME ChunksAssumption == \A w \in Workloads : \A k \in DOMAIN w : WellFormed(w[k])

\* A chunk behind another does not fit the skid buffer of TypedNormalizeUntil behind a
\* beat of that one: the code loses its num_values if it does.
ASSUME SpanAssumption ==
  \A w \in Workloads : \A k \in DOMAIN w :
    k > 1 => w[k].num_values > (SkidDepth - 1) * PerBeat(w[k].typ)

Confs == {"decompressor_conf", "num_values", "hybrid_num_values", "hybrid_conf",
          "dict_type", "plain_type", "in_select", "out_select"}

VARIABLES
  work,        \* the chunks the host submits (chosen once)
  state,       \* FSM state
  last_page,   \* FSM: the page being processed is the last of its chunk
  dict_seen,   \* FSM: the chunk had a dictionary page
  chunk,       \* FSM: number of chunk configurations taken (typ is that chunk's)
  valid,       \* configurations whose valid the FSM drives high
  data,        \* what the FSM drives on them
  parser,      \* PageHeaderParser
  payload,     \* its output beats
  dec,         \* the Decompressor's output beats
  hpd,         \* HybridPageDecoder
  ids,         \* its output beats
  dict,        \* TypedDictionary
  looked,      \* its output beats
  rw,          \* TypedRewriteLast: values left of the page
  plain,       \* beats in the plain path
  remaining,   \* TypedNormalizeUntil: values left of the chunk
  in_typ,      \* its type register
  skid,        \* its input skid buffer
  pipe,        \* beats between its gate and `out`
  typ_fifo,    \* its type FIFO
  out          \* the transfers the sink has received

fsm_vars  == <<state, last_page, dict_seen, chunk>>
conf_vars == <<valid, data>>
in_vars   == <<parser, payload>>
hyb_vars  == <<hpd, ids, dict, looked>>
norm_vars == <<remaining, in_typ, skid>>
out_vars  == <<pipe, typ_fifo, out>>
vars == <<work, fsm_vars, conf_vars, in_vars, dec, hyb_vars, rw, plain, norm_vars, out_vars>>

-----------------------------------------------------------------------------
Init ==
  /\ work \in Workloads
  /\ state = "IDLE" /\ last_page = FALSE /\ dict_seen = FALSE /\ chunk = 0
  /\ valid = {}
  /\ data = [in_select |-> "HYBRID", out_select |-> "HYBRID", num_values |-> 0,
             hybrid_num_values |-> 0, dict_type |-> NoType, plain_type |-> NoType,
             hybrid_conf |-> [n |-> 0, keep |-> FALSE, last |-> FALSE]]
  /\ parser = [state |-> "IDLE", chunk |-> 0, page |-> 0, sent |-> 0,
               remaining |-> 0, conf |-> FALSE]
  /\ payload = <<>> /\ dec = <<>> /\ plain = <<>>
  /\ hpd = [state |-> "IDLE", n |-> 0, at |-> 0, last |-> FALSE, seen_last |-> FALSE,
            taken |-> 0, c |-> 0, p |-> 0]
  /\ ids = <<>> /\ looked = <<>> /\ rw = 0
  /\ dict = [state |-> "LOAD", c |-> 0, typ |-> NoType]
  /\ remaining = 0 /\ in_typ = NoType /\ skid = <<>>
  /\ pipe = <<>> /\ typ_fifo = <<>> /\ out = <<>>

-----------------------------------------------------------------------------
(* The FSM.  It drops a consumed configuration only while it watches it:   *)
(* num_values outside ST_IDLE, every other one in ST_PROCESS_PAGE.         *)

\* Slip: num_values is watched in ST_CONFIGURED only.
WatchedNarrow == CASE state = "PROCESS_PAGE" -> Confs \ {"num_values"}
                   [] state = "CONFIGURED"   -> {"num_values"}
                   [] OTHER                  -> {}
Watched == CASE state = "PROCESS_PAGE" -> Confs
             [] state = "CONFIGURED"   -> {"num_values"}
             [] OTHER                  -> {}

Consume(S) == valid' = valid \ (S \cap Watched) /\ UNCHANGED data

\* Slip: dict_seen survives the chunk.
TakeChunkConfKeepsSeen ==
  /\ state = "IDLE"
  /\ chunk < Len(work) /\ chunk <= parser.chunk
  /\ chunk' = chunk + 1
  /\ data' = [data EXCEPT !.num_values = work[chunk'].num_values]
  /\ valid' = valid \cup {"num_values"}
  /\ UNCHANGED dict_seen
  /\ state' = "CONFIGURED"
  /\ UNCHANGED <<work, last_page, in_vars, dec, hyb_vars, rw, plain, norm_vars, out_vars>>

\* The duplicator offers configuration k + 1 once both consumers took k.
TakeChunkConf ==
  /\ state = "IDLE"
  /\ chunk < Len(work) /\ chunk <= parser.chunk
  /\ chunk' = chunk + 1
  /\ data' = [data EXCEPT !.num_values = work[chunk'].num_values]
  /\ valid' = valid \cup {"num_values"}
  /\ dict_seen' = FALSE
  /\ state' = "CONFIGURED"
  /\ UNCHANGED <<work, last_page, in_vars, dec, hyb_vars, rw, plain, norm_vars, out_vars>>

\* page_conf as the parser drives it.
PageConf == LET pg == work[parser.chunk].pages[parser.page]
            IN  [kind |-> pg.kind, n |-> pg.n, last |-> parser.remaining = 0]

ConfigureHybrid(pc) ==
  /\ data' = [data EXCEPT !.in_select = "HYBRID", !.out_select = "HYBRID",
                          !.hybrid_num_values = pc.n,
                          !.hybrid_conf = [n |-> pc.n, keep |-> TRUE, last |-> pc.last]]
  /\ valid' = valid \cup {"in_select", "decompressor_conf", "hybrid_conf",
                          "hybrid_num_values", "out_select"}
  /\ UNCHANGED dict_seen

ConfigureDict ==
  /\ data' = [data EXCEPT !.in_select = "DICT", !.dict_type = work[chunk].typ]
  /\ valid' = valid \cup {"in_select", "decompressor_conf", "dict_type"}
  /\ dict_seen' = TRUE

\* A chunk that had a dictionary and ends on a plain page gets the dummy beat.
ConfigurePlain(pc) ==
  LET dummy == pc.last /\ dict_seen
  IN  /\ data' = [data EXCEPT !.in_select = "PLAIN", !.out_select = "PLAIN",
                    !.plain_type = work[chunk].typ,
                    !.hybrid_conf = IF dummy THEN [n |-> 0, keep |-> FALSE, last |-> TRUE]
                                             ELSE @]
      /\ valid' = valid \cup {"in_select", "decompressor_conf", "plain_type", "out_select"}
                        \cup (IF dummy THEN {"hybrid_conf"} ELSE {})
      /\ UNCHANGED dict_seen

TakePageConf ==
  /\ state = "CONFIGURED" /\ parser.conf
  /\ parser' = [parser EXCEPT !.conf = FALSE]
  /\ last_page' = PageConf.last
  /\ state' = "PROCESS_PAGE"
  /\ CASE PageConf.kind = "HYBRID" -> ConfigureHybrid(PageConf)
       [] PageConf.kind = "DICT"   -> ConfigureDict
       [] PageConf.kind = "PLAIN"  -> ConfigurePlain(PageConf)
  /\ UNCHANGED <<work, chunk, payload, dec, hyb_vars, rw, plain, norm_vars, out_vars>>

\* Slip: the FSM does not wait for hybrid_conf.
AwaitedFewer == Confs \ {"num_values", "hybrid_num_values", "hybrid_conf"}

\* What the FSM waits for: every configuration but the two value counts.
Awaited == Confs \ {"num_values", "hybrid_num_values"}

FinishPage ==
  /\ state = "PROCESS_PAGE"
  /\ valid \cap Awaited = {}
  /\ state' = IF last_page THEN "IDLE" ELSE "CONFIGURED"
  /\ UNCHANGED <<work, last_page, dict_seen, chunk, conf_vars, in_vars, dec, hyb_vars,
                 rw, plain, norm_vars, out_vars>>

-----------------------------------------------------------------------------
(* The PageHeaderParser, seen from outside: it has its own copy of the     *)
(* chunk configuration and runs ahead of the FSM until page_conf is taken. *)

ParserUnchanged == UNCHANGED <<work, fsm_vars, conf_vars, dec, hyb_vars, rw, plain,
                               norm_vars, out_vars>>

ParserTakeConf ==
  /\ parser.state = "IDLE"
  /\ parser.chunk < Len(work) /\ parser.chunk <= chunk
  /\ parser' = [parser EXCEPT !.state = "HEADER", !.chunk = @ + 1, !.page = 0,
                              !.remaining = work[parser.chunk + 1].num_values]
  /\ UNCHANGED payload /\ ParserUnchanged

ParseHeader ==
  /\ parser.state = "HEADER"
  /\ parser.page < Len(work[parser.chunk].pages)
  /\ LET pg == work[parser.chunk].pages[parser.page + 1]
     IN  parser' = [parser EXCEPT !.state = "PAYLOAD", !.page = @ + 1, !.sent = 0,
                      !.conf = TRUE,
                      !.remaining = IF pg.kind = "DICT" THEN @ ELSE @ - pg.n]
  /\ UNCHANGED payload /\ ParserUnchanged

\* Values of payload beat number j of a page: plain pages fill their beats.
BeatValues(pg, t, j) ==
  IF j < pg.beats THEN PerBeat(t) ELSE pg.n - (pg.beats - 1) * PerBeat(t)

EmitPayload ==
  /\ parser.state = "PAYLOAD"
  /\ Len(payload) < 1
  /\ LET ch == work[parser.chunk]
         pg == ch.pages[parser.page]
         j  == parser.sent + 1
     IN  /\ payload' = Append(payload,
              [c |-> parser.chunk, p |-> parser.page, last |-> j = pg.beats,
               at |-> IF pg.kind = "PLAIN" THEN (j - 1) * PerBeat(ch.typ) ELSE 0,
               n |-> IF pg.kind = "PLAIN" THEN BeatValues(pg, ch.typ, j) ELSE 0])
         /\ parser' = [parser EXCEPT !.sent = j,
                         !.state = IF j = pg.beats THEN "FLUSH_CONF" ELSE @]
  /\ ParserUnchanged

FlushConf ==
  /\ parser.state = "FLUSH_CONF" /\ ~parser.conf
  /\ parser' = [parser EXCEPT !.state = IF parser.remaining = 0 THEN "IDLE" ELSE "HEADER"]
  /\ UNCHANGED payload /\ ParserUnchanged

-----------------------------------------------------------------------------
(* The Decompressor holds its configuration until the page's last beat has *)
(* left it; the demultiplexer holds in_select for just as long.            *)

Decompress ==
  /\ payload # <<>> /\ "decompressor_conf" \in valid /\ Len(dec) < 1
  /\ dec' = Append(dec, Head(payload))
  /\ payload' = Tail(payload)
  /\ UNCHANGED <<work, fsm_vars, conf_vars, parser, hyb_vars, rw, plain, norm_vars, out_vars>>

\* A beat is offered to the consumer `to` of the demultiplexer.
Offered(to) == dec # <<>> /\ "in_select" \in valid /\ data.in_select = to

\* Slip: the configurations go with the first beat of the page.
TakeOfferedFirst(more) ==
  /\ dec' = Tail(dec)
  /\ Consume({"in_select", "decompressor_conf"} \cup more)

\* The consumer takes it; `more` are the configurations it consumes with a last beat.
TakeOffered(more) ==
  /\ dec' = Tail(dec)
  /\ Consume(IF Head(dec).last THEN {"in_select", "decompressor_conf"} \cup more ELSE {})

-----------------------------------------------------------------------------
(* The HybridPageDecoder.                                                  *)

HpdUnchanged == UNCHANGED <<work, fsm_vars, in_vars, dict, looked, rw, plain,
                            norm_vars, out_vars>>

HpdTakeConf ==
  /\ hpd.state = "IDLE" /\ "hybrid_conf" \in valid
  /\ hpd' = [hpd EXCEPT !.last = data.hybrid_conf.last, !.n = data.hybrid_conf.n, !.at = 0,
               !.state = IF data.hybrid_conf.keep THEN "WAIT" ELSE "DUMMY"]
  /\ Consume({"hybrid_conf"})
  /\ UNCHANGED <<dec, ids>> /\ HpdUnchanged

HpdProcessFirstDatabeat ==
  /\ hpd.state = "WAIT" /\ Offered("HYBRID")
  /\ hpd' = [hpd EXCEPT !.state = "PIPE", !.taken = 0]
  /\ UNCHANGED <<dec, ids, conf_vars>> /\ HpdUnchanged

HpdTakeBeat ==
  /\ hpd.state = "PIPE" /\ Offered("HYBRID")
  /\ hpd' = [hpd EXCEPT !.taken = @ + 1, !.seen_last = Head(dec).last,
                        !.c = Head(dec).c, !.p = Head(dec).p]
  /\ TakeOffered({})
  /\ UNCHANGED ids /\ HpdUnchanged

\* Slip: every page ends with `last`, not only the chunk.
HpdEmitPageLast(n) ==
  /\ hpd.state = "PIPE" /\ hpd.taken > 0 /\ n <= hpd.n
  /\ Len(ids) < 1
  /\ LET pg   == work[hpd.c].pages[hpd.p]
         done == n = hpd.n
     IN  /\ done => hpd.taken >= pg.beats - pg.pad
         /\ ids' = Append(ids, [c |-> hpd.c, p |-> hpd.p, at |-> hpd.at, n |-> n, last |-> done])
         /\ hpd' = [hpd EXCEPT !.n = @ - n, !.at = @ + n,
                      !.seen_last = IF done THEN FALSE ELSE @,
                      !.state = CASE ~done                   -> "PIPE"
                                  [] done /\ hpd.seen_last   -> "IDLE"
                                  [] done /\ ~hpd.seen_last  -> "DRAIN"]
  /\ UNCHANGED <<dec, conf_vars>> /\ HpdUnchanged

\* A run decoder beat: the page's final values need every beat but the padding.
HpdEmit(n) ==
  /\ hpd.state = "PIPE" /\ hpd.taken > 0 /\ n <= hpd.n
  /\ Len(ids) < 1
  /\ LET pg   == work[hpd.c].pages[hpd.p]
         done == n = hpd.n
     IN  /\ done => hpd.taken >= pg.beats - pg.pad
         /\ ids' = Append(ids, [c |-> hpd.c, p |-> hpd.p, at |-> hpd.at, n |-> n,
                                 last |-> done /\ hpd.last])
         /\ hpd' = [hpd EXCEPT !.n = @ - n, !.at = @ + n,
                      !.seen_last = IF done THEN FALSE ELSE @,
                      !.state = CASE ~done                   -> "PIPE"
                                  [] done /\ hpd.seen_last   -> "IDLE"
                                  [] done /\ ~hpd.seen_last  -> "DRAIN"]
  /\ UNCHANGED <<dec, conf_vars>> /\ HpdUnchanged

HpdDrain ==
  /\ hpd.state = "DRAIN" /\ Offered("HYBRID")
  /\ hpd' = [hpd EXCEPT !.state = IF Head(dec).last THEN "IDLE" ELSE @]
  /\ TakeOffered({})
  /\ UNCHANGED ids /\ HpdUnchanged

HpdDummy ==
  /\ hpd.state = "DUMMY" /\ Len(ids) < 1
  /\ ids' = Append(ids, [c |-> 0, p |-> 0, at |-> 0, n |-> 0, last |-> TRUE])
  /\ hpd' = [hpd EXCEPT !.state = "IDLE"]
  /\ UNCHANGED <<dec, conf_vars>> /\ HpdUnchanged

-----------------------------------------------------------------------------
(* The TypedDictionary and TypedRewriteLast of libstf, as the decoder uses *)
(* them: a dictionary is loaded up to `last`, then serves ids up to `last`,*)
(* as many at a time as their values fit a databeat.                       *)

DictLoad ==
  /\ dict.state = "LOAD" /\ Offered("DICT") /\ "dict_type" \in valid
  /\ dict' = [c |-> Head(dec).c, typ |-> data.dict_type,
              state |-> IF Head(dec).last THEN "SERVE" ELSE "LOAD"]
  /\ TakeOffered({"dict_type"})
  /\ UNCHANGED <<work, fsm_vars, in_vars, hpd, ids, looked, rw, plain, norm_vars, out_vars>>

DictLookup ==
  /\ dict.state = "SERVE" /\ ids # <<>> /\ Len(looked) < 1
  /\ LET b   == Head(ids)
         fit == PerBeat(dict.typ)
         all == b.n <= fit
     IN  /\ looked' = IF b.n = 0 THEN looked
                      ELSE Append(looked, [c |-> b.c, p |-> b.p, at |-> b.at,
                                           n |-> IF all THEN b.n ELSE fit,
                                           typ |-> dict.typ, dict |-> dict.c])
         /\ ids' = IF all THEN Tail(ids)
                   ELSE <<[c |-> b.c, p |-> b.p, at |-> b.at + fit, n |-> b.n - fit,
                            last |-> b.last]>> \o Tail(ids)
         /\ dict' = IF all /\ b.last THEN [state |-> "LOAD", c |-> 0, typ |-> NoType] ELSE dict
  /\ UNCHANGED <<work, fsm_vars, conf_vars, in_vars, dec, hpd, rw, plain, norm_vars, out_vars>>

RewriteLastTake ==
  /\ rw = 0 /\ "hybrid_num_values" \in valid
  /\ rw' = data.hybrid_num_values
  /\ Consume({"hybrid_num_values"})
  /\ UNCHANGED <<work, fsm_vars, in_vars, dec, hyb_vars, plain, norm_vars, out_vars>>

-----------------------------------------------------------------------------
(* TypedNormalizeUntil.  The skid buffer stands in front of the gate, so a *)
(* beat enters it whether or not the module is configured; the size is     *)
(* taken on a clock edge where `in` is valid and no values are left.       *)

TakesSize == remaining = 0 /\ "num_values" \in valid

Configure(b) ==
  IF TakesSize
  THEN /\ remaining' = data.num_values
       /\ in_typ' = b.typ
       /\ typ_fifo' = Append(typ_fifo, b.typ)
  ELSE UNCHANGED <<remaining, in_typ, typ_fifo>>

\* Beat b is valid at `in`; the multiplexer's handshake consumes `more`.  (The code takes
\* a size also while the skid buffer is full; TypesMatchTransfers says that never is.)
NormalizeAccept(b, more) ==
  /\ Len(skid) < SkidDepth
  /\ skid' = Append(skid, b)
  /\ Configure(b)
  /\ Consume(more \cup (IF TakesSize THEN {"num_values"} ELSE {}))
  /\ UNCHANGED <<pipe, out>>

InNumValues(b) == IF in_typ = NoType THEN 0 ELSE (b.n * Width[b.typ]) \div Width[in_typ]
NextRemaining(b) == (remaining + SizeMod - InNumValues(b)) % SizeMod

\* Slip: a page's last beat closes the transfer.
NormalizeGateByPage ==
  /\ remaining # 0 /\ skid # <<>> /\ Len(pipe) < PipeDepth
  /\ LET b    == Head(skid)
         last == b.last
     IN  /\ remaining' = NextRemaining(b)
         /\ in_typ' = IF last THEN NoType ELSE in_typ
         /\ pipe' = Append(pipe, [b EXCEPT !.last = last])
  /\ skid' = Tail(skid)
  /\ UNCHANGED <<work, fsm_vars, conf_vars, in_vars, dec, hyb_vars, rw, plain, typ_fifo, out>>

\* Slip: the type register is not cleared.
NormalizeGateKeepsType ==
  /\ remaining # 0 /\ skid # <<>> /\ Len(pipe) < PipeDepth
  /\ LET b    == Head(skid)
         last == b.last /\ NextRemaining(b) = 0
     IN  /\ remaining' = NextRemaining(b)
         /\ in_typ' = in_typ
         /\ pipe' = Append(pipe, [b EXCEPT !.last = last])
  /\ skid' = Tail(skid)
  /\ UNCHANGED <<work, fsm_vars, conf_vars, in_vars, dec, hyb_vars, rw, plain, typ_fifo, out>>

\* The transfer closes where the chunk's values are complete.
NormalizeGate ==
  /\ remaining # 0 /\ skid # <<>> /\ Len(pipe) < PipeDepth
  /\ LET b    == Head(skid)
         last == b.last /\ NextRemaining(b) = 0
     IN  /\ remaining' = NextRemaining(b)
         /\ in_typ' = IF last THEN NoType ELSE in_typ
         /\ pipe' = Append(pipe, [b EXCEPT !.last = last])
  /\ skid' = Tail(skid)
  /\ UNCHANGED <<work, fsm_vars, conf_vars, in_vars, dec, hyb_vars, rw, plain, typ_fifo, out>>

-----------------------------------------------------------------------------
(* The output multiplexer holds out_select for a page: until its last beat.*)

HybridBeat == [c |-> looked[1].c, p |-> looked[1].p, at |-> looked[1].at, n |-> looked[1].n,
               typ |-> looked[1].typ, dict |-> looked[1].dict, last |-> rw = looked[1].n]
PlainBeat  == [c |-> plain[1].c, p |-> plain[1].p, at |-> plain[1].at, n |-> plain[1].n,
               typ |-> data.plain_type, dict |-> 0, last |-> plain[1].last]

HybridAtMux == looked # <<>> /\ rw > 0 /\ "out_select" \in valid /\ data.out_select = "HYBRID"
PlainAtMux  == plain # <<>> /\ {"plain_type", "out_select"} \subseteq valid
                            /\ data.out_select = "PLAIN"

HybridOut ==
  /\ HybridAtMux
  /\ NormalizeAccept(HybridBeat, IF HybridBeat.last THEN {"out_select"} ELSE {})
  /\ rw' = rw - HybridBeat.n
  /\ looked' = Tail(looked)
  /\ UNCHANGED <<work, fsm_vars, in_vars, dec, hpd, ids, dict, plain>>

\* skid, strip levels, skid: the plain path up to its type conversion.
PlainIn ==
  /\ Offered("PLAIN") /\ Len(plain) < SkidDepth
  /\ plain' = Append(plain, Head(dec))
  /\ TakeOffered({})
  /\ UNCHANGED <<work, fsm_vars, in_vars, hyb_vars, rw, norm_vars, out_vars>>

PlainOut ==
  /\ PlainAtMux
  /\ NormalizeAccept(PlainBeat, IF PlainBeat.last THEN {"out_select", "plain_type"} ELSE {})
  /\ plain' = Tail(plain)
  /\ UNCHANGED <<work, fsm_vars, in_vars, dec, hyb_vars, rw>>

Extended(t, vals, closed) == [typ |-> t.typ, vals |-> t.vals \o vals, closed |-> closed]

\* The sink takes a beat: its values join the open transfer, `last` closes it.
Deliver ==
  /\ pipe # <<>> /\ typ_fifo # <<>>
  /\ LET b    == Head(pipe)
         vals == [i \in 1..b.n |-> <<b.c, b.p, b.at + i, b.dict>>]
         k    == Len(out)
         open == k > 0 /\ ~out[k].closed
     IN  /\ out' = IF open
                   THEN [out EXCEPT ![k] = Extended(@, vals, b.last)]
                   ELSE Append(out, [typ |-> Head(typ_fifo), vals |-> vals, closed |-> b.last])
         /\ typ_fifo' = IF b.last THEN Tail(typ_fifo) ELSE typ_fifo
  /\ pipe' = Tail(pipe)
  /\ UNCHANGED <<work, fsm_vars, conf_vars, in_vars, dec, hyb_vars, rw, plain, norm_vars>>

-----------------------------------------------------------------------------
MaxBeat == BeatBytes   \* no type is narrower than a byte

System ==
  \/ TakeChunkConf \/ TakePageConf \/ FinishPage
  \/ ParserTakeConf \/ ParseHeader \/ EmitPayload \/ FlushConf
  \/ Decompress
  \/ HpdTakeConf \/ HpdProcessFirstDatabeat \/ HpdTakeBeat \/ HpdDrain \/ HpdDummy
  \/ \E n \in 1..MaxBeat : HpdEmit(n)
  \/ DictLoad \/ DictLookup \/ RewriteLastTake
  \/ HybridOut \/ PlainIn \/ PlainOut
  \/ NormalizeGate \/ Deliver

AllDelivered ==
  /\ Len(out) = Len(work)
  /\ \A k \in 1..Len(out) : out[k].closed

\* The sink has everything it asked for.
Done == AllDelivered /\ UNCHANGED vars

Next == System \/ Done

Spec == Init /\ [][Next]_vars

\* Every stage is clocked and the sink keeps accepting.
FairSpec == Spec /\ WF_vars(System)
-----------------------------------------------------------------------------
(* The type invariant: the registers and streams of the decoder hold what  *)
(* their declarations say.                                                 *)

InBeat  == [c : Nat, p : Nat, at : Int, n : Int, last : BOOLEAN]
IdBeat  == [c : Nat, p : Nat, at : Nat, n : Nat, last : BOOLEAN]
DictIds == [c : Nat, p : Nat, at : Nat, n : Nat, typ : Types, dict : Nat]
OutBeat == [c : Nat, p : Nat, at : Int, n : Int, typ : Types, dict : Nat, last : BOOLEAN]
Transfer == [typ : Types, vals : Seq(Nat \X Nat \X Int \X Nat), closed : BOOLEAN]

DataType ==
  [in_select : PageKind, out_select : PageKind, num_values : Nat, hybrid_num_values : Nat,
   dict_type : Types \cup {NoType}, plain_type : Types \cup {NoType},
   hybrid_conf : [n : Nat, keep : BOOLEAN, last : BOOLEAN]]

FsmTypeOK ==
  /\ work \in Workloads
  /\ state \in {"IDLE", "CONFIGURED", "PROCESS_PAGE"}
  /\ last_page \in BOOLEAN /\ dict_seen \in BOOLEAN
  /\ chunk \in 0..Len(work) /\ (state # "IDLE" => chunk \in DOMAIN work)
  /\ valid \subseteq Confs
  /\ data \in DataType
  /\ \A c \in {"dict_type", "plain_type"} \cap valid : data[c] \in Types

ParserRegs == [state : {"IDLE", "HEADER", "PAYLOAD", "FLUSH_CONF"}, chunk : Nat,
               page : Nat, sent : Nat, remaining : Int, conf : BOOLEAN]

ParserTypeOK ==
  /\ parser \in ParserRegs /\ parser.chunk <= Len(work)
  /\ parser.state # "IDLE" => parser.chunk \in DOMAIN work
  /\ parser.state \in {"PAYLOAD", "FLUSH_CONF"} =>
       parser.page \in DOMAIN work[parser.chunk].pages
  /\ parser.conf => parser.state \in {"PAYLOAD", "FLUSH_CONF"}
  /\ payload \in Seq(InBeat) /\ dec \in Seq(InBeat)

HpdRegs == [state : {"IDLE", "WAIT", "PIPE", "DRAIN", "DUMMY"}, n : Nat, at : Nat, last : BOOLEAN,
            seen_last : BOOLEAN, taken : Nat, c : Nat, p : Nat]

HybridTypeOK ==
  /\ hpd \in HpdRegs
  /\ ids \in Seq(IdBeat) /\ looked \in Seq(DictIds)
  /\ dict \in [state : {"LOAD", "SERVE"}, c : Nat, typ : Types \cup {NoType}]
  /\ dict.state = "SERVE" => dict.typ \in Types
  /\ rw \in Int

OutTypeOK ==
  /\ plain \in Seq(InBeat)
  /\ remaining \in Nat /\ in_typ \in Types \cup {NoType}
  /\ skid \in Seq(OutBeat) /\ pipe \in Seq(OutBeat)
  /\ typ_fifo \in Seq(Types)
  /\ out \in Seq(Transfer)

TypeOK == FsmTypeOK /\ ParserTypeOK /\ HybridTypeOK /\ OutTypeOK

-----------------------------------------------------------------------------
(* Safety.                                                                 *)

\* Between pages the FSM holds no page configuration any more, hybrid_num_values
\* included, although ST_PROCESS_PAGE does not wait for that one: were it still
\* valid, TypedRewriteLast would take the count of one page twice.
PageConfsConsumed == state # "PROCESS_PAGE" => valid \subseteq {"num_values"}

\* Why that is so: the count outlives neither out_select, which ST_PROCESS_PAGE
\* does wait for, nor the page's values, the last of which frees out_select.
CountNeedsSelect ==
  rw # 0 \/ "hybrid_num_values" \in valid =>
    "out_select" \in valid /\ data.out_select = "HYBRID"
CountTakenOnce == "hybrid_num_values" \in valid => rw = 0
PageConfsInv == PageConfsConsumed /\ CountNeedsSelect /\ CountTakenOnce

\* Leaving the last page of a chunk, the FSM has nothing left to hand over, the
\* chunk's num_values included.
NumValuesConsumed == state = "IDLE" => "num_values" \notin valid

\* A beat is offered only to the consumer its own page is for, while the FSM
\* works on that beat's chunk: parser, FSM and demultiplexer stay in step though
\* the parser runs ahead on a configuration of its own.
BeatsMeetTheirPage ==
  dec # <<>> /\ "in_select" \in valid =>
    /\ Head(dec).c = chunk
    /\ work[chunk].pages[Head(dec).p].kind = data.in_select

\* Chunks whose size TypedNormalizeUntil has taken, and transfers that were closed.
Sized  == chunk - (IF "num_values" \in valid THEN 1 ELSE 0)
Closed == IF out # <<>> /\ ~out[Len(out)].closed THEN Len(out) - 1 ELSE Len(out)

\* The types in the FIFO are those of the chunks whose size was taken and whose transfer
\* is not closed; the type register has the chunk that is being counted; and no size
\* ever waits behind a full skid buffer.
TypesMatchTransfers ==
  /\ typ_fifo = [j \in 1..(Sized - Closed) |-> work[Closed + j].typ]
  /\ in_typ = IF remaining = 0 THEN NoType ELSE work[Sized].typ
  /\ TakesSize => Len(skid) < SkidDepth

\* Where the reset of a dictionary, the beat with `last` that ends its ids, is on its way.
Resets ==
  {s \in {"hybrid_conf", "hpd", "ids"} :
     CASE s = "hybrid_conf" -> "hybrid_conf" \in valid /\ data.hybrid_conf.last
       [] s = "hpd"         -> hpd.state \in {"WAIT", "PIPE", "DUMMY"} /\ hpd.last
       [] s = "ids"         -> ids # <<>> /\ Head(ids).last}

\* The FSM has yet to take a page of its chunk.
PagesToCome == state = "CONFIGURED" \/ (state = "PROCESS_PAGE" /\ ~last_page)

\* A dictionary in service is owed one reset, from the last page of its own chunk on (be
\* that page hybrid, or plain with the dummy beat) and no earlier; and where none is in
\* service no reset is on its way, that would hit the next chunk's.
DictionaryReset ==
  /\ \A r, s \in Resets : r = s
  /\ Resets # {} <=> dict.state = "SERVE" /\ ~(dict.c = chunk /\ PagesToCome)

Stream == INSTANCE ColumnChunkStream

\* The decoder implements ColumnChunkStream: each chunk comes out of column_chunk_decoder.sv
\* as one transfer of its type, its values in page order, closed by the last of them.
StreamSpec == Stream!Spec

\* Every chunk the host submits is delivered in full and its transfer closed.
Delivered == <>AllDelivered
=============================================================================
