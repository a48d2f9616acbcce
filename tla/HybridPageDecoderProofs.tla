---------------------- MODULE HybridPageDecoderProofs ----------------------
(***************************************************************************)
(* Theorems about the HybridPageDecoder: the RunDecoder is told of the     *)
(* right bytes, pages are kept apart, and what comes out are the values of *)
(* the pages in order, for all pages whose first run lies where an         *)
(* offset_t reaches it.                                                    *)
(***************************************************************************)
EXTENDS HybridPageDecoder, TLAPS

BytePos == [page : Nat, at : Nat]
OutBeat == [page : Nat, i : Nat, n : Nat, last : BOOLEAN]

RunDecoderState ==
  [on : BOOLEAN, page : Nat, got : Nat, given : Nat, first : BytePos, bit_width : BytePos]

InputTyped ==
  work \in Seq(Conf) /\ taken \in 0..Len(work) /\ fetched \in [DOMAIN work -> Nat]
RegsTyped ==
  /\ state \in {"IDLE", "WAIT", "CONSUME", "PIPE", "DRAIN", "DUMMY"}
  /\ offset \in 0..(2 * NumBytes - 1) /\ bit_width_offset \in 0..(NumBytes - 1)
  /\ keep_bit_width \in BytePos
  /\ run_decoder_conf_valid \in BOOLEAN /\ page_last \in BOOLEAN /\ seen_last \in BOOLEAN
  /\ num_values \in Nat
Typed == InputTyped /\ RegsTyped /\ rd \in RunDecoderState /\ out \in Seq(OutBeat)

\* While a page is in the module it is that of the configuration taken last.
InPage == state \in {"WAIT", "CONSUME", "PIPE", "DRAIN"}
Configured ==
  /\ InPage => taken \in DOMAIN work /\ work[taken].keep /\ page_last = work[taken].last
  /\ state = "DUMMY" => taken \in DOMAIN work /\ ~work[taken].keep

\* The databeats of the pages before have been taken, those of the pages to come have not.
FetchedInOrder ==
  \A i \in DOMAIN work : work[i].keep =>
    /\ i < taken => fetched[i] = PageOf(i).beats
    /\ i > taken => fetched[i] = 0

\* seen_last says whether those of the page itself are.
SeenLast ==
  /\ state = "IDLE" => \A i \in DOMAIN work : i = taken /\ work[i].keep => fetched[i] = PageOf(i).beats
  /\ state = "WAIT" => fetched[taken] = 0
  /\ state \in {"CONSUME", "DRAIN"} => fetched[taken] < PageOf(taken).beats
  /\ state = "PIPE" => fetched[taken] <= PageOf(taken).beats
  /\ seen_last <=> state = "PIPE" /\ fetched[taken] = PageOf(taken).beats

\* Where the byte behind the levels is, seen from the databeat that is at the input.
LevelsEnd == 4 + PageOf(taken).levels
Located ==
  /\ state \in {"IDLE", "WAIT", "CONSUME", "DUMMY"} => keep_bit_width = None
  /\ state # "PIPE" => ~run_decoder_conf_valid
  /\ state = "PIPE" => offset < NumBytes
  /\ state = "CONSUME" =>
       \/ fetched[taken] = 0 /\ offset = LevelsEnd /\ offset >= NumBytes - 1
       \/ fetched[taken] = 1 /\ offset = NumBytes - 1 /\ LevelsEnd = 2 * NumBytes - 1
  /\ run_decoder_conf_valid =>
       \/ /\ fetched[taken] = 0 /\ keep_bit_width = None
          /\ offset = LevelsEnd + 1 /\ bit_width_offset = LevelsEnd
       \/ /\ fetched[taken] = 1 /\ keep_bit_width = None
          /\ offset = LevelsEnd - NumBytes + 1 /\ bit_width_offset = LevelsEnd - NumBytes
       \/ /\ fetched[taken] = 1 /\ keep_bit_width = [page |-> taken, at |-> LevelsEnd]
          /\ offset = 0 /\ LevelsEnd = NumBytes - 1
       \/ /\ fetched[taken] = 2 /\ keep_bit_width = [page |-> taken, at |-> LevelsEnd]
          /\ offset = 0 /\ LevelsEnd = 2 * NumBytes - 1

\* The RunDecoder has a page from the first databeat piped to the last value, and what is
\* left of num_values are the values it has not given.
Told ==
  /\ state # "PIPE" \/ run_decoder_conf_valid => rd = IdleRD
  /\ state = "PIPE" /\ ~run_decoder_conf_valid =>
       /\ rd.page = taken /\ rd.got = fetched[taken] /\ rd.given < NumOuts(taken)
       /\ rd.bit_width = [page |-> taken, at |-> LevelsEnd]
       /\ rd.first = [page |-> taken, at |-> LevelsEnd + 1]
  /\ state \in {"WAIT", "CONSUME", "PIPE"} => num_values = Values(taken) - Upto(taken, rd.given)

\* How far the output is: to the end of page i, or to the databeat given last.
OutTo(i, k) == out # <<>> /\ out[Len(out)] = OutOf(work, i, k)
OutEnd(i) == IF i = 0 THEN out = <<>> ELSE OutTo(i, IF work[i].keep THEN NumOuts(i) ELSE 1)
OutAt ==
  /\ state \in {"IDLE", "DRAIN"} => OutEnd(taken)
  /\ state \in {"WAIT", "CONSUME", "DUMMY"} => OutEnd(taken - 1)
  /\ state = "PIPE" => IF rd.given = 0 THEN OutEnd(taken - 1) ELSE OutTo(taken, rd.given)

IInv == Typed /\ Configured /\ FetchedInOrder /\ SeenLast /\ Located /\ Told /\ OutAt

-----------------------------------------------------------------------------
(* Pages.                                                                  *)

LEMMA NoneTyped == None \in BytePos
  BY DEF None, BytePos

\* What a configuration with a page has to say.
LEMMA KeptConf ==
  ASSUME NEW c \in Conf, c.keep
  PROVE  c.page \in Page /\ RunInPage(c.page)
  BY DEF Conf

LEMMA ConfFlags ==
  ASSUME NEW c \in Conf
  PROVE  c.keep \in BOOLEAN /\ c.last \in BOOLEAN
  BY DEF Conf

LEMMA WorkConf ==
  ASSUME work \in Seq(Conf), NEW i \in DOMAIN work
  PROVE  work[i] \in Conf /\ i \in 1..Len(work) /\ i \in Nat
  OBVIOUS

\* The numbers of a page.
LEMMA PageNumbers ==
  ASSUME NEW p \in Page
  PROVE  /\ p.levels \in Nat /\ p.beats \in Nat /\ p.beats > 0
         /\ Len(p.outs) \in Nat /\ Len(p.outs) > 0 /\ DOMAIN p.outs = 1..Len(p.outs)
         /\ \A k \in 1..Len(p.outs) : p.outs[k].upto \in Nat /\ p.outs[k].upto > 0
         /\ \A k, l \in 1..Len(p.outs) : k < l => p.outs[k].upto < p.outs[l].upto
<1> DEFINE Out == [upto : Nat \ {0}, need : Nat]
<1>1. p \in [levels : Nat, beats : Nat \ {0}, outs : Seq(Out)] /\ p.outs # <<>>
      /\ \A k, l \in DOMAIN p.outs : k < l => p.outs[k].upto < p.outs[l].upto
  BY DEF Page
<1>2. p.levels \in Nat /\ p.beats \in Nat /\ p.beats > 0 /\ p.outs \in Seq(Out)
  BY <1>1
<1>3. Len(p.outs) \in Nat /\ DOMAIN p.outs = 1..Len(p.outs) /\ Len(p.outs) > 0
  BY <1>1, <1>2
<1>4. ASSUME NEW k \in 1..Len(p.outs) PROVE p.outs[k].upto \in Nat /\ p.outs[k].upto > 0
  <2>1. p.outs[k] \in Out
    <3> HIDE DEF Out
    <3> QED BY <1>2, <1>3, <1>4
  <2> QED BY <2>1
<1> QED BY <1>1, <1>2, <1>3, <1>4

\* The values up to a databeat, of a page there is.
LEMMA UptoGrows ==
  ASSUME work \in Seq(Conf), NEW i \in DOMAIN work, work[i].keep
  PROVE  /\ NumOuts(i) \in Nat /\ NumOuts(i) > 0
         /\ \A k \in 0..NumOuts(i) : Upto(i, k) \in Nat
         /\ \A k, l \in 0..NumOuts(i) : k < l => Upto(i, k) < Upto(i, l)
<1>1. work[i].page \in Page
  BY WorkConf, KeptConf
<1> QED BY <1>1, PageNumbers DEF NumOuts, Upto, PageOf

\* The first run is in the first databeat, or behind one databeat or two.
LEMMA RunBeat ==
  ASSUME NEW p \in Page, RunInPage(p)
  PROVE  /\ p.levels \in Nat /\ 4 + p.levels < 2 * NumBytes
         /\ p.beats \in Nat /\ p.beats > 0
         /\ 5 + p.levels >= NumBytes => p.beats > 1
         /\ 5 + p.levels >= 2 * NumBytes => p.beats > 2
<1>1. p.levels \in Nat /\ p.beats \in Nat /\ p.beats > 0
  BY PageNumbers
<1>2. 5 + p.levels < p.beats * NumBytes /\ 4 + p.levels < 2 * NumBytes
  BY DEF RunInPage
<1>3. CASE p.beats = 1
  <2>1. p.beats * NumBytes = NumBytes
    BY <1>3, HybridSizes
  <2> QED BY <1>1, <1>2, <2>1, HybridSizes
<1>4. CASE p.beats = 2
  <2>1. p.beats * NumBytes = 2 * NumBytes
    BY <1>4, HybridSizes
  <2> QED BY <1>1, <1>2, <1>4, <2>1, HybridSizes
<1> QED BY <1>1, <1>2, <1>3, <1>4, HybridSizes

\* An offset_t that does not wrap is the number.
LEMMA OffsetExact ==
  ASSUME NEW n \in Nat, n < 2 * NumBytes
  PROVE  Offset(n) = n
  BY HybridSizes DEF Offset

-----------------------------------------------------------------------------
(* The databeat at the input.                                              *)

LEMMA FrontBeat ==
  ASSUME work \in Seq(Conf), NEW i \in Waiting, \A j \in Waiting : i <= j
  PROVE  Valid /\ Beat = [page |-> i, b |-> fetched[i] + 1]
<1>1. \A j \in Waiting : j \in Nat
  BY WorkConf DEF Waiting
<1>2. (CHOOSE x \in Waiting : \A j \in Waiting : x <= j) = i
  BY <1>1
<1> QED BY <1>2 DEF Valid, Beat

\* The databeat at the input is the next of the first page that has one left.
LEMMA AtInput ==
  ASSUME Typed, NEW i \in DOMAIN work, work[i].keep, fetched[i] < PageOf(i).beats,
         \A j \in DOMAIN work : j < i /\ work[j].keep => fetched[j] = PageOf(j).beats
  PROVE  /\ Valid /\ Beat = [page |-> i, b |-> fetched[i] + 1]
         /\ IsLast <=> fetched[i] + 1 = PageOf(i).beats
         /\ Fetch <=> fetched' = [fetched EXCEPT ![i] = fetched[i] + 1]
         /\ \A o \in Nat : Byte(o) = [page |-> i, at |-> fetched[i] * NumBytes + o]
<1>1. \A j \in DOMAIN work : j \in Nat
  BY WorkConf DEF Typed, InputTyped
<1>2. \A j \in Waiting : j \in DOMAIN work /\ work[j].keep /\ fetched[j] < PageOf(j).beats
  BY DEF Waiting
<1>3. \A j \in Waiting : PageOf(j).beats \in Nat
  BY <1>2, WorkConf, KeptConf, PageNumbers DEF Typed, InputTyped, PageOf
<1>4. i \in Waiting /\ \A j \in Waiting : i <= j
  BY <1>1, <1>2, <1>3 DEF Waiting
<1>5. Valid /\ Beat = [page |-> i, b |-> fetched[i] + 1]
  BY <1>4, FrontBeat DEF Typed, InputTyped
<1>6. fetched[i] \in Nat
  BY DEF Typed, InputTyped
<1>7. \A o \in Nat : Byte(o) = [page |-> i, at |-> fetched[i] * NumBytes + o]
  BY <1>5, <1>6, HybridSizes DEF Byte
<1> QED BY <1>5, <1>7 DEF IsLast, Fetch

\* ... which is that of the page in the module until seen_last.
LEMMA PageAtInput ==
  ASSUME IInv, InPage, fetched[taken] < PageOf(taken).beats
  PROVE  /\ taken \in DOMAIN work /\ work[taken].keep
         /\ Valid /\ Beat = [page |-> taken, b |-> fetched[taken] + 1]
         /\ IsLast <=> fetched[taken] + 1 = PageOf(taken).beats
         /\ Fetch <=> fetched' = [fetched EXCEPT ![taken] = fetched[taken] + 1]
         /\ \A o \in Nat : Byte(o) = [page |-> taken, at |-> fetched[taken] * NumBytes + o]
<1>1. taken \in DOMAIN work /\ work[taken].keep
  BY DEF IInv, Configured
<1>2. \A j \in DOMAIN work : j < taken /\ work[j].keep => fetched[j] = PageOf(j).beats
  BY DEF IInv, FetchedInOrder
<1> QED BY <1>1, <1>2, AtInput DEF IInv

\* The page in the module.
LEMMA PageInside ==
  ASSUME IInv, InPage
  PROVE  /\ taken \in DOMAIN work /\ taken \in Nat /\ taken > 0 /\ work[taken].keep
         /\ PageOf(taken) \in Page /\ RunInPage(PageOf(taken))
         /\ PageOf(taken).beats \in Nat /\ LevelsEnd \in Nat /\ fetched[taken] \in Nat
<1>1. taken \in DOMAIN work /\ work[taken].keep
  BY DEF IInv, Configured
<1>2. work \in Seq(Conf) /\ fetched \in [DOMAIN work -> Nat]
  BY DEF IInv, Typed, InputTyped
<1>3. PageOf(taken) \in Page /\ RunInPage(PageOf(taken))
  BY <1>1, <1>2, WorkConf, KeptConf DEF PageOf
<1> QED BY <1>1, <1>2, <1>3, WorkConf, PageNumbers DEF LevelsEnd

\* Definitions that speak of the workload only.
LEMMA WorkOnly ==
  ASSUME UNCHANGED work
  PROVE  /\ \A i : PageOf(i)' = PageOf(i) /\ NumOuts(i)' = NumOuts(i) /\ Values(i)' = Values(i)
         /\ \A i, k : Upto(i, k)' = Upto(i, k)
         /\ \A i, k : OutOf(work, i, k)' = OutOf(work, i, k)
  BY DEF PageOf, NumOuts, Values, Upto, OutOf

LEMMA OutputStays ==
  ASSUME UNCHANGED <<work, out>>
  PROVE  /\ \A i : OutEnd(i)' = OutEnd(i)
         /\ \A i, k : OutTo(i, k)' = OutTo(i, k)
  BY DEF OutEnd, OutTo, NumOuts, PageOf, OutOf

LEMMA ResetTyped ==
  ASSUME RegsTyped, Reset, UNCHANGED page_last, num_values' \in Nat
  PROVE  RegsTyped'
<1>1. state' \in {"IDLE", "WAIT", "CONSUME", "PIPE", "DRAIN", "DUMMY"}
  BY DEF Reset
<1>2. offset' \in 0..(2 * NumBytes - 1) /\ bit_width_offset' \in 0..(NumBytes - 1)
  BY HybridSizes DEF Reset
<1>3. keep_bit_width' \in BytePos
  BY NoneTyped DEF Reset
<1>4. run_decoder_conf_valid' \in BOOLEAN /\ page_last' \in BOOLEAN /\ seen_last' \in BOOLEAN
  BY DEF Reset, RegsTyped
<1> QED BY <1>1, <1>2, <1>3, <1>4 DEF RegsTyped

-----------------------------------------------------------------------------
(* Every step.                                                             *)

\* Padding is swallowed up to the page's last databeat.
LEMMA StepDrain ==
  ASSUME IInv, Drain
  PROVE  IInv'
<1> USE DEF IInv
<1>1. state = "DRAIN" /\ Fetch /\ UNCHANGED <<work, taken, num_values, page_last, rd, out>>
  BY DEF Drain, conf_vars, page_vars
<1>2. InPage /\ fetched[taken] < PageOf(taken).beats
  BY <1>1 DEF SeenLast, InPage
<1>3. /\ taken \in DOMAIN work /\ work[taken].keep /\ taken \in Nat
      /\ IsLast <=> fetched[taken] + 1 = PageOf(taken).beats
      /\ fetched' = [fetched EXCEPT ![taken] = fetched[taken] + 1]
      /\ PageOf(taken).beats \in Nat /\ fetched[taken] \in Nat
  BY <1>1, <1>2, PageAtInput, PageInside
<1>4. \/ IsLast /\ Reset
      \/ ~IsLast /\ UNCHANGED <<state, offset, bit_width_offset, keep_bit_width, run_decoder_conf_valid, seen_last>>
  BY DEF Drain, bit_width
<1>5. Typed'
  <2>1. InputTyped'
    BY <1>1, <1>3 DEF Typed, InputTyped
  <2>2. RegsTyped'
    <3>1. CASE IsLast
      BY <1>1, <1>4, <3>1, ResetTyped DEF Typed, RegsTyped
    <3>2. CASE ~IsLast
      BY <1>1, <1>4, <3>2 DEF Typed, RegsTyped
    <3> QED BY <3>1, <3>2
  <2> QED BY <1>1, <2>1, <2>2 DEF Typed, InputTyped
<1>6. Configured'
  BY <1>1, <1>3, <1>4 DEF Configured, InPage, Reset
<1>7. FetchedInOrder'
  BY <1>1, <1>3, WorkOnly DEF FetchedInOrder, Typed, InputTyped
<1>8. SeenLast'
  BY <1>1, <1>3, <1>4, WorkOnly DEF SeenLast, Reset, Typed, InputTyped
<1>9. Located'
  BY <1>1, <1>3, <1>4 DEF Located, Reset, Typed, InputTyped
<1>10. Told'
  BY <1>1, <1>3, <1>4 DEF Told, Located, Reset, IdleRD
<1>11. OutAt'
  BY <1>1, <1>4, OutputStays DEF OutAt, Reset
<1> QED BY <1>5, <1>6, <1>7, <1>8, <1>9, <1>10, <1>11


\* A first databeat: levels end in it or not, and the byte behind them is its last or not.
LEMMA FirstProcessed ==
  ASSUME Typed, NEW i \in DOMAIN work, work[i].keep, fetched[i] = 0,
         \A j \in DOMAIN work : j < i /\ work[j].keep => fetched[j] = PageOf(j).beats,
         ProcessFirstDatabeat
  PROVE  \/ /\ state' = "CONSUME" /\ offset' = 4 + PageOf(i).levels /\ offset' >= NumBytes - 1
            /\ offset' \in 0..(2 * NumBytes - 1)
            /\ UNCHANGED <<bit_width_offset, run_decoder_conf_valid>>
         \/ /\ state' = "PIPE" /\ offset' = 5 + PageOf(i).levels /\ offset' < NumBytes
            /\ offset' \in 0..(2 * NumBytes - 1)
            /\ bit_width_offset' = 4 + PageOf(i).levels /\ bit_width_offset' \in 0..(NumBytes - 1)
            /\ run_decoder_conf_valid' = TRUE
<1>1. PageOf(i) \in Page /\ RunInPage(PageOf(i))
  BY WorkConf, KeptConf DEF PageOf, Typed, InputTyped
<1>2. /\ PageOf(i).levels \in Nat /\ 4 + PageOf(i).levels < 2 * NumBytes
      /\ PageOf(i).beats > 0
  BY <1>1, RunBeat
<1>3. Beat = [page |-> i, b |-> 1]
  BY <1>2, AtInput
<1>4. ActualOffset = 4 + PageOf(i).levels
  BY <1>2, <1>3, OffsetExact DEF ActualOffset
<1>5. CASE 4 + PageOf(i).levels >= NumBytes - 1
  BY <1>2, <1>4, <1>5, HybridSizes DEF ProcessFirstDatabeat
<1>6. CASE 4 + PageOf(i).levels < NumBytes - 1
  BY <1>2, <1>4, <1>6, HybridSizes DEF ProcessFirstDatabeat, Configure
<1>7. 4 + PageOf(i).levels >= NumBytes - 1 \/ 4 + PageOf(i).levels < NumBytes - 1
  BY <1>2, HybridSizes
<1> QED BY <1>5, <1>6, <1>7, Zenon

\* A page that has just been configured, with its first databeat or before it comes.
LEMMA PageBegins ==
  ASSUME Typed, FetchedInOrder', UNCHANGED <<work, fetched, rd, out>>,
         NEW i \in DOMAIN work, taken' = i, work[i].keep, fetched[i] = 0,
         rd = IdleRD, keep_bit_width' = None, ~seen_last', seen_last' \in BOOLEAN,
         page_last' = work[i].last, num_values' = Values(i), OutEnd(i - 1),
         run_decoder_conf_valid = FALSE,
         bit_width_offset \in 0..(NumBytes - 1),
         \/ state' = "WAIT" /\ UNCHANGED <<offset, bit_width_offset, run_decoder_conf_valid>>
         \/ /\ state' = "CONSUME" /\ offset' = 4 + PageOf(i).levels /\ offset' >= NumBytes - 1
            /\ offset' \in 0..(2 * NumBytes - 1)
            /\ UNCHANGED <<bit_width_offset, run_decoder_conf_valid>>
         \/ /\ state' = "PIPE" /\ offset' = 5 + PageOf(i).levels /\ offset' < NumBytes
            /\ offset' \in 0..(2 * NumBytes - 1)
            /\ bit_width_offset' = 4 + PageOf(i).levels /\ bit_width_offset' \in 0..(NumBytes - 1)
            /\ run_decoder_conf_valid' = TRUE
  PROVE  IInv'
<1>1. /\ work[i] \in Conf /\ i \in Nat /\ i > 0 /\ i <= Len(work)
      /\ PageOf(i) \in Page /\ PageOf(i).beats \in Nat /\ PageOf(i).beats > 0 /\ PageOf(i).levels \in Nat
  BY WorkConf, KeptConf, PageNumbers DEF PageOf, Typed, InputTyped
<1>2. NumOuts(i) \in Nat /\ NumOuts(i) > 0 /\ Values(i) \in Nat
  BY UptoGrows DEF Values, Typed, InputTyped
<1>3. rd.given = 0 /\ rd.page = 0
  BY DEF IdleRD
<1>4. Typed'
  <2>1. InputTyped'
    BY <1>1 DEF Typed, InputTyped
  <2>2. state' \in {"WAIT", "CONSUME", "PIPE"} /\ offset' \in 0..(2 * NumBytes - 1)
        /\ bit_width_offset' \in 0..(NumBytes - 1)
    BY DEF Typed, RegsTyped
  <2>3. keep_bit_width' \in BytePos /\ num_values' \in Nat
    BY <1>2, NoneTyped
  <2>4. run_decoder_conf_valid' \in BOOLEAN /\ page_last' \in BOOLEAN /\ seen_last' \in BOOLEAN
    BY <1>1, ConfFlags
  <2>5. RegsTyped'
    BY <2>2, <2>3, <2>4 DEF RegsTyped
  <2> QED BY <2>1, <2>5 DEF Typed
<1>5. Configured'
  BY DEF Configured, InPage
<1>6. SeenLast'
  BY <1>1, WorkOnly DEF SeenLast
<1>7. Located'
  <2>1. LevelsEnd' = 4 + PageOf(i).levels
    BY WorkOnly DEF LevelsEnd
  <2> QED BY <1>1, <2>1, HybridSizes DEF Located
<1>8. Told'
  <2>1. Values(i)' = Values(i) - Upto(i, 0)
    BY <1>2, WorkOnly DEF Upto
  <2> QED BY <1>3, <2>1, WorkOnly DEF Told, IdleRD
<1>9. OutAt'
  BY <1>3, OutputStays DEF OutAt
<1> QED BY <1>4, <1>5, <1>6, <1>7, <1>8, <1>9 DEF IInv

\* A page whose first databeat was not there when it was configured.
LEMMA StepFirstDatabeat ==
  ASSUME IInv, FirstDatabeat
  PROVE  IInv'
<1>1. /\ state = "WAIT" /\ ProcessFirstDatabeat
      /\ UNCHANGED <<work, taken, fetched, keep_bit_width, num_values, page_last, seen_last, rd, out>>
  BY DEF FirstDatabeat, conf_vars, page_vars
<1>2. InPage
  BY <1>1 DEF InPage
<1>3. taken \in DOMAIN work /\ work[taken].keep /\ page_last = work[taken].last /\ fetched[taken] = 0
  BY <1>1, <1>2 DEF IInv, Configured, SeenLast
<1>4. FetchedInOrder' /\ \A j \in DOMAIN work : j < taken /\ work[j].keep => fetched[j] = PageOf(j).beats
  BY <1>1, WorkOnly DEF IInv, FetchedInOrder
<1>5. Typed /\ bit_width_offset \in 0..(NumBytes - 1) /\ seen_last \in BOOLEAN
  BY DEF IInv, Typed, RegsTyped
<1>6. ~seen_last /\ keep_bit_width = None /\ run_decoder_conf_valid = FALSE /\ rd = IdleRD
  BY <1>1 DEF IInv, SeenLast, Located, Told, Typed, RegsTyped
<1>7. num_values = Values(taken)
  <2>1. num_values = Values(taken) - Upto(taken, 0)
    BY <1>1, <1>6 DEF IInv, Told, IdleRD
  <2>2. Values(taken) \in Nat
    BY <1>3, <1>5, UptoGrows DEF Values, Typed, InputTyped
  <2> QED BY <2>1, <2>2 DEF Upto
<1>8. OutEnd(taken - 1)
  BY <1>1 DEF IInv, OutAt
<1>9. \/ /\ state' = "CONSUME" /\ offset' = 4 + PageOf(taken).levels /\ offset' >= NumBytes - 1
         /\ offset' \in 0..(2 * NumBytes - 1)
         /\ UNCHANGED <<bit_width_offset, run_decoder_conf_valid>>
      \/ /\ state' = "PIPE" /\ offset' = 5 + PageOf(taken).levels /\ offset' < NumBytes
         /\ offset' \in 0..(2 * NumBytes - 1)
         /\ bit_width_offset' = 4 + PageOf(taken).levels /\ bit_width_offset' \in 0..(NumBytes - 1)
         /\ run_decoder_conf_valid' = TRUE
  BY <1>1, <1>3, <1>4, <1>5, FirstProcessed
<1>10. /\ UNCHANGED <<work, fetched, rd, out>> /\ taken' = taken /\ keep_bit_width' = None /\ ~seen_last'
       /\ seen_last' \in BOOLEAN /\ page_last' = work[taken].last /\ num_values' = Values(taken)
  BY <1>1, <1>3, <1>5, <1>6, <1>7
<1> QED BY <1>3, <1>4, <1>5, <1>6, <1>8, <1>9, <1>10, PageBegins


\* Between pages: the next configuration, its page's first databeat there or not.
LEMMA StepTakeConf ==
  ASSUME IInv, NEW in_valid \in BOOLEAN, TakeConf(in_valid)
  PROVE  IInv'
<1> DEFINE i == taken + 1
<1>1. /\ state = "IDLE" /\ taken < Len(work) /\ taken' = i /\ page_last' = work[i].last
      /\ UNCHANGED <<work, fetched, keep_bit_width, seen_last, rd, out>>
  BY DEF TakeConf
<1>2. Typed /\ work \in Seq(Conf) /\ taken \in Nat /\ bit_width_offset \in 0..(NumBytes - 1)
      /\ seen_last \in BOOLEAN /\ fetched \in [DOMAIN work -> Nat]
  BY DEF IInv, Typed, InputTyped, RegsTyped
<1>3. i \in DOMAIN work /\ i \in 1..Len(work) /\ i \in Nat /\ i > 0 /\ i - 1 = taken /\ work[i] \in Conf
  BY <1>1, <1>2
<1>4. ~seen_last /\ keep_bit_width = None /\ run_decoder_conf_valid = FALSE /\ rd = IdleRD
  BY <1>1 DEF IInv, SeenLast, Located, Told, Typed, RegsTyped
<1>5. OutEnd(i - 1)
  BY <1>1, <1>3 DEF IInv, OutAt
<1>6. \A j \in DOMAIN work : j < i /\ work[j].keep => fetched[j] = PageOf(j).beats
  <2> SUFFICES ASSUME NEW j \in DOMAIN work, j < i, work[j].keep PROVE fetched[j] = PageOf(j).beats
    OBVIOUS
  <2>1. j \in Nat /\ (j < taken \/ j = taken)
    BY <1>2, WorkConf
  <2> QED BY <1>1, <2>1 DEF IInv, FetchedInOrder, SeenLast
<1>7. \A j \in DOMAIN work : j >= i /\ work[j].keep => fetched[j] = 0
  <2> SUFFICES ASSUME NEW j \in DOMAIN work, j >= i, work[j].keep PROVE fetched[j] = 0
    OBVIOUS
  <2>1. j \in Nat /\ j > taken
    BY <1>2, WorkConf
  <2> QED BY <2>1 DEF IInv, FetchedInOrder
<1>8. FetchedInOrder'
  <2> SUFFICES ASSUME NEW j \in DOMAIN work, work[j].keep
               PROVE  (j < i => fetched[j] = PageOf(j).beats) /\ (j > i => fetched[j] = 0)
    BY <1>1, WorkOnly DEF FetchedInOrder
  <2>1. j \in Nat
    BY <1>2, WorkConf
  <2> QED BY <1>3, <1>6, <1>7, <2>1
<1>9. CASE ~work[i].keep
  <2>1. state' = "DUMMY" /\ UNCHANGED <<num_values, offset, bit_width_offset, run_decoder_conf_valid>>
    BY <1>1, <1>9 DEF TakeConf
  <2>2. Typed'
    <3>1. InputTyped'
      BY <1>1, <1>3 DEF IInv, Typed, InputTyped
    <3>2. page_last' \in BOOLEAN
      BY <1>1, <1>3, ConfFlags
    <3>3. RegsTyped'
      BY <1>1, <2>1, <3>2 DEF IInv, Typed, RegsTyped
    <3> QED BY <1>1, <3>1, <3>3 DEF IInv, Typed
  <2>3. Configured'
    BY <1>1, <1>3, <1>9, <2>1 DEF Configured, InPage
  <2>4. SeenLast'
    BY <1>1, <1>4, <2>1 DEF SeenLast
  <2>5. Located'
    BY <1>1, <1>4, <2>1 DEF Located
  <2>6. Told'
    BY <1>1, <1>4, <2>1 DEF Told, IdleRD
  <2>7. OutAt'
    BY <1>1, <1>5, <2>1, OutputStays DEF OutAt
  <2> QED BY <1>8, <2>2, <2>3, <2>4, <2>5, <2>6, <2>7 DEF IInv
<1>10. CASE work[i].keep
  <2>1. /\ num_values' = Values(i)
        /\ IF in_valid THEN Valid /\ ProcessFirstDatabeat
           ELSE state' = "WAIT" /\ UNCHANGED <<offset, bit_width_offset, run_decoder_conf_valid>>
    BY <1>1, <1>10, WorkOnly DEF TakeConf
  <2>2. fetched[i] = 0
    BY <1>3, <1>7, <1>10
  <2>3. \/ state' = "WAIT" /\ UNCHANGED <<offset, bit_width_offset, run_decoder_conf_valid>>
        \/ /\ state' = "CONSUME" /\ offset' = 4 + PageOf(i).levels /\ offset' >= NumBytes - 1
           /\ offset' \in 0..(2 * NumBytes - 1)
           /\ UNCHANGED <<bit_width_offset, run_decoder_conf_valid>>
        \/ /\ state' = "PIPE" /\ offset' = 5 + PageOf(i).levels /\ offset' < NumBytes
           /\ offset' \in 0..(2 * NumBytes - 1)
           /\ bit_width_offset' = 4 + PageOf(i).levels /\ bit_width_offset' \in 0..(NumBytes - 1)
           /\ run_decoder_conf_valid' = TRUE
    <3>1. CASE in_valid
      <4>1. ProcessFirstDatabeat
        BY <2>1, <3>1
      <4> HIDE DEF i
      <4> QED BY <1>2, <1>3, <1>6, <1>10, <2>2, <4>1, FirstProcessed
    <3>2. CASE ~in_valid
      BY <2>1, <3>2
    <3> QED BY <3>1, <3>2
  <2>4. /\ UNCHANGED <<work, fetched, rd, out>> /\ taken' = i /\ keep_bit_width' = None /\ ~seen_last'
        /\ seen_last' \in BOOLEAN /\ page_last' = work[i].last /\ num_values' = Values(i)
    BY <1>1, <1>2, <1>4, <2>1
  <2> HIDE DEF i
  <2> QED BY <1>2, <1>3, <1>4, <1>5, <1>8, <1>10, <2>2, <2>3, <2>4, PageBegins
<1> QED BY <1>9, <1>10

\* The dummy beat of a configuration without a page.
LEMMA StepDummy ==
  ASSUME IInv, Dummy
  PROVE  IInv'
<1>1. /\ state = "DUMMY" /\ Reset /\ out' = Append(out, [page |-> taken, i |-> 1, n |-> 0, last |-> TRUE])
      /\ UNCHANGED <<work, taken, fetched, num_values, page_last, rd>>
  BY DEF Dummy, conf_vars, page_vars
<1>2. taken \in DOMAIN work /\ ~work[taken].keep /\ taken \in Nat /\ taken > 0
  BY <1>1, WorkConf DEF IInv, Configured, Typed, InputTyped
<1>3. /\ out' \in Seq(OutBeat) /\ out' # <<>>
      /\ out'[Len(out')] = [page |-> taken, i |-> 1, n |-> 0, last |-> TRUE]
  <2>1. [page |-> taken, i |-> 1, n |-> 0, last |-> TRUE] \in OutBeat
    BY <1>2 DEF OutBeat
  <2> HIDE DEF OutBeat
  <2> QED BY <1>1, <2>1 DEF IInv, Typed
<1>4. Typed'
  <2>1. num_values' \in Nat
    BY <1>1 DEF IInv, Typed, RegsTyped
  <2>2. RegsTyped'
    BY <1>1, <2>1, ResetTyped DEF IInv, Typed
  <2> QED BY <1>1, <1>3, <2>2 DEF IInv, Typed, InputTyped
<1>5. Configured'
  BY <1>1 DEF Configured, InPage, Reset
<1>6. FetchedInOrder'
  BY <1>1, WorkOnly DEF IInv, FetchedInOrder
<1>7. SeenLast'
  BY <1>1, <1>2 DEF SeenLast, Reset
<1>8. Located'
  BY <1>1 DEF Located, Reset
<1>9. Told'
  BY <1>1 DEF IInv, Told, Reset, IdleRD
<1>10. OutAt'
  <2>1. OutTo(taken, 1)'
    BY <1>1, <1>2, <1>3 DEF OutTo, OutOf
  <2> QED BY <1>1, <1>2, <2>1 DEF OutAt, OutEnd, Reset
<1> QED BY <1>4, <1>5, <1>6, <1>7, <1>8, <1>9, <1>10 DEF IInv

\* The RunDecoder takes no more.
LEMMA StepRunDecoderDone ==
  ASSUME IInv, RunDecoderDone
  PROVE  IInv'
<1>1. /\ rd.on /\ rd' = [rd EXCEPT !.on = FALSE]
      /\ UNCHANGED <<work, taken, fetched, state, offset, bit_width_offset, keep_bit_width,
                     run_decoder_conf_valid, num_values, page_last, seen_last, out>>
  BY DEF RunDecoderDone, conf_vars, bit_width, page_vars
<1>2. rd \in RunDecoderState
  BY DEF IInv, Typed
<1>3. /\ rd'.page = rd.page /\ rd'.got = rd.got /\ rd'.given = rd.given
      /\ rd'.bit_width = rd.bit_width /\ rd'.first = rd.first /\ rd' \in RunDecoderState
  BY <1>1, <1>2 DEF RunDecoderState
<1>4. state = "PIPE" /\ ~run_decoder_conf_valid
  BY <1>1 DEF IInv, Told, IdleRD
<1>5. Typed'
  BY <1>1, <1>3 DEF IInv, Typed, InputTyped, RegsTyped
<1>6. Configured' /\ FetchedInOrder' /\ SeenLast' /\ Located'
  BY <1>1, WorkOnly DEF IInv, Configured, InPage, FetchedInOrder, SeenLast, Located, LevelsEnd
<1>7. Told'
  BY <1>1, <1>3, <1>4, WorkOnly DEF IInv, Told, LevelsEnd
<1>8. OutAt'
  BY <1>1, <1>3, <1>4, OutputStays DEF IInv, OutAt
<1> QED BY <1>5, <1>6, <1>7, <1>8 DEF IInv


\* A databeat of levels, or the one that ends with the bit width: neither is the page's last.
LEMMA StepConsume ==
  ASSUME IInv, Consume
  PROVE  IInv'
<1>1. /\ state = "CONSUME" /\ Fetch /\ seen_last' = (seen_last \/ IsLast)
      /\ UNCHANGED <<work, taken, num_values, page_last, rd, out>>
  BY DEF Consume, conf_vars, page_vars
<1>2. InPage /\ fetched[taken] < PageOf(taken).beats
  BY <1>1 DEF IInv, SeenLast, InPage
<1>3. /\ taken \in DOMAIN work /\ work[taken].keep /\ taken \in Nat
      /\ IsLast <=> fetched[taken] + 1 = PageOf(taken).beats
      /\ fetched' = [fetched EXCEPT ![taken] = fetched[taken] + 1]
      /\ \A o \in Nat : Byte(o) = [page |-> taken, at |-> fetched[taken] * NumBytes + o]
      /\ PageOf(taken).beats \in Nat /\ fetched[taken] \in Nat
  BY <1>1, <1>2, PageAtInput, PageInside
<1>4. /\ LevelsEnd \in Nat /\ LevelsEnd < 2 * NumBytes
      /\ LevelsEnd + 1 >= NumBytes => PageOf(taken).beats > 1
      /\ LevelsEnd + 1 >= 2 * NumBytes => PageOf(taken).beats > 2
  BY <1>2, PageInside, RunBeat DEF LevelsEnd
<1>5. \/ fetched[taken] = 0 /\ offset = LevelsEnd /\ offset >= NumBytes - 1
      \/ fetched[taken] = 1 /\ offset = NumBytes - 1 /\ LevelsEnd = 2 * NumBytes - 1
  BY <1>1 DEF IInv, Located
<1>6. fetched[taken] + 1 < PageOf(taken).beats /\ ~IsLast
  <2>1. CASE fetched[taken] = 0 /\ LevelsEnd >= NumBytes - 1
    BY <1>3, <1>4, <2>1, HybridSizes
  <2>2. CASE fetched[taken] = 1 /\ LevelsEnd = 2 * NumBytes - 1
    BY <1>3, <1>4, <2>2, HybridSizes
  <2> QED BY <1>5, <2>1, <2>2
<1>7. keep_bit_width = None /\ ~run_decoder_conf_valid /\ rd = IdleRD /\ ~seen_last
  BY <1>1 DEF IInv, Located, Told, SeenLast
<1>8. fetched' \in [DOMAIN work -> Nat] /\ fetched'[taken] = fetched[taken] + 1
  BY <1>3 DEF IInv, Typed, InputTyped
<1>9. /\ state' \in {"CONSUME", "PIPE"}
      /\ offset' \in 0..(2 * NumBytes - 1) /\ bit_width_offset' \in 0..(NumBytes - 1)
      /\ run_decoder_conf_valid' \in BOOLEAN /\ keep_bit_width' \in BytePos
      /\ state' = "CONSUME" =>
           /\ fetched[taken] = 0 /\ offset' = NumBytes - 1 /\ LevelsEnd = 2 * NumBytes - 1
           /\ keep_bit_width' = None /\ ~run_decoder_conf_valid'
      /\ state' = "PIPE" => offset' < NumBytes /\ run_decoder_conf_valid'
      /\ run_decoder_conf_valid' =>
           \/ /\ fetched[taken] = 0 /\ keep_bit_width' = None
              /\ offset' = LevelsEnd - NumBytes + 1 /\ bit_width_offset' = LevelsEnd - NumBytes
           \/ /\ fetched[taken] = 0 /\ keep_bit_width' = [page |-> taken, at |-> LevelsEnd]
              /\ offset' = 0 /\ LevelsEnd = NumBytes - 1
           \/ /\ fetched[taken] = 1 /\ keep_bit_width' = [page |-> taken, at |-> LevelsEnd]
              /\ offset' = 0 /\ LevelsEnd = 2 * NumBytes - 1
  <2>1. /\ offset \in Nat /\ bit_width_offset \in 0..(NumBytes - 1) /\ NumBytes \in Nat /\ NumBytes > 4
        /\ run_decoder_conf_valid \in BOOLEAN
    BY <1>4, <1>5, HybridSizes DEF IInv, Typed, RegsTyped
  <2>2. CASE offset = NumBytes - 1
    <3>1. keep_bit_width' = Byte(NumBytes - 1) /\ Configure(0, 0)
      BY <2>2 DEF Consume
    <3>2. fetched[taken] * NumBytes + (NumBytes - 1) = LevelsEnd
      <4>1. CASE fetched[taken] = 0
        BY <1>4, <1>5, <2>1, <2>2, <4>1
      <4>2. CASE fetched[taken] = 1
        BY <1>4, <1>5, <2>1, <2>2, <4>2
      <4> QED BY <1>5, <4>1, <4>2
    <3>3. keep_bit_width' = [page |-> taken, at |-> LevelsEnd]
      <4>1. NumBytes - 1 \in Nat
        BY <2>1
      <4> QED BY <1>3, <3>1, <3>2, <4>1
    <3>4. keep_bit_width' \in BytePos
      BY <1>3, <1>4, <3>3 DEF BytePos
    <3> QED BY <1>4, <1>5, <2>1, <2>2, <3>1, <3>3, <3>4 DEF Configure
  <2>3. CASE offset # NumBytes - 1
    <3>1. fetched[taken] = 0 /\ offset = LevelsEnd /\ offset >= NumBytes /\ offset - NumBytes \in Nat
          /\ offset - NumBytes < 2 * NumBytes
      BY <1>4, <1>5, <2>1, <2>3
    <3>2. Offset(offset - NumBytes) = offset - NumBytes
      BY <3>1, OffsetExact
    <3>3. /\ UNCHANGED keep_bit_width
          /\ IF offset - NumBytes < NumBytes - 1 THEN Configure(offset - NumBytes + 1, offset - NumBytes)
             ELSE offset' = offset - NumBytes /\ UNCHANGED <<state, bit_width_offset, run_decoder_conf_valid>>
      BY <2>3, <3>2 DEF Consume
    <3>4. CASE offset - NumBytes < NumBytes - 1
      BY <1>4, <1>7, <2>1, <3>1, <3>3, <3>4, NoneTyped DEF Configure
    <3>5. CASE ~(offset - NumBytes < NumBytes - 1)
      BY <1>1, <1>4, <1>7, <2>1, <3>1, <3>3, <3>5, NoneTyped
    <3> QED BY <3>4, <3>5
  <2> QED BY <2>2, <2>3
<1>10. Typed'
  <2>1. seen_last' \in BOOLEAN /\ page_last' \in BOOLEAN /\ num_values' \in Nat
    BY <1>1, <1>6, <1>7 DEF IInv, Typed, RegsTyped
  <2>2. RegsTyped'
    BY <1>9, <2>1 DEF RegsTyped
  <2> QED BY <1>1, <1>8, <2>2 DEF IInv, Typed, InputTyped
<1>11. Configured'
  BY <1>1, <1>2, <1>9 DEF IInv, Configured, InPage
<1>12. FetchedInOrder'
  BY <1>1, <1>3, WorkOnly DEF IInv, FetchedInOrder, Typed, InputTyped
<1>13. SeenLast'
  <2>1. ~seen_last'
    BY <1>1, <1>6, <1>7
  <2> QED BY <1>1, <1>3, <1>6, <1>8, <1>9, <2>1, WorkOnly DEF SeenLast
<1>14. Located'
  <2>1. LevelsEnd' = LevelsEnd
    BY <1>1, WorkOnly DEF LevelsEnd
  <2> QED BY <1>1, <1>3, <1>4, <1>8, <1>9, <2>1 DEF Located
<1>15. Told'
  BY <1>1, <1>7, <1>9, WorkOnly DEF IInv, Told
<1>16. OutAt'
  BY <1>1, <1>7, <1>9, OutputStays DEF IInv, OutAt, IdleRD
<1> QED BY <1>10, <1>11, <1>12, <1>13, <1>14, <1>15, <1>16 DEF IInv

\* What a cycle of ST_PIPE takes is of the page in the module.
LEMMA PipeFetch ==
  ASSUME IInv, NEW take \in BOOLEAN, NEW give \in BOOLEAN, Pipe(take, give)
  PROVE  /\ FetchedInOrder' /\ fetched' \in [DOMAIN work -> Nat]
         /\ fetched'[taken] \in Nat /\ fetched'[taken] <= PageOf(taken).beats
         /\ seen_last \/ (take /\ IsLast) <=> fetched'[taken] = PageOf(taken).beats
         /\ take => /\ fetched'[taken] = fetched[taken] + 1
                    /\ Beat = [page |-> taken, b |-> fetched[taken] + 1]
                    /\ \A o \in Nat : Byte(o) = [page |-> taken, at |-> fetched[taken] * NumBytes + o]
         /\ ~take => UNCHANGED fetched
<1>1. /\ state = "PIPE" /\ (take => CanTake) /\ (IF take THEN Fetch ELSE UNCHANGED fetched)
      /\ UNCHANGED <<work, taken>>
  BY DEF Pipe, conf_vars
<1>2. InPage
  BY <1>1 DEF InPage
<1>3. /\ taken \in DOMAIN work /\ taken \in Nat /\ PageOf(taken) \in Page /\ RunInPage(PageOf(taken))
      /\ PageOf(taken).beats \in Nat /\ fetched[taken] \in Nat
      /\ fetched \in [DOMAIN work -> Nat] /\ seen_last \in BOOLEAN
  BY <1>2, PageInside DEF IInv, Typed, InputTyped, RegsTyped
<1>4. fetched[taken] <= PageOf(taken).beats /\ (seen_last <=> fetched[taken] = PageOf(taken).beats)
  BY <1>1 DEF IInv, SeenLast
<1>5. CASE ~take
  <2>1. UNCHANGED fetched
    BY <1>1, <1>5
  <2>2. FetchedInOrder'
    BY <1>1, <2>1, WorkOnly DEF IInv, FetchedInOrder
  <2> QED BY <1>3, <1>4, <1>5, <2>1, <2>2
<1>6. CASE take
  <2>1. fetched[taken] < PageOf(taken).beats
    <3>1. CASE run_decoder_conf_valid
      <4>1. /\ LevelsEnd \in Nat /\ PageOf(taken).beats > 0
            /\ LevelsEnd + 1 >= NumBytes => PageOf(taken).beats > 1
            /\ LevelsEnd + 1 >= 2 * NumBytes => PageOf(taken).beats > 2
        BY <1>2, <1>3, PageInside, RunBeat DEF LevelsEnd
      <4>2. offset \in Nat /\ bit_width_offset \in Nat
        BY DEF IInv, Typed, RegsTyped
      <4>3. \/ fetched[taken] = 0
            \/ fetched[taken] = 1 /\ (bit_width_offset = LevelsEnd - NumBytes \/ LevelsEnd = NumBytes - 1)
            \/ fetched[taken] = 2 /\ LevelsEnd = 2 * NumBytes - 1
        BY <3>1 DEF IInv, Located
      <4> QED BY <1>3, <4>1, <4>2, <4>3, HybridSizes
    <3>2. CASE ~run_decoder_conf_valid
      BY <1>1, <1>6, <3>2 DEF IInv, Told, CanTake
    <3> QED BY <3>1, <3>2
  <2>2. /\ Beat = [page |-> taken, b |-> fetched[taken] + 1]
        /\ IsLast <=> fetched[taken] + 1 = PageOf(taken).beats
        /\ fetched' = [fetched EXCEPT ![taken] = fetched[taken] + 1]
        /\ \A o \in Nat : Byte(o) = [page |-> taken, at |-> fetched[taken] * NumBytes + o]
    BY <1>1, <1>2, <1>6, <2>1, PageAtInput
  <2>3. FetchedInOrder'
    BY <1>1, <1>3, <2>2, WorkOnly DEF IInv, FetchedInOrder
  <2>4. fetched' \in [DOMAIN work -> Nat] /\ fetched'[taken] = fetched[taken] + 1
    BY <1>3, <2>2
  <2>5. (seen_last \/ (take /\ IsLast)) <=> fetched'[taken] = PageOf(taken).beats
    BY <1>3, <1>4, <1>6, <2>1, <2>2, <2>4
  <2> QED BY <1>3, <1>6, <2>1, <2>2, <2>3, <2>4, <2>5
<1> QED BY <1>5, <1>6

\* What it gives is the page's next databeat, and the last of them is told by the count.
LEMMA PipeGive ==
  ASSUME IInv, state = "PIPE", CanGive
  PROVE  /\ ~run_decoder_conf_valid
         /\ rd.given \in Nat /\ rd.given + 1 <= NumOuts(taken)
         /\ Exhausted <=> rd.given + 1 = NumOuts(taken)
         /\ num_values - Given \in Nat
         /\ num_values - Given = Values(taken) - Upto(taken, rd.given + 1)
         /\ [page |-> rd.page, i |-> rd.given + 1, n |-> Given, last |-> MaskedLast] \in OutBeat
         /\ [page |-> rd.page, i |-> rd.given + 1, n |-> Given, last |-> MaskedLast]
              = OutOf(work, taken, rd.given + 1)
<1>1. ~run_decoder_conf_valid /\ rd.page = taken /\ rd.given < NumOuts(taken)
  BY DEF IInv, Told, CanGive, IdleRD
<1>2. rd.given \in Nat
  BY DEF IInv, Typed, RunDecoderState
<1>3. /\ taken \in DOMAIN work /\ taken \in Nat /\ work[taken].keep /\ page_last = work[taken].last
      /\ page_last \in BOOLEAN /\ work \in Seq(Conf)
  BY WorkConf DEF IInv, Configured, InPage, Typed, InputTyped, RegsTyped
<1> DEFINE k == rd.given + 1
           N == NumOuts(taken)
<1>4. /\ N \in Nat /\ N > 0 /\ k \in 1..N
      /\ Upto(taken, rd.given) \in Nat /\ Upto(taken, k) \in Nat /\ Upto(taken, N) \in Nat
      /\ Upto(taken, rd.given) < Upto(taken, k)
      /\ k < N => Upto(taken, k) < Upto(taken, N)
  BY <1>1, <1>2, <1>3, UptoGrows
<1>5. num_values = Upto(taken, N) - Upto(taken, rd.given) /\ Given = Upto(taken, k) - Upto(taken, rd.given)
  BY <1>1 DEF IInv, Told, Values, Given
<1>6. Exhausted <=> k = N
  BY <1>4, <1>5 DEF Exhausted
<1>7. MaskedLast = (k = N /\ work[taken].last)
  BY <1>3, <1>6 DEF MaskedLast
<1>8. Given \in Nat /\ MaskedLast \in BOOLEAN
  BY <1>3, <1>4, <1>5, <1>7
<1>9. OutOf(work, taken, k) = [page |-> taken, i |-> k, n |-> Given, last |-> (k = N /\ work[taken].last)]
  <2>1. Given = PageOf(taken).outs[k].upto - (IF k = 1 THEN 0 ELSE PageOf(taken).outs[k - 1].upto)
    BY <1>2, <1>5 DEF Upto
  <2> QED BY <1>3, <2>1 DEF OutOf, PageOf, NumOuts
<1> QED BY <1>1, <1>2, <1>3, <1>4, <1>5, <1>6, <1>7, <1>8, <1>9, SMTT(60) DEF OutBeat, Values


\* A cycle in which the page's last value leaves the RunDecoder.
LEMMA StepPipeLast ==
  ASSUME IInv, NEW take \in BOOLEAN, NEW give \in BOOLEAN, Pipe(take, give), give /\ Exhausted
  PROVE  IInv'
<1>1. /\ state = "PIPE" /\ CanGive /\ rd' = IdleRD
      /\ out' = Append(out, [page |-> rd.page, i |-> rd.given + 1, n |-> Given, last |-> MaskedLast])
      /\ num_values' = num_values - Given
      /\ UNCHANGED <<work, taken, page_last>>
  BY DEF Pipe, conf_vars
<1>2. \/ PageConsumed(take) /\ Reset
      \/ /\ ~PageConsumed(take) /\ run_decoder_conf_valid' = FALSE /\ state' = "DRAIN"
         /\ UNCHANGED <<offset, bit_width_offset, keep_bit_width, seen_last>>
  BY DEF Pipe, bit_width
<1>3. /\ FetchedInOrder' /\ fetched' \in [DOMAIN work -> Nat]
      /\ fetched'[taken] \in Nat /\ fetched'[taken] <= PageOf(taken).beats
      /\ PageConsumed(take) <=> fetched'[taken] = PageOf(taken).beats
  BY PipeFetch DEF PageConsumed
<1>4. /\ num_values' \in Nat /\ rd.given + 1 = NumOuts(taken)
      /\ [page |-> rd.page, i |-> rd.given + 1, n |-> Given, last |-> MaskedLast] \in OutBeat
      /\ [page |-> rd.page, i |-> rd.given + 1, n |-> Given, last |-> MaskedLast]
           = OutOf(work, taken, NumOuts(taken))
  BY <1>1, PipeGive
<1>5. /\ taken \in DOMAIN work /\ work[taken].keep /\ taken \in Nat /\ taken > 0
      /\ PageOf(taken).beats \in Nat /\ page_last = work[taken].last
  BY <1>1, PageInside DEF IInv, Configured, InPage
<1>6. out' \in Seq(OutBeat) /\ out' # <<>> /\ out'[Len(out')] = OutOf(work, taken, NumOuts(taken))
  <2>1. out \in Seq(OutBeat)
    BY DEF IInv, Typed
  <2> HIDE DEF OutBeat
  <2> QED BY <1>1, <1>4, <2>1
<1>7. Typed'
  <2>1. InputTyped'
    BY <1>1, <1>3 DEF IInv, Typed, InputTyped
  <2>2. RegsTyped'
    <3>1. CASE Reset
      BY <1>1, <1>4, <3>1, ResetTyped DEF IInv, Typed
    <3>2. CASE ~Reset
      BY <1>1, <1>2, <1>4, <3>2 DEF IInv, Typed, RegsTyped
    <3> QED BY <3>1, <3>2
  <2>3. rd' \in RunDecoderState
    BY <1>1, NoneTyped DEF IdleRD, RunDecoderState
  <2> QED BY <1>6, <2>1, <2>2, <2>3 DEF Typed
<1>8. Configured'
  BY <1>1, <1>2, <1>5 DEF Configured, InPage, Reset
<1>9. SeenLast'
  <2>1. CASE PageConsumed(take)
    BY <1>1, <1>2, <1>3, <1>5, <2>1, WorkOnly DEF SeenLast, Reset
  <2>2. CASE ~PageConsumed(take)
    <3>1. ~seen_last
      BY <2>2 DEF PageConsumed
    <3>2. fetched'[taken] < PageOf(taken).beats /\ state' = "DRAIN" /\ ~seen_last'
      BY <1>2, <1>3, <1>5, <2>2, <3>1
    <3> QED BY <1>1, <3>2, WorkOnly DEF SeenLast
  <2> QED BY <2>1, <2>2
<1>10. Located'
  BY <1>2 DEF Located, Reset
<1>11. Told'
  BY <1>1, <1>2 DEF Told, Reset
<1>12. OutAt'
  <2>1. OutTo(taken, NumOuts(taken))'
    BY <1>1, <1>6, WorkOnly DEF OutTo
  <2> QED BY <1>1, <1>2, <1>5, <2>1 DEF OutAt, OutEnd, Reset
<1> QED BY <1>3, <1>7, <1>8, <1>9, <1>10, <1>11, <1>12 DEF IInv

\* A cycle in which there is more of the page to come.
LEMMA StepPipeOn ==
  ASSUME IInv, NEW take \in BOOLEAN, NEW give \in BOOLEAN, Pipe(take, give), ~(give /\ Exhausted)
  PROVE  IInv'
<1>1. /\ state = "PIPE" /\ (take \/ give) /\ (take => CanTake) /\ (give => CanGive)
      /\ IF give
         THEN /\ out' = Append(out, [page |-> rd.page, i |-> rd.given + 1, n |-> Given, last |-> MaskedLast])
              /\ num_values' = num_values - Given
         ELSE UNCHANGED <<out, num_values>>
      /\ seen_last' = (seen_last \/ (take /\ IsLast))
      /\ run_decoder_conf_valid' = (run_decoder_conf_valid /\ ~take)
      /\ UNCHANGED <<work, taken, page_last, state, offset, bit_width_offset, keep_bit_width>>
  BY DEF Pipe, conf_vars, bit_width
<1>2. rd' = LET r == IF take THEN RunDecoderTakes ELSE rd
            IN  IF give THEN [r EXCEPT !.given = @ + 1] ELSE r
  BY DEF Pipe
<1>3. /\ FetchedInOrder' /\ fetched' \in [DOMAIN work -> Nat]
      /\ fetched'[taken] \in Nat /\ fetched'[taken] <= PageOf(taken).beats
      /\ seen_last \/ (take /\ IsLast) <=> fetched'[taken] = PageOf(taken).beats
      /\ take => /\ fetched'[taken] = fetched[taken] + 1
                 /\ Beat = [page |-> taken, b |-> fetched[taken] + 1]
                 /\ \A o \in Nat : Byte(o) = [page |-> taken, at |-> fetched[taken] * NumBytes + o]
      /\ ~take => UNCHANGED fetched
  BY PipeFetch
<1>4. /\ taken \in DOMAIN work /\ work[taken].keep /\ taken \in Nat /\ taken > 0
      /\ PageOf(taken).beats \in Nat /\ LevelsEnd \in Nat /\ fetched[taken] \in Nat
      /\ page_last = work[taken].last
  BY <1>1, PageInside DEF IInv, Configured, InPage
<1>5. give => /\ ~run_decoder_conf_valid /\ rd.given \in Nat /\ rd.given + 1 < NumOuts(taken)
              /\ num_values' \in Nat /\ num_values' = Values(taken) - Upto(taken, rd.given + 1)
              /\ [page |-> rd.page, i |-> rd.given + 1, n |-> Given, last |-> MaskedLast] \in OutBeat
              /\ [page |-> rd.page, i |-> rd.given + 1, n |-> Given, last |-> MaskedLast]
                   = OutOf(work, taken, rd.given + 1)
  <2> SUFFICES ASSUME give PROVE
              /\ ~run_decoder_conf_valid /\ rd.given \in Nat /\ rd.given + 1 < NumOuts(taken)
              /\ num_values' \in Nat /\ num_values' = Values(taken) - Upto(taken, rd.given + 1)
              /\ [page |-> rd.page, i |-> rd.given + 1, n |-> Given, last |-> MaskedLast] \in OutBeat
              /\ [page |-> rd.page, i |-> rd.given + 1, n |-> Given, last |-> MaskedLast]
                   = OutOf(work, taken, rd.given + 1)
    OBVIOUS
  <2>1. CanGive /\ ~Exhausted /\ num_values' = num_values - Given
    BY <1>1
  <2>2. NumOuts(taken) \in Nat
    BY <1>4, UptoGrows DEF IInv, Typed, InputTyped
  <2> QED BY <1>1, <2>1, <2>2, PipeGive
<1>6. /\ offset \in Nat /\ bit_width_offset \in Nat /\ offset < NumBytes
      /\ rd \in RunDecoderState /\ rd.given \in Nat /\ run_decoder_conf_valid \in BOOLEAN
      /\ num_values \in Nat
  BY <1>1 DEF IInv, Typed, RegsTyped, RunDecoderState, Located
<1>7. NumOuts(taken) \in Nat /\ NumOuts(taken) > 0
  BY <1>4, UptoGrows DEF IInv, Typed, InputTyped
\* What the RunDecoder holds then.
<1>8. /\ rd' \in RunDecoderState
      /\ ~run_decoder_conf_valid'
      /\ rd'.page = taken /\ rd'.got = fetched'[taken] /\ rd'.given < NumOuts(taken)
      /\ rd'.given = IF give THEN rd.given + 1 ELSE rd.given
      /\ rd'.bit_width = [page |-> taken, at |-> LevelsEnd]
      /\ rd'.first = [page |-> taken, at |-> LevelsEnd + 1]
  <2>1. CASE run_decoder_conf_valid
    <3>1. take /\ ~give /\ rd = IdleRD
      BY <1>1, <1>5, <2>1 DEF IInv, Told
    <3>2. rd' = [on |-> TRUE, page |-> taken, got |-> fetched'[taken], given |-> 0,
                 first |-> Byte(offset),
                 bit_width |-> IF keep_bit_width # None THEN keep_bit_width ELSE Byte(bit_width_offset)]
      <4>1. rd' = RunDecoderTakes
        BY <1>2, <3>1
      <4>2. Beat.page = taken /\ Beat.b = fetched'[taken]
        BY <1>3, <3>1
      <4> QED BY <2>1, <4>1, <4>2 DEF RunDecoderTakes
    <3>3. /\ Byte(offset) = [page |-> taken, at |-> fetched[taken] * NumBytes + offset]
          /\ Byte(bit_width_offset) = [page |-> taken, at |-> fetched[taken] * NumBytes + bit_width_offset]
      BY <1>3, <1>6, <3>1
    <3> DEFINE f == fetched[taken] * NumBytes
    <3>4. \/ /\ f = 0 /\ keep_bit_width = None
             /\ offset = LevelsEnd + 1 /\ bit_width_offset = LevelsEnd
          \/ /\ f = NumBytes /\ keep_bit_width = None
             /\ offset = LevelsEnd - NumBytes + 1 /\ bit_width_offset = LevelsEnd - NumBytes
          \/ /\ f = NumBytes /\ keep_bit_width = [page |-> taken, at |-> LevelsEnd]
             /\ offset = 0 /\ LevelsEnd = NumBytes - 1
          \/ /\ f = 2 * NumBytes /\ keep_bit_width = [page |-> taken, at |-> LevelsEnd]
             /\ offset = 0 /\ LevelsEnd = 2 * NumBytes - 1
      BY <1>1, <2>1, HybridSizes DEF IInv, Located
    <3>5. Byte(offset) = [page |-> taken, at |-> LevelsEnd + 1]
      <4>1. f + offset = LevelsEnd + 1
        <5> HIDE DEF f
        <5> QED BY <1>4, <3>4, HybridSizes
      <4> QED BY <3>3, <4>1
    <3>6. keep_bit_width # None => keep_bit_width = [page |-> taken, at |-> LevelsEnd]
      BY <3>4
    <3>7. keep_bit_width = None => Byte(bit_width_offset) = [page |-> taken, at |-> LevelsEnd]
      <4>1. keep_bit_width = None => f + bit_width_offset = LevelsEnd
        <5> HIDE DEF f
        <5>1. [page |-> taken, at |-> LevelsEnd] # None
          BY <1>4 DEF None
        <5> QED BY <1>4, <3>4, <5>1, HybridSizes
      <4> QED BY <3>3, <4>1
    <3>8. [page |-> taken, at |-> LevelsEnd] \in BytePos /\ [page |-> taken, at |-> LevelsEnd + 1] \in BytePos
      BY <1>4 DEF BytePos
    <3>9. rd' = [on |-> TRUE, page |-> taken, got |-> fetched'[taken], given |-> 0,
                 first |-> [page |-> taken, at |-> LevelsEnd + 1],
                 bit_width |-> [page |-> taken, at |-> LevelsEnd]]
      BY <3>2, <3>5, <3>6, <3>7
    <3>10. rd' \in RunDecoderState
      <4> HIDE DEF BytePos
      <4> QED BY <1>3, <1>4, <3>8, <3>9 DEF RunDecoderState
    <3> QED BY <1>1, <1>7, <3>1, <3>9, <3>10 DEF IdleRD
  <2>2. CASE ~run_decoder_conf_valid
    <3>1. /\ rd.page = taken /\ rd.got = fetched[taken] /\ rd.given < NumOuts(taken)
          /\ rd.bit_width = [page |-> taken, at |-> LevelsEnd]
          /\ rd.first = [page |-> taken, at |-> LevelsEnd + 1]
      BY <1>1, <2>2 DEF IInv, Told
    <3> DEFINE r == IF take THEN [rd EXCEPT !.got = fetched[taken] + 1] ELSE rd
    <3>2. rd' = IF give THEN [r EXCEPT !.given = rd.given + 1] ELSE r
      <4>1. take => RunDecoderTakes = [rd EXCEPT !.got = fetched[taken] + 1]
        BY <1>3, <2>2 DEF RunDecoderTakes
      <4> QED BY <1>2, <1>6, <4>1 DEF RunDecoderState
    <3>3. r \in RunDecoderState /\ r.page = rd.page /\ r.given = rd.given /\ r.bit_width = rd.bit_width
          /\ r.first = rd.first /\ r.got = fetched'[taken]
      BY <1>3, <1>4, <1>6, <3>1 DEF RunDecoderState
    <3> HIDE DEF r
    <3>4. rd' \in RunDecoderState
      BY <1>6, <3>2, <3>3 DEF RunDecoderState
    <3>5. /\ rd'.page = r.page /\ rd'.got = r.got /\ rd'.bit_width = r.bit_width /\ rd'.first = r.first
          /\ rd'.given = IF give THEN rd.given + 1 ELSE rd.given
      BY <3>2, <3>3 DEF RunDecoderState
    <3>6. rd'.given < NumOuts(taken)
      BY <1>5, <3>1, <3>5
    <3> QED BY <1>1, <2>2, <3>1, <3>3, <3>4, <3>5, <3>6
  <2> QED BY <2>1, <2>2
<1>9. Typed'
  <2>1. InputTyped'
    BY <1>1, <1>3 DEF IInv, Typed, InputTyped
  <2>2. num_values' \in Nat
    BY <1>1, <1>5, <1>6
  <2>3. seen_last' \in BOOLEAN /\ run_decoder_conf_valid' \in BOOLEAN
    BY <1>1
  <2>4. RegsTyped'
    BY <1>1, <2>2, <2>3 DEF IInv, Typed, RegsTyped
  <2>5. out' \in Seq(OutBeat)
    <3>1. out \in Seq(OutBeat)
      BY DEF IInv, Typed
    <3> HIDE DEF OutBeat
    <3> QED BY <1>1, <1>5, <3>1
  <2> QED BY <1>8, <2>1, <2>4, <2>5 DEF Typed
<1>10. Configured'
  BY <1>1 DEF IInv, Configured, InPage
<1>11. SeenLast'
  BY <1>1, <1>3, WorkOnly DEF SeenLast
<1>12. Located'
  BY <1>1, <1>6, <1>8 DEF Located
<1>13. Told'
  <2>1. num_values' = Values(taken) - Upto(taken, rd'.given)
    BY <1>1, <1>5, <1>8 DEF IInv, Told
  <2>2. LevelsEnd' = LevelsEnd /\ NumOuts(taken)' = NumOuts(taken) /\ Values(taken)' = Values(taken)
    BY <1>1, WorkOnly DEF LevelsEnd
  <2> QED BY <1>1, <1>8, <2>1, <2>2, WorkOnly DEF Told
<1>14. OutAt'
  <2>1. CASE give
    <3>1. out \in Seq(OutBeat) /\ out' = Append(out, OutOf(work, taken, rd.given + 1))
      BY <1>1, <1>5, <2>1 DEF IInv, Typed
    <3>2. out' # <<>> /\ out'[Len(out')] = OutOf(work, taken, rd.given + 1)
      <4> HIDE DEF OutBeat
      <4> QED BY <3>1
    <3>3. rd'.given = rd.given + 1 /\ rd'.given # 0
      BY <1>6, <1>8, <2>1
    <3> QED BY <1>1, <3>2, <3>3 DEF OutAt, OutTo, OutOf
  <2>2. CASE ~give
    <3>1. UNCHANGED out /\ rd'.given = rd.given
      BY <1>1, <1>8, <2>2
    <3> QED BY <1>1, <3>1, OutputStays DEF IInv, OutAt
  <2> QED BY <2>1, <2>2
<1> QED BY <1>3, <1>9, <1>10, <1>11, <1>12, <1>13, <1>14 DEF IInv


LEMMA InitInv == Init => IInv
<1> SUFFICES ASSUME Init PROVE IInv
  OBVIOUS
<1>1. /\ work \in Seq(Conf) /\ taken = 0 /\ fetched = [i \in DOMAIN work |-> 0] /\ state = "IDLE"
      /\ offset = 0 /\ bit_width_offset = 0 /\ keep_bit_width = None /\ run_decoder_conf_valid = FALSE
      /\ num_values = 0 /\ page_last = FALSE /\ seen_last = FALSE /\ rd = IdleRD /\ out = <<>>
  BY WorkloadsAssumption DEF Init
<1>2. \A i \in DOMAIN work : i \in Nat /\ i > 0
  BY <1>1, WorkConf
<1>3. Typed
  <2>1. InputTyped
    BY <1>1 DEF InputTyped
  <2>2. RegsTyped
    <3>1. offset \in 0..(2 * NumBytes - 1) /\ bit_width_offset \in 0..(NumBytes - 1) /\ num_values \in Nat
      BY <1>1, HybridSizes
    <3>2. keep_bit_width \in BytePos
      BY <1>1, NoneTyped
    <3>3. run_decoder_conf_valid \in BOOLEAN /\ page_last \in BOOLEAN /\ seen_last \in BOOLEAN
      BY <1>1
    <3> QED BY <1>1, <3>1, <3>2, <3>3 DEF RegsTyped
  <2>3. rd \in RunDecoderState
    BY <1>1, NoneTyped DEF IdleRD, RunDecoderState
  <2> QED BY <1>1, <2>1, <2>2, <2>3 DEF Typed
<1>4. Configured /\ FetchedInOrder /\ SeenLast /\ Located /\ Told /\ OutAt
  BY <1>1, <1>2 DEF Configured, InPage, FetchedInOrder, SeenLast, Located, Told, OutAt, OutEnd
<1> QED BY <1>3, <1>4 DEF IInv

LEMMA NextInv == IInv /\ [Next]_vars => IInv'
<1> SUFFICES ASSUME IInv, [Next]_vars PROVE IInv'
  OBVIOUS
<1>1. ASSUME NEW in_valid \in BOOLEAN, TakeConf(in_valid) PROVE IInv'
  BY <1>1, StepTakeConf
<1>2. CASE FirstDatabeat
  BY <1>2, StepFirstDatabeat
<1>3. CASE Consume
  BY <1>3, StepConsume
<1>4. ASSUME NEW take \in BOOLEAN, NEW give \in BOOLEAN, Pipe(take, give) PROVE IInv'
  BY <1>4, StepPipeLast, StepPipeOn
<1>5. CASE Drain
  BY <1>5, StepDrain
<1>6. CASE Dummy
  BY <1>6, StepDummy
<1>7. CASE RunDecoderDone
  BY <1>7, StepRunDecoderDone
<1>8. CASE UNCHANGED vars
  <2>1. UNCHANGED <<work, taken, fetched, state, offset, bit_width_offset, keep_bit_width,
                    run_decoder_conf_valid, num_values, page_last, seen_last, rd, out>>
    BY <1>8 DEF vars, conf_vars, bit_width, page_vars
  <2>2. Typed'
    BY <2>1 DEF IInv, Typed, InputTyped, RegsTyped
  <2>3. Configured' /\ FetchedInOrder' /\ SeenLast'
    BY <2>1 DEF IInv, Configured, InPage, FetchedInOrder, SeenLast, PageOf
  <2>4. Located'
    BY <2>1 DEF IInv, Located, LevelsEnd, PageOf
  <2>5. Told'
    BY <2>1 DEF IInv, Told, LevelsEnd, NumOuts, Values, Upto, PageOf
  <2>6. OutAt'
    BY <2>1 DEF IInv, OutAt, OutEnd, OutTo, OutOf, NumOuts, Upto, PageOf
  <2> QED BY <2>2, <2>3, <2>4, <2>5, <2>6 DEF IInv
<1> QED BY <1>1, <1>2, <1>3, <1>4, <1>5, <1>6, <1>7, <1>8 DEF Next, Step, Done

LEMMA AlwaysIInv == Spec => []IInv
  BY InitInv, NextInv, PTL DEF Spec

-----------------------------------------------------------------------------
(* What follows of it.                                                     *)

\* Registers keep their types and widths, and the RunDecoder is given an offset within the
\* databeat it gets, for all pages.
THEOREM TypeCorrect == Spec => []TypeOK
<1>1. IInv => TypeOK
  <2> SUFFICES ASSUME IInv PROVE TypeOK
    OBVIOUS
  <2>1. rd.on \in BOOLEAN
    BY DEF IInv, Typed, RunDecoderState
  <2> QED BY <2>1 DEF IInv, Typed, InputTyped, RegsTyped, Located, TypeOK
<1> QED BY <1>1, AlwaysIInv, PTL

\* The bit width and the first run are the bytes behind the levels, for all lengths of the
\* levels that an offset_t holds.
THEOREM AlwaysRunsFound == Spec => []RunsFound
<1>1. IInv => RunsFound
  <2> SUFFICES ASSUME IInv, rd.page # 0
               PROVE  /\ rd.bit_width = [page |-> taken, at |-> 4 + PageOf(taken).levels]
                      /\ rd.first = [page |-> taken, at |-> 5 + PageOf(taken).levels]
    BY DEF RunsFound
  <2>1. state = "PIPE" /\ ~run_decoder_conf_valid
    BY DEF IInv, Told, IdleRD
  <2>2. /\ rd.bit_width = [page |-> taken, at |-> LevelsEnd]
        /\ rd.first = [page |-> taken, at |-> LevelsEnd + 1]
    BY <2>1 DEF IInv, Told
  <2>3. PageOf(taken).levels \in Nat
    BY <2>1, PageInside, PageNumbers DEF InPage
  <2> QED BY <2>2, <2>3 DEF LevelsEnd
<1> QED BY <1>1, AlwaysIInv, PTL

\* Between two pages exactly the databeats of the pages before have been taken, however much
\* padding they have and whenever the last value comes.
THEOREM AlwaysPagesApart == Spec => []PagesApart
<1>1. IInv => PagesApart
  <2> SUFFICES ASSUME IInv, state = "IDLE", NEW i \in DOMAIN work, work[i].keep
               PROVE  fetched[i] = IF i <= taken THEN PageOf(i).beats ELSE 0
    BY DEF PagesApart
  <2>1. i \in Nat /\ taken \in Nat
    BY WorkConf DEF IInv, Typed, InputTyped
  <2> QED BY <2>1 DEF IInv, FetchedInOrder, SeenLast
<1> QED BY <1>1, AlwaysIInv, PTL

\* What RunStream has to come next.
LEMMA NextAfterPage ==
  ASSUME work \in Seq(Conf), NEW i \in DOMAIN work, OutEnd(i - 1)
  PROVE  OutOf(work, i, 1) \in NextBeats(work, out)
<1>1. i \in 1..Len(work) /\ i - 1 \in Nat /\ (i - 1) + 1 = i
  BY WorkConf
<1>2. CASE i = 1
  BY <1>1, <1>2 DEF OutEnd, NextBeats
<1>3. CASE i # 1
  <2> DEFINE j == i - 1
             beat == out[Len(out)]
  <2>1. j \in DOMAIN work /\ j # 0 /\ j + 1 = i
    BY <1>1, <1>3
  <2>2. out # <<>> /\ beat = OutOf(work, j, IF work[j].keep THEN NumOuts(j) ELSE 1)
    BY <2>1 DEF OutEnd, OutTo
  <2> HIDE DEF j
  <2>3. beat.page = j /\ (~work[j].keep \/ beat.i = Len(work[j].page.outs))
    BY <2>2 DEF OutOf, NumOuts, PageOf
  <2> QED BY <2>1, <2>2, <2>3 DEF NextBeats
<1> QED BY <1>2, <1>3

LEMMA NextInPage ==
  ASSUME work \in Seq(Conf), NEW i \in DOMAIN work, work[i].keep,
         NEW k \in Nat, k < NumOuts(i), OutTo(i, k)
  PROVE  OutOf(work, i, k + 1) \in NextBeats(work, out)
<1> DEFINE beat == out[Len(out)]
<1>1. out # <<>> /\ beat = OutOf(work, i, k)
  BY DEF OutTo
<1>2. NumOuts(i) \in Nat
  BY UptoGrows
<1>3. beat.page = i /\ beat.i = k /\ ~(beat.i = Len(work[i].page.outs))
  BY <1>1, <1>2 DEF OutOf, NumOuts, PageOf
<1> QED BY <1>1, <1>3 DEF NextBeats

LEMMA StepOut == IInv /\ [Next]_vars => [Stream!Emit]_Stream!streamVars
<1> SUFFICES ASSUME IInv, [Next]_vars
             PROVE  Stream!Emit \/ UNCHANGED <<work, out>>
  BY DEF Stream!streamVars
<1>1. work \in Seq(Conf)
  BY DEF IInv, Typed, InputTyped
<1>2. ASSUME NEW in_valid \in BOOLEAN, TakeConf(in_valid) PROVE UNCHANGED <<work, out>>
  BY <1>2 DEF TakeConf
<1>3. CASE FirstDatabeat \/ Consume \/ Drain \/ RunDecoderDone
  BY <1>3 DEF FirstDatabeat, Consume, Drain, RunDecoderDone, conf_vars
<1>4. ASSUME NEW take \in BOOLEAN, NEW give \in BOOLEAN, Pipe(take, give)
      PROVE  Stream!Emit \/ UNCHANGED <<work, out>>
  <2>1. state = "PIPE" /\ UNCHANGED work /\ (give => CanGive)
        /\ IF give THEN out' = Append(out, [page |-> rd.page, i |-> rd.given + 1, n |-> Given,
                                           last |-> MaskedLast])
           ELSE UNCHANGED out
    BY <1>4 DEF Pipe, conf_vars
  <2>2. CASE give
    <3>1. /\ rd.given \in Nat /\ rd.given < NumOuts(taken)
          /\ out' = Append(out, OutOf(work, taken, rd.given + 1))
      <4>1. taken \in DOMAIN work /\ work[taken].keep
        BY <2>1, PageInside DEF InPage
      <4>2. NumOuts(taken) \in Nat
        BY <1>1, <4>1, UptoGrows
      <4> QED BY <2>1, <2>2, <4>2, PipeGive
    <3>2. taken \in DOMAIN work /\ work[taken].keep
      BY <2>1, PageInside DEF InPage
    <3>3. OutOf(work, taken, rd.given + 1) \in NextBeats(work, out)
      <4>1. CASE rd.given = 0
        <5>1. OutEnd(taken - 1)
          BY <2>1, <4>1 DEF IInv, OutAt
        <5> QED BY <1>1, <3>2, <4>1, <5>1, NextAfterPage
      <4>2. CASE rd.given # 0
        <5>1. OutTo(taken, rd.given)
          BY <2>1, <4>2 DEF IInv, OutAt
        <5> QED BY <1>1, <3>1, <3>2, <5>1, NextInPage
      <4> QED BY <4>1, <4>2
    <3> QED BY <2>1, <3>1, <3>3 DEF Stream!Emit
  <2>3. CASE ~give
    BY <2>1, <2>3
  <2> QED BY <2>2, <2>3
<1>5. CASE Dummy
  <2>1. /\ state = "DUMMY" /\ UNCHANGED work
        /\ out' = Append(out, [page |-> taken, i |-> 1, n |-> 0, last |-> TRUE])
    BY <1>5 DEF Dummy, conf_vars
  <2>2. taken \in DOMAIN work /\ ~work[taken].keep /\ OutEnd(taken - 1)
    BY <2>1 DEF IInv, Configured, OutAt
  <2>3. OutOf(work, taken, 1) = [page |-> taken, i |-> 1, n |-> 0, last |-> TRUE]
    BY <2>2 DEF OutOf
  <2> QED BY <1>1, <2>1, <2>2, <2>3, NextAfterPage DEF Stream!Emit
<1>6. CASE UNCHANGED vars
  BY <1>6 DEF vars, conf_vars
<1> QED BY <1>2, <1>3, <1>4, <1>5, <1>6 DEF Next, Step, Done

\* The HybridPageDecoder keeps the promise of the RunDecoder: what comes out are the databeats
\* of the pages, each once and in order, with `last` at the end of a group and nowhere else.
THEOREM ImplementsRunStream == Spec => StreamSpec
<1>1. Init => Stream!Init
  BY DEF Init, Stream!Init
<1> QED BY <1>1, StepOut, AlwaysIInv, PTL DEF Spec, StreamSpec, Stream!Spec
=============================================================================
