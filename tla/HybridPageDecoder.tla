------------------------- MODULE HybridPageDecoder -------------------------
(***************************************************************************)
(* The HybridPageDecoder: it skips the levels a hybrid page starts with,   *)
(* finds the byte with the bit width, configures the RunDecoder and pipes  *)
(* the page to it, counts the values that come out, and gets rid of what   *)
(* is left of the page when the count is reached.                          *)
(*                                                                         *)
(* The RunDecoder is here by what RunStream promises of it: the databeats  *)
(* of a page's values in order, each once it has got the databeats they    *)
(* come from; it takes as many databeats beyond these as it likes, up to   *)
(* the page's last, and none after it is finished.  A databeat of the      *)
(* input is [page, b]: the b-th of the page.  A byte of a page is its      *)
(* position in the page.                                                   *)
(***************************************************************************)
EXTENDS Integers, Sequences

CONSTANTS
  NumBytes,    \* NUM_BYTES: bytes of a databeat
  Workloads    \* sequences of configurations, each with its page

ASSUME HybridSizes == NumBytes \in Nat /\ NumBytes > 4

\* A page has so many bytes of levels and so many databeats; what comes out is a sequence
\* of databeats, the k-th with the values up to `upto`, for which the RunDecoder needs the
\* first `need` databeats.  Every databeat out has values.
Page ==
  {p \in [levels : Nat, beats : Nat \ {0}, outs : Seq([upto : Nat \ {0}, need : Nat])] :
     /\ p.outs # <<>>
     /\ \A k \in DOMAIN p.outs : p.outs[k].need <= p.beats
     /\ \A k, l \in DOMAIN p.outs : k < l => p.outs[k].upto < p.outs[l].upto}

\* The first run begins in the page, and where it begins is an offset_t.
RunInPage(p) == 5 + p.levels < p.beats * NumBytes /\ 4 + p.levels < 2 * NumBytes

Conf == [keep : {TRUE}, last : BOOLEAN, page : {p \in Page : RunInPage(p)}]
          \cup [keep : {FALSE}, last : BOOLEAN]
ASSUME WorkloadsAssumption == Workloads \subseteq Seq(Conf)

VARIABLES
  work, taken,        \* the workload, and how many configurations have been taken
  fetched,            \* databeats of each page that have been taken
  state, offset, bit_width_offset,
  keep_bit_width,     \* None, or the byte it holds
  run_decoder_conf_valid,
  num_values, page_last, seen_last,
  rd,                 \* the RunDecoder: what it was told, what it got and gave
  out

conf_vars == <<work, taken>>
bit_width == <<bit_width_offset, keep_bit_width>>
page_vars == <<num_values, page_last>>
vars == <<conf_vars, fetched, state, offset, bit_width, run_decoder_conf_valid, page_vars,
          seen_last, rd, out>>

-----------------------------------------------------------------------------
None == [page |-> 0, at |-> 0]

\* offset_t holds one bit more than an index into a databeat.
Offset(n) == n % (2 * NumBytes)

PageOf(i) == work[i].page
Upto(i, k) == IF k = 0 THEN 0 ELSE PageOf(i).outs[k].upto
NumOuts(i) == Len(PageOf(i).outs)
Values(i)  == Upto(i, NumOuts(i))

\* The input is the databeats of the pages, one page after another.
Waiting == {i \in DOMAIN work : work[i].keep /\ fetched[i] < PageOf(i).beats}
Valid   == Waiting # {}
Beat    == LET page == CHOOSE i \in Waiting : \A j \in Waiting : i <= j
           IN  [page |-> page, b |-> fetched[page] + 1]
Fetch   == fetched' = [fetched EXCEPT ![Beat.page] = @ + 1]

IsLast == Beat.b = PageOf(Beat.page).beats
Byte(o) == [page |-> Beat.page, at |-> (Beat.b - 1) * NumBytes + o]

\* A RunDecoder that is idle: nothing of a page is still to come from it.
IdleRD == [on |-> FALSE, page |-> 0, got |-> 0, given |-> 0,
           first |-> None, bit_width |-> None]

Init ==
  /\ work \in Workloads /\ taken = 0 /\ fetched = [i \in DOMAIN work |-> 0]
  /\ state = "IDLE" /\ offset = 0 /\ bit_width_offset = 0 /\ keep_bit_width = None
  /\ run_decoder_conf_valid = FALSE /\ num_values = 0 /\ page_last = FALSE
  /\ seen_last = FALSE /\ rd = IdleRD /\ out = <<>>

\* Slip: the next page gets the bit width kept for this one.
ResetKeepingBitWidth ==
  /\ state' = "IDLE" /\ offset' = 0 /\ bit_width_offset' = 0
  /\ run_decoder_conf_valid' = FALSE /\ seen_last' = FALSE
  /\ UNCHANGED keep_bit_width

Reset ==
  /\ state' = "IDLE" /\ offset' = 0 /\ bit_width_offset' = 0 /\ keep_bit_width' = None
  /\ run_decoder_conf_valid' = FALSE /\ seen_last' = FALSE

Configure(offst, bit_width_offst) ==
  /\ offset' = offst /\ bit_width_offset' = bit_width_offst
  /\ run_decoder_conf_valid' = TRUE /\ state' = "PIPE"

\* Four bytes of length, then the levels: the sum is an offset_t.
ActualOffset == IF Beat.b = 1 THEN Offset(4 + PageOf(Beat.page).levels) ELSE 0

\* Slip: a bit width in the last byte of the databeat is read with it.
ProcessEarly ==
  IF ActualOffset >= NumBytes
  THEN /\ offset' = ActualOffset /\ state' = "CONSUME"
       /\ UNCHANGED <<bit_width_offset, run_decoder_conf_valid>>
  ELSE Configure(ActualOffset + 1, ActualOffset)

ProcessFirstDatabeat ==
  IF ActualOffset >= NumBytes - 1
  THEN /\ offset' = ActualOffset /\ state' = "CONSUME"
       /\ UNCHANGED <<bit_width_offset, run_decoder_conf_valid>>
  ELSE Configure(ActualOffset + 1, ActualOffset)

-----------------------------------------------------------------------------
\* ST_IDLE.  A configuration without a page resets the dictionary behind this module.
TakeConf(in_valid) ==
  /\ state = "IDLE" /\ taken < Len(work)
  /\ taken' = taken + 1 /\ page_last' = work[taken'].last
  /\ IF ~work[taken'].keep
     THEN /\ state' = "DUMMY" /\ ~in_valid
          /\ UNCHANGED <<num_values, offset, bit_width_offset, run_decoder_conf_valid>>
     ELSE /\ num_values' = Values(taken')
          /\ IF in_valid THEN Valid /\ ProcessFirstDatabeat
             ELSE /\ state' = "WAIT"
                  /\ UNCHANGED <<offset, bit_width_offset, run_decoder_conf_valid>>
  /\ UNCHANGED <<work, fetched, keep_bit_width, seen_last, rd, out>>

FirstDatabeat ==
  /\ state = "WAIT" /\ Valid
  /\ ProcessFirstDatabeat
  /\ UNCHANGED <<conf_vars, fetched, keep_bit_width, page_vars, seen_last, rd, out>>

\* ST_CONSUME: a databeat with levels only, or with the bit width as its last byte.
Consume ==
  /\ state = "CONSUME" /\ Valid
  /\ Fetch /\ seen_last' = (seen_last \/ IsLast)
  /\ LET next == Offset(offset - NumBytes)
     IN  IF offset = NumBytes - 1
         THEN keep_bit_width' = Byte(NumBytes - 1) /\ Configure(0, 0)
         ELSE /\ UNCHANGED keep_bit_width
              /\ IF next < NumBytes - 1 THEN Configure(next + 1, next)
                 ELSE offset' = next /\ UNCHANGED <<state, bit_width_offset, run_decoder_conf_valid>>
  /\ UNCHANGED <<conf_vars, page_vars, rd, out>>

-----------------------------------------------------------------------------
(* ST_PIPE: in a cycle a databeat goes in, one comes out, or both.         *)

\* The RunDecoder has its configuration with the first databeat, and then takes what it
\* needs; it is told of the page's last databeat.
CanTake ==
  /\ Valid
  /\ run_decoder_conf_valid \/ (rd.on /\ rd.got < PageOf(rd.page).beats)
CanGive == rd.page # 0 /\ rd.given < NumOuts(rd.page)
           /\ PageOf(rd.page).outs[rd.given + 1].need <= rd.got

Given == Upto(rd.page, rd.given + 1) - Upto(rd.page, rd.given)
\* Slip: exhausted is looked for in the register, not in next_num_values.
ExhaustedLate == num_values = 0
Exhausted == num_values = Given

\* Slip: every page ends with `last`, not only the last page of the group.
MaskedLastOfPage == Exhausted
MaskedLast == Exhausted /\ page_last

RunDecoderTakes ==
  IF run_decoder_conf_valid
  THEN [on |-> TRUE, page |-> Beat.page, got |-> Beat.b, given |-> 0,
        first |-> Byte(offset),
        bit_width |-> IF keep_bit_width # None THEN keep_bit_width ELSE Byte(bit_width_offset)]
  ELSE [rd EXCEPT !.got = Beat.b]

\* Slip: a last databeat that is there but not taken counts as seen.
PageConsumedPresent(take) == seen_last \/ (Valid /\ IsLast)

\* The page's last databeat has been taken, or is with this cycle.
PageConsumed(take) == seen_last \/ (take /\ IsLast)

Pipe(take, give) ==
  /\ state = "PIPE" /\ (take \/ give) /\ (take => CanTake) /\ (give => CanGive)
  /\ IF take THEN Fetch ELSE UNCHANGED fetched
  /\ IF give
     THEN /\ out' = Append(out, [page |-> rd.page, i |-> rd.given + 1, n |-> Given,
                                 last |-> MaskedLast])
          /\ num_values' = num_values - Given
     ELSE UNCHANGED <<out, num_values>>
  /\ IF give /\ Exhausted
     THEN /\ rd' = IdleRD
          /\ IF PageConsumed(take) THEN Reset
             ELSE /\ run_decoder_conf_valid' = FALSE /\ state' = "DRAIN"
                  /\ UNCHANGED <<offset, bit_width, seen_last>>
     ELSE /\ LET r == IF take THEN RunDecoderTakes ELSE rd
             IN  rd' = IF give THEN [r EXCEPT !.given = @ + 1] ELSE r
          /\ seen_last' = (seen_last \/ (take /\ IsLast))
          /\ run_decoder_conf_valid' = (run_decoder_conf_valid /\ ~take)
          /\ UNCHANGED <<state, offset, bit_width>>
  /\ UNCHANGED <<conf_vars, page_last>>

\* The RunDecoder has all it needs of the page and takes no more.
RunDecoderDone ==
  /\ rd.on /\ PageOf(rd.page).outs[NumOuts(rd.page)].need <= rd.got
  /\ rd' = [rd EXCEPT !.on = FALSE]
  /\ UNCHANGED <<conf_vars, fetched, state, offset, bit_width, run_decoder_conf_valid, page_vars,
                 seen_last, out>>

\* ST_DRAIN: padding behind the last value.
Drain ==
  /\ state = "DRAIN" /\ Valid
  /\ Fetch
  /\ IF IsLast THEN Reset
     ELSE UNCHANGED <<state, offset, bit_width, run_decoder_conf_valid, seen_last>>
  /\ UNCHANGED <<conf_vars, page_vars, rd, out>>

Dummy ==
  /\ state = "DUMMY"
  /\ out' = Append(out, [page |-> taken, i |-> 1, n |-> 0, last |-> TRUE])
  /\ Reset
  /\ UNCHANGED <<conf_vars, fetched, page_vars, rd>>

-----------------------------------------------------------------------------
Done == state = "IDLE" /\ taken = Len(work) /\ UNCHANGED vars

Step ==
  \/ \E in_valid \in BOOLEAN : TakeConf(in_valid)
  \/ FirstDatabeat \/ Consume
  \/ \E take, give \in BOOLEAN : Pipe(take, give)
  \/ Drain \/ Dummy \/ RunDecoderDone
Next == Step \/ Done
Spec == Init /\ [][Next]_vars

\* Every stage is clocked, configurations and input arrive and output is taken.
FairSpec == Spec /\ WF_vars(Step)

-----------------------------------------------------------------------------
(* Properties.                                                             *)

TypeOK ==
  /\ state \in {"IDLE", "WAIT", "CONSUME", "PIPE", "DRAIN", "DUMMY"}
  /\ taken \in 0..Len(work) /\ num_values \in Nat
  /\ offset \in 0..(2 * NumBytes - 1) /\ bit_width_offset \in 0..(NumBytes - 1)
  /\ {run_decoder_conf_valid, page_last, seen_last, rd.on} \subseteq BOOLEAN
  /\ state = "PIPE" => offset < NumBytes   \* the first run is in the databeat piped first

\* The RunDecoder is told where the page has them: the bit width is the byte behind the
\* levels, and the first run starts with the byte after that, in the databeat that is
\* piped first (the header of the module: "computes the offset n+4").
RunsFound ==
  rd.page # 0 =>
    /\ rd.bit_width = [page |-> taken, at |-> 4 + PageOf(taken).levels]
    /\ rd.first = [page |-> taken, at |-> 5 + PageOf(taken).levels]

\* Between pages exactly the databeats of the pages before are gone: padding is swallowed,
\* the databeat with `last` is not left behind, and nothing of the next page is taken.
PagesApart ==
  state = "IDLE" =>
    \A i \in DOMAIN work : work[i].keep => fetched[i] = IF i <= taken THEN PageOf(i).beats ELSE 0

\* What comes out of the pages, as RunStream has it: databeat k of page i, and what comes
\* behind the databeats there are.  A configuration without a page ends the group.
OutOf(w, i, k) ==
  IF w[i].keep
  THEN LET outs == w[i].page.outs
       IN  [page |-> i, i |-> k, n |-> outs[k].upto - (IF k = 1 THEN 0 ELSE outs[k - 1].upto),
            last |-> k = Len(outs) /\ w[i].last]
  ELSE [page |-> i, i |-> 1, n |-> 0, last |-> TRUE]

NextBeats(w, o) ==
  LET beat == o[Len(o)]
      page_over == o # <<>> /\ (~w[beat.page].keep \/ beat.i = Len(w[beat.page].page.outs))
      page == IF o = <<>> THEN 1 ELSE IF page_over THEN beat.page + 1 ELSE beat.page
      i == IF o = <<>> \/ page_over THEN 1 ELSE beat.i + 1
  IN  {OutOf(w, p, i) : p \in {page} \cap DOMAIN w}

Stream == INSTANCE RunStream WITH pages <- work

\* What comes out is what the RunDecoder makes of the pages, in order, with `last` only at
\* the end of a group: hybrid_page_decoder.sv keeps the promise of the RunDecoder.
StreamSpec == Stream!Spec
=============================================================================
