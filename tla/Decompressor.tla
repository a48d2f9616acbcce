---------------------------- MODULE Decompressor ----------------------------
(***************************************************************************)
(* The Decompressor: a demultiplexer sends a page around or through the    *)
(* vhsnunzip wrapper and a multiplexer fetches it from there.  The wrapper *)
(* feeds vhsnunzip a databeat in parts, resets it after every page and     *)
(* puts `last` on the beat that carries the page's last bytes, which       *)
(* vhsnunzip may follow with an empty one.                                 *)
(*                                                                         *)
(* vhsnunzip and the libstf stages are not in the repository.  vhsnunzip   *)
(* is what the wrapper makes of it: it gives the beats of a page once it   *)
(* is fed, the last one after it was fed the last part, and then wants a   *)
(* reset.  The duplicator hands out a configuration when demultiplexer and *)
(* multiplexer are both done with the one before: were it earlier, the     *)
(* reset after a page would meet the next one in the wrapper, where        *)
(* decompressor_input_paused stops nothing.                                *)
(***************************************************************************)
EXTENDS Integers, Sequences

CONSTANTS
  Parts,      \* parts a databeat is fed to vhsnunzip in (NUM_BYTES / DECOMP_DATA_BYTES)
  SkidDepth   \* databeats an NDataSkidBuffer holds

VARIABLES
  pages,                \* of each page [compression, beats, parts, outs, ghost]
  input,                \* databeats not taken yet: [page, k, last], the k-th of a page
  conf,                 \* configurations taken: the page the selectors are for
  demuxing, muxing,     \* a selector is in use
  bypass, unzipped,     \* skid buffers
  in_data,              \* what is fed: [beat, index], or Empty (in_done)
  unzip,                \* vhsnunzip: [fed, ended, given]
  inner,                \* out of the internal wrapper: a beat, or Empty
  tmp,                  \* register of VHSNUnzipWrapperFixLast: a beat, or Empty
  input_paused, reset_counter,
  decompressed          \* out

wrapper_vars == <<in_data, unzip, inner, tmp, input_paused, reset_counter>>
mux_vars     == <<conf, demuxing, muxing>>
decompressor_vars == <<pages, input, mux_vars, bypass, unzipped, wrapper_vars, decompressed>>

-----------------------------------------------------------------------------
Empty == [page |-> 0]   \* no databeat
Idle  == [fed |-> FALSE, ended |-> FALSE, given |-> 0]

Page == pages[conf]
InputOf(ps) ==
  LET f[i \in 0..Len(ps)] ==
        IF i = 0 THEN <<>>
        ELSE f[i - 1] \o [k \in 1..ps[i].beats |-> [page |-> i, k |-> k, last |-> k = ps[i].beats]]
  IN  f[Len(ps)]

Init ==
  /\ input = InputOf(pages) /\ conf = 0 /\ demuxing = FALSE /\ muxing = FALSE
  /\ bypass = <<>> /\ unzipped = <<>> /\ in_data = Empty /\ unzip = Idle /\ inner = Empty
  /\ tmp = Empty /\ input_paused = FALSE /\ reset_counter = 0 /\ decompressed = <<>>

\* The duplicated configuration.
TakeConf ==
  /\ ~demuxing /\ ~muxing /\ conf < Len(pages)
  /\ conf' = conf + 1 /\ demuxing' = TRUE /\ muxing' = TRUE
  /\ UNCHANGED <<pages, input, bypass, unzipped, wrapper_vars, decompressed>>

Demultiplex(compression) ==
  /\ demuxing /\ Page.compression = compression /\ input # <<>>
  /\ input' = Tail(input) /\ demuxing' = ~Head(input).last

Around ==
  /\ Demultiplex("RAW") /\ Len(bypass) < SkidDepth
  /\ bypass' = Append(bypass, Head(input))
  /\ UNCHANGED <<pages, conf, muxing, unzipped, wrapper_vars, decompressed>>

-----------------------------------------------------------------------------
(* VHSNUnzipWrapperInternal.                                               *)

\* Slip: in.ready does not look at the reset.
InReadyAlways == in_data = Empty
InReady == reset_counter = 0 /\ in_data = Empty

Load ==
  /\ Demultiplex("SNAPPY") /\ InReady
  /\ in_data' = [beat |-> Head(input), index |-> 0]
  /\ input_paused' = (input_paused \/ Head(input).last)
  /\ UNCHANGED <<pages, conf, muxing, bypass, unzipped, unzip, inner, tmp, reset_counter, decompressed>>

CoLast(beat, index) == beat.last /\ index = pages[beat.page].parts - 1

Feed ==
  /\ reset_counter = 0 /\ in_data # Empty /\ ~unzip.ended
  /\ LET co_last == CoLast(in_data.beat, in_data.index)
     IN  /\ in_data' = IF co_last \/ in_data.index = Parts - 1 THEN Empty
                       ELSE [in_data EXCEPT !.index = @ + 1]
         /\ unzip' = [unzip EXCEPT !.fed = TRUE, !.ended = co_last]
  /\ UNCHANGED <<pages, input, mux_vars, bypass, unzipped, inner, tmp, input_paused,
                 reset_counter, decompressed>>

\* vhsnunzip, and the databeat its output is put together in.  A page with `ghost` ends
\* with a beat that keeps nothing.
Unzip ==
  /\ reset_counter = 0 /\ inner = Empty /\ unzip.fed
  /\ LET k     == unzip.given + 1
         ghost == k = Page.outs + 1
         last  == k = Page.outs + (IF Page.ghost THEN 1 ELSE 0)
     IN  /\ k <= Page.outs \/ (Page.ghost /\ ghost)
         /\ last => unzip.ended
         /\ unzip' = [unzip EXCEPT !.given = k]
         /\ inner' = [page |-> conf, k |-> k, last |-> last, ghost |-> ghost]
  /\ UNCHANGED <<pages, input, mux_vars, bypass, unzipped, in_data, tmp, input_paused,
                 reset_counter, decompressed>>

-----------------------------------------------------------------------------
(* VHSNUnzipWrapperFixLast: a databeat waits in tmp until the one after it *)
(* tells whether it was the last.                                          *)

IsGhost == inner # Empty /\ inner.last /\ inner.ghost

\* out_inner is taken: its last beat starts the reset.
TakeInner ==
  /\ tmp' = IF IsGhost THEN Empty ELSE inner
  /\ inner' = Empty
  /\ reset_counter' = IF input_paused /\ inner.last THEN 2 ELSE reset_counter

FillTmp ==
  /\ tmp = Empty /\ inner # Empty
  /\ TakeInner
  /\ UNCHANGED <<pages, input, mux_vars, bypass, unzipped, in_data, unzip, input_paused, decompressed>>

\* Slip: the last of vhsnunzip is passed on where it is.
OutLastUnfixed == tmp.last
OutLast == tmp.last \/ IsGhost

PutTmp ==
  /\ tmp # Empty /\ (tmp.last \/ inner # Empty) /\ Len(unzipped) < SkidDepth
  /\ unzipped' = Append(unzipped, [page |-> tmp.page, k |-> tmp.k, last |-> OutLast])
  /\ IF inner # Empty THEN TakeInner
     ELSE tmp' = Empty /\ UNCHANGED <<inner, reset_counter>>
  /\ UNCHANGED <<pages, input, mux_vars, bypass, in_data, unzip, input_paused, decompressed>>

\* Two cycles of reset for the internal wrapper and vhsnunzip.
Reset ==
  /\ reset_counter > 0
  /\ reset_counter' = reset_counter - 1
  /\ input_paused' = (input_paused /\ reset_counter # 1)
  /\ in_data' = Empty /\ unzip' = Idle /\ inner' = Empty
  /\ UNCHANGED <<pages, input, mux_vars, bypass, unzipped, tmp, decompressed>>

-----------------------------------------------------------------------------
Multiplex ==
  /\ muxing /\ Len(decompressed) < SkidDepth
  /\ \/ /\ Page.compression = "RAW" /\ bypass # <<>>
        /\ decompressed' = Append(decompressed, Head(bypass)) /\ muxing' = ~Head(bypass).last
        /\ bypass' = Tail(bypass) /\ UNCHANGED unzipped
     \/ /\ Page.compression = "SNAPPY" /\ unzipped # <<>>
        /\ decompressed' = Append(decompressed, Head(unzipped)) /\ muxing' = ~Head(unzipped).last
        /\ unzipped' = Tail(unzipped) /\ UNCHANGED bypass
  /\ UNCHANGED <<pages, input, conf, demuxing, wrapper_vars>>

Next ==
  \/ TakeConf \/ Around \/ Load \/ Feed \/ Unzip \/ FillTmp \/ PutTmp \/ Reset \/ Multiplex

-----------------------------------------------------------------------------
\* The reset after a page finds nothing of the next page in the wrapper, and it comes
\* before vhsnunzip is fed anything else.
ResetBetweenPages ==
  /\ reset_counter > 0 => in_data = Empty
  /\ unzip.fed => \A beat \in {b \in {inner, tmp} : b # Empty} : beat.page = conf
=============================================================================
