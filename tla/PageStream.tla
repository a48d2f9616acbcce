----------------------------- MODULE PageStream -----------------------------
(***************************************************************************)
(* What the page header parser promises: for every page of the submitted   *)
(* chunks, in order, one configuration and one payload transfer.  The      *)
(* configuration names the page's kind, its number of values and whether   *)
(* it completes the chunk; the transfer holds the page's payload, its last *)
(* byte closes it.  Neither of a page's two outputs begins before both of  *)
(* the page before it are complete.                                        *)
(***************************************************************************)
EXTENDS Naturals, Sequences, SequencesExt

CONSTANTS Workloads, NumBytes

VARIABLES work, confs, transfers

streamVars == <<work, confs, transfers>>

\* What is expected of each page, over all chunks.
PageOf(ch, i)  == [kind |-> ch.pages[i].kind, n |-> ch.pages[i].n, last |-> i = Len(ch.pages)]
ExpectedConfs  == FlattenSeq([k \in DOMAIN work |->
                    [i \in DOMAIN work[k].pages |-> PageOf(work[k], i)]])
Payloads       == FlattenSeq([k \in DOMAIN work |->
                    [i \in DOMAIN work[k].pages |-> work[k].pages[i].payload]])

\* Pages whose transfer is complete, and what the next one has of its payload.
Closed == IF transfers = <<>> \/ Last(transfers).closed
          THEN Len(transfers) ELSE Len(transfers) - 1
Begun  == IF Closed < Len(transfers) THEN Last(transfers).bytes ELSE <<>>

Init == work \in Workloads /\ confs = <<>> /\ transfers = <<>>

Announce ==
  /\ Len(confs) < Len(Payloads) /\ Len(confs) <= Closed
  /\ confs' = Append(confs, ExpectedConfs[Len(confs) + 1])
  /\ UNCHANGED <<work, transfers>>

Forward(n) ==
  /\ Closed < Len(Payloads) /\ Closed <= Len(confs)
  /\ LET page  == Payloads[Closed + 1]
         bytes == SubSeq(page, 1, Len(Begun) + n)
     IN  /\ Len(Begun) + n <= Len(page)
         /\ transfers' = Append(SubSeq(transfers, 1, Closed),
                                [bytes |-> bytes, closed |-> bytes = page])
  /\ UNCHANGED <<work, confs>>

Next == Announce \/ \E n \in 1..NumBytes : Forward(n)

Spec == Init /\ [][Next]_streamVars
=============================================================================
