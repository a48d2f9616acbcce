-------------------------- MODULE ColumnChunkStream --------------------------
(***************************************************************************)
(* What the column-chunk decoder promises its host, independent of how it  *)
(* is built: for the submitted chunks, in order, one transfer each, with   *)
(* the chunk's type, the values of its data pages in page order, every     *)
(* dictionary-encoded value looked up in its own chunk's dictionary, and   *)
(* the transfer closed by the chunk's last value and by nothing else.      *)
(***************************************************************************)
EXTENDS Integers, Sequences

CONSTANTS Workloads, MaxBeat

VARIABLES work, out

streamVars == <<work, out>>

-----------------------------------------------------------------------------
\* The transfer that is not closed yet, the chunk whose values come next, and what has
\* come of it.
Open     == out # <<>> /\ ~out[Len(out)].closed
Current  == IF Open THEN Len(out) ELSE Len(out) + 1
Received == IF Open THEN out[Len(out)].vals ELSE <<>>

\* The i-th value of page p of chunk k, and the dictionary it was looked up in.
ValueOf(k, p, i) == <<k, p, i, IF work[k].pages[p].kind = "HYBRID" THEN k ELSE 0>>

Init == work \in Workloads /\ out = <<>>

\* The next n values, all of one page.
Emit(n) ==
  /\ Current \in DOMAIN work
  /\ \E p \in DOMAIN work[Current].pages :
       LET ch   == work[Current]
           page == ch.pages[p]
           from == Len(Received) - (page.upto - page.n)
           vals == [i \in 1..n |-> ValueOf(Current, p, from + i)]
           transfer == [typ |-> ch.typ, vals |-> Received \o vals,
                        closed |-> Len(Received) + n = ch.num_values]
       IN  /\ page.kind # "DICT"
           /\ 0 <= from /\ from + n <= page.n
           /\ out' = IF Open THEN [out EXCEPT ![Len(out)] = transfer] ELSE Append(out, transfer)
  /\ UNCHANGED work

Next == \E n \in 1..MaxBeat : Emit(n)

Spec == Init /\ [][Next]_streamVars
=============================================================================
