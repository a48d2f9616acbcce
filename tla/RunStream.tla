----------------------------- MODULE RunStream -----------------------------
(***************************************************************************)
(* What a RunDecoder promises: for every page the databeats of its runs,   *)
(* in the order of the page, each unpacked from where the page has it.     *)
(***************************************************************************)
EXTENDS Sequences

CONSTANTS
  Workloads,         \* sequences of pages
  NextBeats(_, _)    \* the databeat of a sequence of pages that comes behind those
                     \* already out: a set of one, or of none at the end

VARIABLES pages, out

streamVars == <<pages, out>>

Init == pages \in Workloads /\ out = <<>>

Emit ==
  /\ \E beat \in NextBeats(pages, out) : out' = Append(out, beat)
  /\ UNCHANGED pages

Spec == Init /\ [][Emit]_streamVars
=============================================================================
