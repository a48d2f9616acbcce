---------------------------- MODULE IlaGenerator ----------------------------
(***************************************************************************)
(* The ILA generator: it reads the sources, makes probes for the signals   *)
(* that are marked in a comment, and writes them to a file beside each     *)
(* source and to one script for all.  It is run again whenever the sources *)
(* change; files of earlier runs are there then.                           *)
(***************************************************************************)
EXTENDS IlaMatching, FiniteSets

CONSTANTS
  Sources,     \* what the folder may hold: file |-> its text
  TokensOf(_), \* the tokens of a text, as verible-verilog-syntax gives them
  Orders,      \* orders os.listdir may list its files in
  MaxRuns      \* of the generator

VARIABLES
  sources,
  pc,          \* "edit", "parse", "probes", "tcl", then "done" or "raised"
  runs,
  todo,        \* files not parsed yet
  configs,     \* files to write, with what was found in them
  probe_files, \* file |-> its probes
  tcl          \* the script: a sequence of [file, widths]

vars == <<sources, pc, runs, todo, configs, probe_files, tcl>>

-----------------------------------------------------------------------------
IsDefinition(t) == t.kind = "TK_EOL_COMMENT" /\ t.text = "@ADD_ILA"
IsWhiteSpace(t) == t.kind \in {"TK_EOL_COMMENT", "TK_NEWLINE", "TK_SPACE"}
IsLineEnd(t)    == t.kind \in {",", ";"}

\* The tokens behind a mark up to the end of the line; all of them if it has no end.
Declaration(ts, index) ==
  LET stripped == SelectSeq(SubSeq(ts, index + 1, Len(ts)), LAMBDA t : ~IsWhiteSpace(t))
      ends     == {i \in DOMAIN stripped : IsLineEnd(stripped[i])}
      end      == CHOOSE i \in ends : \A j \in ends : i <= j
  IN  IF ends = {} THEN stripped ELSE SubSeq(stripped, 1, end - 1)

Definitions(ts) ==
  LET marks == SelectSeq([i \in DOMAIN ts |-> i], LAMBDA i : IsDefinition(ts[i]))
  IN  [k \in DOMAIN marks |-> Parse(Declaration(ts, marks[k]))]

Init ==
  /\ sources \in Sources /\ pc = "edit" /\ runs = 0 /\ todo = <<>> /\ configs = <<>>
  /\ probe_files = <<>> /\ tcl = <<>>

Stopped == pc \in {"edit", "done", "raised"}

Edit ==
  /\ Stopped /\ runs < MaxRuns
  /\ sources' \in Sources /\ pc' = "edit"
  /\ UNCHANGED <<runs, todo, configs, probe_files, tcl>>

Run ==
  /\ Stopped /\ runs < MaxRuns
  /\ pc' = "parse" /\ runs' = runs + 1 /\ configs' = <<>>
  /\ \E order \in Orders : todo' = SelectSeq(order, LAMBDA f : f \in DOMAIN sources)
  /\ UNCHANGED <<sources, probe_files, tcl>>

\* Only files with a mark go on.  One declaration that is not understood ends the program.
ParseFile ==
  /\ pc = "parse" /\ todo # <<>>
  /\ todo' = Tail(todo)
  /\ LET found == Definitions(TokensOf(sources[Head(todo)]))
     IN  IF \E k \in DOMAIN found : found[k] = <<>> THEN pc' = "raised" /\ UNCHANGED configs
         ELSE /\ UNCHANGED pc
              /\ configs' = IF found = <<>> THEN configs
                            ELSE Append(configs, [file |-> Head(todo), found |-> FlattenSeq(found)])
  /\ UNCHANGED <<sources, runs, probe_files, tcl>>

\* Slip: the script of the run before is added to.
ResetTclKeeping == UNCHANGED tcl
ResetTcl == tcl' = <<>>

Write ==
  /\ pc = "parse" /\ todo = <<>>
  /\ ResetTcl /\ pc' = "probes"
  /\ UNCHANGED <<sources, runs, todo, configs, probe_files>>

ProbesIn(found) == FlattenSeq([k \in DOMAIN found |-> ProbesOf(found[k])])

WriteProbeFile ==
  /\ pc = "probes" /\ configs # <<>>
  /\ LET c == Head(configs)
     IN  probe_files' = [f \in DOMAIN probe_files \cup {c.file} |->
                           IF f = c.file THEN ProbesIn(c.found) ELSE probe_files[f]]
  /\ pc' = "tcl"
  /\ UNCHANGED <<sources, runs, todo, configs, tcl>>

AppendTcl ==
  /\ pc = "tcl"
  /\ LET probes == ProbesIn(Head(configs).found)
     IN  tcl' = Append(tcl, [file |-> Head(configs).file, widths |-> [i \in DOMAIN probes |-> probes[i].width]])
  /\ configs' = Tail(configs) /\ pc' = "probes"
  /\ UNCHANGED <<sources, runs, todo, probe_files>>

Finish ==
  /\ pc = "probes" /\ configs = <<>> /\ pc' = "done"
  /\ UNCHANGED <<sources, runs, todo, configs, probe_files, tcl>>

Next == Edit \/ Run \/ ParseFile \/ Write \/ WriteProbeFile \/ AppendTcl \/ Finish
Spec == Init /\ [][Next]_vars

-----------------------------------------------------------------------------
(* Properties.                                                             *)

\* Between runs, also after one that raised, the script names every ILA once and with as
\* many probes, as wide, as the probe file that instantiates it connects.
ScriptFitsProbes ==
  Stopped =>
    /\ \A i, j \in DOMAIN tcl : tcl[i].file = tcl[j].file => i = j
    /\ \A i \in DOMAIN tcl :
         /\ tcl[i].file \in DOMAIN probe_files
         /\ tcl[i].widths = [k \in DOMAIN probe_files[tcl[i].file] |-> probe_files[tcl[i].file][k].width]
=============================================================================
