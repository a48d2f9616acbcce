--------------------------- MODULE MCIlaGenerator ---------------------------
EXTENDS IlaGenerator

Key(k)   == [kind |-> k, text |-> "", num |-> 0]
Sym(s)   == [kind |-> "SymbolIdentifier", text |-> s, num |-> 0]
Dec(n)   == [kind |-> "TK_DecNumber", text |-> "", num |-> n]
Mark     == [kind |-> "TK_EOL_COMMENT", text |-> "@ADD_ILA", num |-> 0]
Newline  == Key("TK_NEWLINE")

\* A dimension: its tokens, and the indices it means in SystemVerilog.
Dim(ts, lower, upper) == [ts |-> <<Key("[")>> \o ts \o <<Key("]")>>, lower |-> lower, upper |-> upper]

Eight  == Dim(<<Dec(7), Key(":"), Dec(0)>>, 0, 7)
Rising == Dim(<<Dec(0), Key(":"), Dec(2)>>, 0, 2)
Sized  == Dim(<<Sym("N_STRM_AXI")>>, 0, 5)
Minus  == Dim(<<Sym("FILTER_OPS_PER_STREAM"), Key("-"), Dec(1), Key(":"), Dec(0)>>, 0, 2)
Nested == Dim(<<Key("("), Sym("FILTER_OPS_PER_STREAM"), Key("*"), Dec(2), Key(")"), Key("-"), Dec(1),
                Key(":"), Dec(4)>>, 4, 5)
FromZero == {Eight, Rising, Sized}

\* A marked declaration.  Dimensions are counted from 0 but for the last of a logic, and the
\* right operand of a difference is no expression in parentheses.
Logic(dir, dims, end) ==
  [kind |-> "logic", width |-> 0, dims |-> dims,
   ts |-> dir \o <<Key("logic")>> \o FlattenSeq([i \in DOMAIN dims |-> dims[i].ts]) \o <<Sym("x")>> \o end]
Axi(param, width, dims) ==
  [kind |-> "axi", width |-> width, dims |-> dims,
   ts |-> <<Sym("AXI4SR")>> \o param \o <<Sym("x")>> \o FlattenSeq([i \in DOMAIN dims |-> dims[i].ts]) \o <<Key(",")>>]

Width(w) == <<Key("#"), Key("("), Key("."), Sym("AXI4S_DATA_BITS"), Key("("), Dec(w), Key(")"), Key(")")>>
Other    == <<Key("#"), Key("("), Key("."), Sym("ID_BITS"), Key("("), Dec(6), Key(")"), Key(")")>>
Slave    == <<Key("."), Sym("s")>>

Logics ==
  {Logic(dir, dims, <<Key(";")>>) : dir \in {<<>>, <<Key("input")>>},
     dims \in {<<>>} \cup {<<d>> : d \in FromZero \cup {Minus, Nested}}
              \cup {<<d, e>> : d \in {Rising, Sized}, e \in {Eight, Nested}} \cup {<<Rising, Rising, Sized>>}}
  \cup {Logic(<<Key("output")>>, <<Eight>>, <<Newline>>)}
Axis ==
  {Axi(Slave, 512, dims) : dims \in {<<d>> : d \in FromZero} \cup {<<Rising, Sized>>}}
  \cup {Axi(Width(64), 64, <<Rising>>), Axi(Other, 512, <<Rising>>)}

\* What the generator does not take: an interface without an array, the example of
\* axi_ila_configuration.py:41; a symbol it does not know; an empty dimension.
Refused ==
  {Axi(Slave, 512, <<>>), Logic(<<>>, <<Dim(<<Sym("N_REGIONS")>>, 0, 0)>>, <<Key(";")>>),
   Logic(<<>>, <<Dim(<<>>, 0, 0)>>, <<Key(";")>>)}

\* A text is a sequence of declarations, each marked or not.
TextTokens(text) ==
  FlattenSeq([i \in DOMAIN text |->
    (IF text[i].marked THEN <<Mark, Newline>> ELSE <<>>) \o text[i].decl.ts \o <<Newline>>])
Marked(d)   == [marked |-> TRUE, decl |-> d]
Unmarked(d) == [marked |-> FALSE, decl |-> d]

AnyAxi   == Axi(Slave, 512, <<Rising>>)
AnyLogic == Logic(<<>>, <<Eight>>, <<Key(";")>>)
Texts == {<<Marked(d)>> : d \in Logics \cup Axis \cup Refused}
Folders ==
  {[a |-> t] : t \in Texts}
  \cup {[a |-> <<Marked(AnyLogic), Unmarked(AnyLogic), Marked(AnyAxi)>>, b |-> t] :
          t \in {<<Marked(AnyAxi)>>, <<Unmarked(AnyLogic)>>, <<Marked(CHOOSE d \in Refused : d.kind = "axi")>>}}
ListOrders == {<<"a", "b">>, <<"b", "a">>}

-----------------------------------------------------------------------------
(* Properties.                                                             *)

RECURSIVE Indices(_)
Indices(dims) ==
  IF dims = <<>> THEN {<<>>}
  ELSE {<<i>> \o rest : i \in Head(dims).lower..Head(dims).upper, rest \in Indices(Tail(dims))}
Bits(d) == d.upper - d.lower + 1

\* The probes a declaration calls for: a logic bit by bit in its last dimension, of an
\* interface every signal of every element.
Wanted(d) ==
  IF d.kind = "axi"
  THEN {[name |-> "x", path |-> p, field |-> f, width |-> IF f = "tdata" THEN d.width ELSE 1] :
          p \in Indices(d.dims), f \in {"tvalid", "tready", "tlast", "tdata"}}
  ELSE IF d.dims = <<>> THEN {[name |-> "x", path |-> <<>>, field |-> "", width |-> 1]}
  ELSE {[name |-> "x", path |-> p, field |-> "", width |-> Bits(Last(d.dims))] : p \in Indices(Front(d.dims))}

\* Each probe as often as a mark calls for it.
ProbesFit(probes, text) ==
  LET marks == {i \in DOMAIN text : text[i].marked}
  IN  \A p \in ToSet(probes) \cup UNION {Wanted(text[i].decl) : i \in marks} :
        Cardinality({k \in DOMAIN probes : probes[k] = p})
          = Cardinality({i \in marks : p \in Wanted(text[i].decl)})

\* After a run every bit of every marked signal is probed, once, at the width it is declared
\* with, and the script has an ILA for every file with a mark and for no other.
EveryBitProbed ==
  pc = "done" =>
    LET marked == {f \in DOMAIN sources : \E i \in DOMAIN sources[f] : sources[f][i].marked}
    IN  /\ {tcl[i].file : i \in DOMAIN tcl} = marked
        /\ \A f \in marked : ProbesFit(probe_files[f], sources[f])
=============================================================================
