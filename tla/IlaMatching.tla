----------------------------- MODULE IlaMatching -----------------------------
(***************************************************************************)
(* matching.py of the ILA generator: matchers over the tokens of a         *)
(* declaration.  A matcher is a record; matching one gives how many tokens *)
(* it took (0: no match), what its callbacks were given on the way, which  *)
(* stays also when the match fails later, and whether an exception ended   *)
(* it.  A token is [kind, text, num].                                      *)
(*                                                                         *)
(* Division is left out: Python makes it a float, which is no width.       *)
(***************************************************************************)
EXTENDS Integers, Sequences, SequencesExt

Kind(k)      == [op |-> "kind", kind |-> k]
Named(s)     == [op |-> "named", text |-> s]
Symbol(tag)  == [op |-> "symbol", tag |-> tag]
Decimal(tag) == [op |-> "decimal", tag |-> tag]
Math         == [op |-> "math"]
Group(ms)    == [op |-> "group", elements |-> ms]
Optional(ms) == [op |-> "optional", elements |-> ms]
AnyOf(ms)    == [op |-> "any", elements |-> ms]
\* Recursive in the code, and therefore made when they are met (LazyMatchGroup).
Expression   == [op |-> "expression"]
Array        == [op |-> "array"]

-----------------------------------------------------------------------------
\* resolve_symbol knows two symbols; for another it raises KeyError.
Symbols == [FILTER_OPS_PER_STREAM |-> 3, N_STRM_AXI |-> 6]

Given(tag, v) == << [tag |-> tag, v |-> v] >>
TagsOf(caps, tag) ==
  LET some == SelectSeq(caps, LAMBDA c : c.tag = tag) IN [i \in DOMAIN some |-> some[i].v]

Matched(n, caps) == [n |-> n, caps |-> caps, raised |-> FALSE]
Raised           == [n |-> 0, caps |-> <<>>, raised |-> TRUE]

\* A matcher of one token.
MatchToken(m, t) ==
  CASE m.op = "kind"    -> Matched(IF t.kind = m.kind THEN 1 ELSE 0, <<>>)
    [] m.op = "named"   -> Matched(IF t.kind = "SymbolIdentifier" /\ t.text = m.text THEN 1 ELSE 0, <<>>)
    [] m.op = "decimal" -> IF t.kind = "TK_DecNumber" THEN Matched(1, Given(m.tag, t.num)) ELSE Matched(0, <<>>)
    [] m.op = "math"    -> IF t.kind \in {"+", "-", "*"} THEN Matched(1, Given("math", t.kind)) ELSE Matched(0, <<>>)
    [] m.op = "symbol"  -> IF t.kind # "SymbolIdentifier" THEN Matched(0, <<>>)
                           ELSE IF m.tag # "op" THEN Matched(1, Given(m.tag, t.text))
                           ELSE IF t.text \in DOMAIN Symbols THEN Matched(1, Given("op", Symbols[t.text]))
                           ELSE Raised

RECURSIVE Match(_, _), MatchAll(_, _, _, _), MatchAny(_, _, _)

\* MatchGroup: one element after the other.  That no token is left ends the match before it
\* is known whether the element is optional.
MatchAll(ms, ts, index, caps) ==
  IF ms = <<>> THEN Matched(index, caps)
  ELSE IF Len(ts) <= index THEN Matched(0, caps)
  ELSE LET r == Match(Head(ms), SubSeq(ts, index + 1, Len(ts)))
       IN  IF r.raised THEN r
           ELSE IF r.n = 0 /\ Head(ms).op # "optional" THEN Matched(0, caps \o r.caps)
           ELSE MatchAll(Tail(ms), ts, index + r.n, caps \o r.caps)

\* AnyOf: the first element that matches.
MatchAny(ms, ts, caps) ==
  IF ms = <<>> \/ ts = <<>> THEN Matched(0, caps)
  ELSE LET r == Match(Head(ms), ts)
       IN  IF r.raised THEN r
           ELSE IF r.n > 0 THEN Matched(r.n, caps \o r.caps)
           ELSE MatchAny(Tail(ms), ts, caps \o r.caps)

-----------------------------------------------------------------------------
(* Expression: an operand, or two with an operator between them.           *)

\* Both operands that are expressions themselves are made by
\* generate_left_recursive_expression.
Operand ==
  AnyOf(<<Decimal("op"), Symbol("op"),
          Group(<<Optional(<<Kind("(")>>), Expression, Optional(<<Kind(")")>>)>>)>>)
ExpressionElements == <<Operand, Optional(<<Math, Operand>>)>>

Calculate(op, a, b) == CASE op = "+" -> a + b [] op = "-" -> a - b [] op = "*" -> a * b

\* Slip: the operands the other way round.
ValueOfSwapped(caps) ==
  LET ops == TagsOf(caps, "op")
      nested == TagsOf(caps, "value")
      maths  == TagsOf(caps, "math")
      left   == IF nested # <<>> THEN Last(nested) ELSE ops[1]
      right  == IF nested # <<>> THEN (IF ops # <<>> THEN ops[1] ELSE 0)
                ELSE IF Len(ops) > 1 THEN ops[2] ELSE 0
  IN  IF maths = <<>> THEN left ELSE Calculate(Last(maths), right, left)

\* A nested expression is the left operand wherever it stood.
ValueOf(caps) ==
  LET ops == TagsOf(caps, "op")
      nested == TagsOf(caps, "value")
      maths  == TagsOf(caps, "math")
      left   == IF nested # <<>> THEN Last(nested) ELSE ops[1]
      right  == IF nested # <<>> THEN (IF ops # <<>> THEN ops[1] ELSE 0)
                ELSE IF Len(ops) > 1 THEN ops[2] ELSE 0
  IN  IF maths = <<>> THEN left ELSE Calculate(Last(maths), left, right)

\* A token no operand begins with is looked for in an expression in an expression, and so
\* on, until Python gives up (RecursionError).
MatchExpression(ts) ==
  IF ts = <<>> THEN Matched(0, <<>>)
  ELSE IF Head(ts).kind \notin {"TK_DecNumber", "SymbolIdentifier", "("} THEN Raised
  ELSE LET r == MatchAll(ExpressionElements, ts, 0, <<>>)
       IN  IF r.raised \/ r.n = 0 THEN [r EXCEPT !.caps = <<>>]
           ELSE Matched(r.n, Given("value", ValueOf(r.caps)))

-----------------------------------------------------------------------------
(* Array: its bounds are calculated whether or not all of it matched.      *)

ArrayElements ==
  <<Kind("["), Expression, Optional(<<Kind(":"), Expression>>), Kind("]"), Optional(<<Array>>)>>

Dimension(values) ==
  LET left  == values[1]
      lower == IF Len(values) = 1 THEN 0 ELSE IF left < values[2] THEN left ELSE values[2]
      upper == IF Len(values) = 1 THEN left - 1 ELSE IF left < values[2] THEN values[2] ELSE left
  IN  [lower |-> lower, upper |-> upper, size |-> upper - lower + 1]

MatchArray(ts) ==
  LET r      == MatchAll(ArrayElements, ts, 0, <<>>)
      values == TagsOf(r.caps, "value")
      nested == FlattenSeq(TagsOf(r.caps, "dims"))
      dims   == IF values = <<>> \/ Dimension(values).size <= 0 THEN <<>>
                ELSE <<Dimension(values)>> \o nested
  IN  IF r.raised THEN r ELSE Matched(r.n, Given("dims", dims))

Match(m, ts) ==
  CASE m.op \in {"group", "optional"} -> MatchAll(m.elements, ts, 0, <<>>)
    [] m.op = "any"        -> MatchAny(m.elements, ts, <<>>)
    [] m.op = "expression" -> MatchExpression(ts)
    [] m.op = "array"      -> MatchArray(ts)
    [] OTHER               -> IF ts = <<>> THEN Matched(0, <<>>) ELSE MatchToken(m, Head(ts))

-----------------------------------------------------------------------------
(* The declarations that are understood: try_parse.                        *)

Parameter(name, tag) == Group(<<name, Kind("("), Decimal(tag), Kind(")")>>)
AxiElements ==
  << Named("AXI4SR"),
     AnyOf(<< Group(<<Kind("."), AnyOf(<<Named("s"), Named("m")>>)>>),
              Group(<< Kind("#"), Kind("("), Kind("."),
                       AnyOf(<<Parameter(Named("AXI4S_DATA_BITS"), "width"), Parameter(Symbol("any"), "any")>>),
                       Kind(")") >>) >>),
     Group(<<Symbol("name"), Optional(<<Array>>)>>) >>
LogicElements ==
  << Optional(<<AnyOf(<<Kind("input"), Kind("output")>>)>>), Kind("logic"),
     Optional(<<Array>>), Symbol("name") >>

LastOr(s, default) == IF s = <<>> THEN default ELSE Last(s)
Configuration(kind, caps) ==
  [kind |-> kind, name |-> Last(TagsOf(caps, "name")),
   dims |-> LastOr(TagsOf(caps, "dims"), <<>>), width |-> LastOr(TagsOf(caps, "width"), 512)]

\* parse_ila_configuration: one configuration, or none because of an exception (ValueError).
Parse(ts) ==
  LET axi   == MatchAll(AxiElements, ts, 0, <<>>)
      logic == MatchAll(LogicElements, ts, 0, <<>>)
  IN  IF axi.raised THEN <<>>
      ELSE IF axi.n > 0 THEN <<Configuration("axi", axi.caps)>>
      ELSE IF ~logic.raised /\ logic.n > 0 THEN <<Configuration("logic", logic.caps)>>
      ELSE <<>>

-----------------------------------------------------------------------------
(* generate_probe_definitions.                                             *)

\* The indices of every element of an array with these dimensions, each counted from 0.
Paths(dims) ==
  FoldLeft(LAMBDA paths, d : FlattenSeq([e \in 1..d.size |-> [k \in DOMAIN paths |-> Append(paths[k], e - 1)]]),
           << <<>> >>, dims)

SignalMap(width) == <<[field |-> "tvalid", width |-> 1], [field |-> "tready", width |-> 1],
                      [field |-> "tlast", width |-> 1], [field |-> "tdata", width |-> width]>>

Probe(c, path, field, width) == [name |-> c.name, path |-> path, field |-> field, width |-> width]
AxiProbes(c) ==
  LET paths == Paths(c.dims)
      signals == SignalMap(c.width)
  IN  FlattenSeq([k \in DOMAIN paths |->
        [i \in DOMAIN signals |-> Probe(c, paths[k], signals[i].field, signals[i].width)]])

\* The last dimension is probed as a whole.
LogicProbes(c) ==
  IF c.dims = <<>> THEN << Probe(c, <<>>, "", 1) >>
  ELSE LET paths == Paths(Front(c.dims))
       IN  [k \in DOMAIN paths |-> Probe(c, paths[k], "", Last(c.dims).size)]

ProbesOf(c) == IF c.kind = "axi" THEN AxiProbes(c) ELSE LogicProbes(c)
=============================================================================
