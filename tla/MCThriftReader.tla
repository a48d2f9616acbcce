--------------------------- MODULE MCThriftReader ---------------------------
EXTENDS ThriftReader

\* Versions of the format a file may have been written by: this one, a later one that has
\* added fields (a struct of a class unknown here, lists, a field with the id of another
\* struct's) and changed the type of two, and an earlier one.
Newer ==
  [c \in DOMAIN Structs \cup {"Later"} |->
     CASE c = "PageHeader" -> Structs[c] \o <<Opt(9, Struct("Later"), "later"),
                                              Opt(10, List(List(Struct("Later"))), "more")>>
       [] c = "Statistics" -> [Structs[c] EXCEPT ![3] = Opt(3, List(I64), "null_counts"),
                                                 ![5] = Opt(5, Struct("Later"), "max_value")]
       [] c = "DictionaryPageHeader" -> <<Opt(0, I32, "first")>> \o Structs[c]
       [] c = "DataPageHeader" -> [Structs[c] EXCEPT ![4] = Opt(4, BYTES, "level_encodings")]
       [] c = "Later" -> <<Req(1, I32, "a"), Opt(2, Struct("DecimalType"), "b"), Opt(3, List(BYTES), "c")>>
       [] OTHER -> Structs[c]]
Older ==
  [Structs EXCEPT !.Statistics = SubSeq(@, 1, 4), !.DataPageHeader = Tail(@),
                  !.LogicalType = SelectSeq(@, LAMBDA f : f.id \in {5, 8, 10})]

-----------------------------------------------------------------------------
(* Objects of a class: with the required fields only or with all of them,  *)
(* and with one field more or less.  Scalars are told apart by their type. *)

Some(t) == CASE t = "BOOL" -> <<TRUE>> [] t = "STRING" -> <<"s">> [] OTHER -> <<t, 7>>

RECURSIVE Sample(_, _, _), SampleObject(_, _, _)
Sample(table, type, all) ==
  CASE type.t = "STRUCT" -> SampleObject(table, type.of[1], all)
    [] type.t = "LIST" ->
         IF all THEN <<Sample(table, type.of[1], TRUE), Sample(table, type.of[1], FALSE)>>
         ELSE <<>>
    [] OTHER -> Some(type.t)

WithFields(table, class, fields, all) ==
  [class |-> class,
   attrs |-> [name \in {f.name : f \in fields} |->
                Sample(table, (CHOOSE f \in fields : f.name = name).type, all)]]
Required(table, class) == {f \in Range(table[class]) : f.required}
SampleObject(table, class, all) ==
  WithFields(table, class, IF all THEN Range(table[class]) ELSE Required(table, class), all)

ObjectOf(table, class, kind, name) ==
  LET every == Range(table[class])
      least == Required(table, class)
      f     == {g \in every : g.name = name}
  IN  CASE kind = "least"   -> WithFields(table, class, least, FALSE)
        [] kind = "every"   -> WithFields(table, class, every, TRUE)
        [] kind = "with"    -> WithFields(table, class, least \cup f, FALSE)
        [] kind = "without" -> WithFields(table, class, every \ f, FALSE)

\* A page header whose nested header lacks a required field.
HalfHeader ==
  LET full == WithFields(Structs, "PageHeader", Range(PageHeader), FALSE)
  IN  [full EXCEPT !.attrs.data_page_header = New("DataPageHeader")]

-----------------------------------------------------------------------------
(* What an object written under a table is for a reader of Structs.        *)

RECURSIVE Project(_, _), ProjectValue(_, _, _)
ProjectValue(table, type, v) ==
  CASE type.t = "STRUCT" -> Project(table, v)
    [] type.t = "LIST"   -> [i \in DOMAIN v |-> ProjectValue(table, type.of[1], v[i])]
    [] OTHER             -> v
Project(table, obj) ==
  LET both == {p \in Range(table[obj.class]) \X Range(Structs[obj.class]) :
                 p[1].id = p[2].id /\ p[1].type.t = p[2].type.t /\ Has(obj, p[1].name)}
  IN  [class |-> obj.class,
       attrs |-> [name \in {p[2].name : p \in both} |->
                    LET p == CHOOSE q \in both : q[2].name = name
                    IN  ProjectValue(table, p[2].type, obj.attrs[p[1].name])]
                 @@ New(obj.class).attrs]

RECURSIVE Complete(_, _), CompleteValue(_, _, _)
CompleteValue(table, type, v) ==
  CASE type.t = "STRUCT" -> Complete(table, v)
    [] type.t = "LIST"   -> \A i \in DOMAIN v : CompleteValue(table, type.of[1], v[i])
    [] OTHER             -> TRUE
Complete(table, obj) ==
  \A f \in Range(table[obj.class]) :
    IF Has(obj, f.name) THEN CompleteValue(table, f.type, obj.attrs[f.name]) ELSE ~f.required

-----------------------------------------------------------------------------
(* Messages: whole ones with the payload behind them, what is left of one  *)
(* whose writing raised, and one that is cut off.                          *)

Payload == <<Value("I32", "payload"), FieldStop>>
Message(table, obj) ==
  LET w == Write(table, obj)
  IN  [class |-> obj.class, table |-> table, obj |-> obj, events |-> w.out,
       tail |-> IF w.raised THEN <<>> ELSE Payload, whole |-> ~w.raised]
Cut(m, n) == [m EXCEPT !.events = SubSeq(@, 1, n), !.tail = <<>>, !.whole = FALSE]

FullHeader == Message(Structs, WithFields(Structs, "PageHeader", Range(PageHeader), TRUE))

TableOf == [this |-> Structs, newer |-> Newer, older |-> Older]
Names(version, class) == {f.name : f \in Range(TableOf[version][class])}

\* A message is named by version, class, the kind of its object, and a field.
Keys(version, classes) ==
  UNION {[version : {version}, class : {c}, kind : {"least", "every"}, field : {""}]
         \cup [version : {version}, class : {c}, kind : {"with", "without"}, field : Names(version, c)] :
           c \in classes}
CutKeys == [version : {"this"}, class : {"PageHeader"}, kind : {"cut"},
            field : 0..(Len(FullHeader.events) - 1)]

MessageOf(k) ==
  CASE k.kind = "cut"  -> Cut(FullHeader, k.field)
    [] k.kind = "half" -> Message(Structs, HalfHeader)
    [] OTHER -> Message(TableOf[k.version], ObjectOf(TableOf[k.version], k.class, k.kind, k.field))

MCMessages ==
  [k \in Keys("this", DOMAIN Structs)
         \cup Keys("newer", {"PageHeader", "DictionaryPageHeader", "DataPageHeader", "ColumnMetaData"})
         \cup Keys("older", {"PageHeader", "LogicalType", "ColumnMetaData"})
         \cup {[version |-> "this", class |-> "PageHeader", kind |-> "half", field |-> ""]}
         \cup CutKeys
     |-> MessageOf(k)]

-----------------------------------------------------------------------------
\* What is read is what was written, as far as the reader's version has it: every field
\* of the same id and type, and the defaults of __init__ for the others.  A field that is
\* not known, or has another type, takes nothing of what follows with it.
ReadsWhatWasWritten ==
  status = "done" => result = <<Project(Messages[work].table, Messages[work].obj)>>

\* No object comes of half a message, neither of one that is cut off nor of what write()
\* leaves in the transport when it finds a required field unset, at whatever depth; and
\* read() raises over no other.
HalfAMessageIsNoObject ==
  /\ status = "done" => /\ Messages[work].whole
                        /\ Complete(Messages[work].table, Messages[work].obj)
  /\ status = "raised" => ~Messages[work].whole
=============================================================================
