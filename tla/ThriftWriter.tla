---------------------------- MODULE ThriftWriter ----------------------------
(***************************************************************************)
(* write() of the classes in ttypes.py.  The generator gives every class   *)
(* the same method over its own fields, so it is here once, over the table *)
(* of fields.                                                              *)
(*                                                                         *)
(* A message is what write() asks of the protocol, call by call: the       *)
(* header of a field, a scalar, the header of a list, the end of a struct. *)
(* How the compact protocol puts a call in bytes is in CompactProtocol.    *)
(* The table is a parameter, since a file may come from a version of the   *)
(* format other than the one of ttypes.py, which is Structs.               *)
(***************************************************************************)
EXTENDS ParquetTypes, SequencesExt

FieldBegin(f)    == [e |-> "field", t |-> f.type.t, id |-> f.id]
ListBegin(t, n)  == [e |-> "list", t |-> t, n |-> n]
Value(t, v)      == [e |-> "value", t |-> t, v |-> v]
FieldStop        == [e |-> "stop"]

Out(events) == [raised |-> FALSE, out |-> events]
Then(a, b)  == IF a.raised THEN a ELSE [b EXCEPT !.out = a.out \o @]

\* Slip: validate() is not called.
ValidAlways(table, obj) == TRUE

\* validate(): of this object's own fields.
Valid(table, obj) == \A f \in Range(table[obj.class]) : f.required => Has(obj, f.name)

RECURSIVE Write(_, _), WriteValue(_, _, _)

WriteValue(table, type, v) ==
  CASE type.t = "STRUCT" -> Write(table, v)
    [] type.t = "LIST"   ->
         FoldLeft(LAMBDA acc, x : Then(acc, WriteValue(table, type.of[1], x)),
                  Out(<<ListBegin(type.of[1].t, Len(v))>>), v)
    [] OTHER             -> Out(<<Value(type.t, v)>>)

\* A missing field of a nested object raises when part of the message is out already.
Write(table, obj) ==
  IF ~Valid(table, obj) THEN [raised |-> TRUE, out |-> <<>>]
  ELSE LET fields == SelectSeq(table[obj.class], LAMBDA f : Has(obj, f.name))
           body   == FoldLeft(LAMBDA acc, f :
                                Then(acc, Then(Out(<<FieldBegin(f)>>),
                                               WriteValue(table, f.type, obj.attrs[f.name]))),
                              Out(<<>>), fields)
       IN  Then(body, Out(<<FieldStop>>))
=============================================================================
