--------------------------- MODULE CompactProtocol ---------------------------
(***************************************************************************)
(* The bytes that Thrift's TCompactProtocol makes of a message of          *)
(* ThriftReader.  The protocol is a library; what is here is what the      *)
(* page headers in the tests show of it: field ids as differences below    *)
(* 16, varints for integers, a bool in the tag of its field.               *)
(***************************************************************************)
EXTENDS Integers, Sequences, SequencesExt

RECURSIVE Varint(_)
Varint(u) == IF u < 128 THEN <<u>> ELSE <<128 + (u % 128)>> \o Varint(u \div 128)
ZigZagged(n) == IF n >= 0 THEN 2 * n ELSE -(2 * n) - 1

CompactType ==
  [BYTE |-> 3, I16 |-> 4, I32 |-> 5, I64 |-> 6, DOUBLE |-> 7, STRING |-> 8, LIST |-> 9, STRUCT |-> 12]

\* A part is a field's own bytes: its path of field ids, its type, and the bytes.
Part(path, t, bytes) == [path |-> path, t |-> t, bytes |-> bytes]

\* What the writer keeps: the ids of the open structs, and in each the last id written.
Writing == [path |-> <<>>, last |-> <<0>>, parts |-> <<>>]

Extended(s, bytes) == [s EXCEPT !.parts[Len(s.parts)].bytes = @ \o bytes]

Scalar(t, v) == IF t = "STRING" THEN Varint(Len(v)) \o v ELSE Varint(ZigZagged(v))

Call(s, ev) ==
  LET delta == ev.id - Last(s.last)
      begun == [s EXCEPT !.last[Len(s.last)] = ev.id,
                         !.parts = Append(@, Part(Append(s.path, ev.id), ev.t,
                            <<16 * delta + (IF ev.t = "BOOL" THEN 2 ELSE CompactType[ev.t])>>))]
  IN  CASE ev.e = "field" -> IF ev.t = "STRUCT"
                             THEN [begun EXCEPT !.path = Append(@, ev.id), !.last = Append(@, 0)]
                             ELSE begun
        [] ev.e = "value" -> IF ev.t # "BOOL" THEN Extended(s, Scalar(ev.t, ev.v))
                             ELSE [s EXCEPT !.parts[Len(s.parts)].bytes =
                                      IF ev.v THEN <<@[1] - 1>> ELSE @]
        [] ev.e = "stop"  -> [s EXCEPT !.path = IF @ = <<>> THEN @ ELSE Front(@), !.last = Front(@),
                                       !.parts = Append(@, Part(s.path, "STOP", <<0>>))]

Parts(events) == FoldLeft(Call, Writing, events).parts
Bytes(parts)  == FlattenSeq([i \in DOMAIN parts |-> parts[i].bytes])
=============================================================================
