---------------------------- MODULE ThriftReader ----------------------------
(***************************************************************************)
(* read() of the classes in ttypes.py, over the table of fields Structs.   *)
(* It recurses; its stack is a variable, and a step is one turn of its     *)
(* loop or one call to the protocol.                                       *)
(***************************************************************************)
EXTENDS ThriftWriter

CONSTANT Messages   \* what is read: [class, events, tail], tail being what follows

VARIABLES
  work,    \* which message it is
  input,   \* what is left of it, and of what follows
  stack,   \* what read() is in the middle of, the innermost last
  status,  \* "reading", "done" or "raised"
  result   \* <<object>> when done

vars == <<work, input, stack, status, result>>

-----------------------------------------------------------------------------
Event == Head(input)
Call(kind) == input # <<>> /\ Event.e = kind /\ input' = Tail(input)

\* What is on the stack: an object being read and the attribute being read into, a
\* value to come, a list with elements to come, and the same to be skipped.
InFields(obj)  == [do |-> "fields", obj |-> obj, at |-> ""]
Reading(type)  == IF type.t = "STRUCT" THEN InFields(New(type.of[1]))
                  ELSE [do |-> "value", type |-> type]
InList(type, n) == [do |-> "list", type |-> type, left |-> n, items |-> <<>>]
Skipping(t)    == [do |-> IF t = "STRUCT" THEN "skip_fields" ELSE "skip", t |-> t]

Top == Last(stack)
In(what) == status = "reading" /\ Top.do = what
Replace(frame) == stack' = Append(Front(stack), frame)
Push(frame)    == stack' = Append(stack, frame)

\* A value is complete: it goes to whoever called for it.
Return(v) ==
  IF Len(stack) = 1
  THEN status' = "done" /\ result' = <<v>> /\ stack' = <<>>
  ELSE LET below == Front(stack)
           f     == Last(below)
       IN  /\ stack' = Append(Front(below),
                IF f.do = "list" THEN [f EXCEPT !.items = Append(@, v)]
                ELSE [f EXCEPT !.obj.attrs = (f.at :> v) @@ @, !.at = ""])
           /\ UNCHANGED <<status, result>>

Init ==
  /\ work \in DOMAIN Messages /\ input = Messages[work].events \o Messages[work].tail
  /\ stack = <<InFields(New(Messages[work].class))>>
  /\ status = "reading" /\ result = <<>>

\* Slip: the type that comes with the field is not compared.
KnownById(class) == {f \in Range(Structs[class]) : f.id = Event.id}

\* The branch of read() that takes the field: its id, and its type as expected.
Known(class) == {f \in Range(Structs[class]) : f.id = Event.id /\ f.type.t = Event.t}

ReadFieldBegin ==
  /\ In("fields") /\ Top.at = "" /\ Call("field")
  /\ \/ \E f \in Known(Top.obj.class) :
          stack' = Append(Front(stack), [Top EXCEPT !.at = f.name]) \o <<Reading(f.type)>>
     \/ Known(Top.obj.class) = {} /\ Push(Skipping(Event.t))
  /\ UNCHANGED <<work, status, result>>

ReadFieldStop ==
  /\ In("fields") /\ Top.at = "" /\ Call("stop")
  /\ Return(Top.obj)
  /\ UNCHANGED work

ReadScalar ==
  /\ In("value") /\ Top.type.t # "LIST" /\ Call("value")
  /\ Return(Event.v)
  /\ UNCHANGED work

\* The type of the elements that comes with the list is not looked at.
ReadListBegin ==
  /\ In("value") /\ Top.type.t = "LIST" /\ Call("list")
  /\ Replace(InList(Top.type.of[1], Event.n))
  /\ UNCHANGED <<work, status, result>>

ReadElement ==
  /\ In("list") /\ Top.left > 0
  /\ stack' = Append(Front(stack), [Top EXCEPT !.left = @ - 1]) \o <<Reading(Top.type)>>
  /\ UNCHANGED <<work, input, status, result>>

ReadListEnd ==
  /\ In("list") /\ Top.left = 0
  /\ Return(Top.items)
  /\ UNCHANGED <<work, input>>

(* TProtocol.skip(), which recurses into what it skips. *)
SkipList ==
  /\ In("skip") /\ Call("list")
  /\ Replace([do |-> "skip_list", t |-> Event.t, left |-> Event.n])
  /\ UNCHANGED <<work, status, result>>

SkipElement ==
  /\ In("skip_list")
  /\ IF Top.left = 0 THEN stack' = Front(stack)
     ELSE stack' = Append(Front(stack), [Top EXCEPT !.left = @ - 1]) \o <<Skipping(Top.t)>>
  /\ UNCHANGED <<work, input, status, result>>

SkipScalar ==
  /\ In("skip") /\ Call("value")
  /\ stack' = Front(stack)
  /\ UNCHANGED <<work, status, result>>

\* Slip: skip() of a struct ends at the first end of a struct in it.
SkipToStop ==
  /\ In("skip_fields") /\ input # <<>> /\ input' = Tail(input)
  /\ stack' = IF Event.e = "stop" THEN Front(stack) ELSE stack
  /\ UNCHANGED <<work, status, result>>

SkipFields ==
  /\ In("skip_fields")
  /\ \/ Call("field") /\ Push(Skipping(Event.t))
     \/ Call("stop") /\ stack' = Front(stack)
  /\ UNCHANGED <<work, status, result>>

\* What the protocol must have next.
Expected ==
  CASE Top.do \in {"fields", "skip_fields"} -> {"field", "stop"}
    [] Top.do = "value" -> IF Top.type.t = "LIST" THEN {"list"} ELSE {"value"}
    [] Top.do = "skip"  -> {"list", "value"}
    [] OTHER            -> {}

\* The protocol finds something else, or no more bytes, and raises; so does read().
Raise ==
  /\ status = "reading" /\ Expected # {}
  /\ input # <<>> => Event.e \notin Expected
  /\ status' = "raised"
  /\ UNCHANGED <<work, input, stack, result>>

Over == status # "reading" /\ UNCHANGED vars

Read == ReadFieldBegin \/ ReadFieldStop \/ ReadScalar \/ ReadListBegin \/ ReadElement \/ ReadListEnd
Skip == SkipList \/ SkipElement \/ SkipScalar \/ SkipFields
Next == Read \/ Skip \/ Raise \/ Over
Spec == Init /\ [][Next]_vars

-----------------------------------------------------------------------------
(* Properties.                                                             *)

\* read() leaves the protocol exactly behind the message, whatever it skipped on the way:
\* strip_header.py takes the position of the buffer for the size of the header and cuts the
\* page's payload there.
EndsAtMessage == status = "done" => input = Messages[work].tail
=============================================================================
