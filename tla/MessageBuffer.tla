---------------------------- MODULE MessageBuffer ----------------------------
(***************************************************************************)
(* net/message.h: a message built field by field in a growing string.      *)
(* Append<T>() reserves a field and returns a MemberPtr, through which the *)
(* field is filled in after others were appended, and the string has moved *)
(* to another block of memory.  A plain value of n bytes is n cells.       *)
(***************************************************************************)
EXTENDS Integers, Concatenation

CONSTANTS
    Datum,        \* values that fields and texts are made of
    Zero,         \* what resize fills new bytes with
    InitSize,     \* kDefaultInitSize
    MaxFields     \* bound: fields appended

VARIABLES
    buffer,       \* buffer_
    block,        \* where buffer_.c_str() is: its capacity names the block
    members,      \* MemberPtrs handed out, by the number of their field
    fields        \* history: what each field should hold

message_vars == <<buffer, block, members, fields>>

Init == buffer = <<>> /\ block = InitSize /\ members = {} /\ fields = <<>>

Cells(v, n) == [i \in 1 .. n |-> <<v, i>>]

(* std::string moves to a block of twice the size, or larger if need be.   *)
Grown(n) ==
    LET need == Len(buffer) + n
    IN  IF need <= block THEN block
        ELSE IF need > 2 * block THEN need ELSE 2 * block

(* MakeSpace(n), or append, and what is then written into the space.       *)
MakeSpace(cells) ==
    /\ Len(fields) < MaxFields
    /\ buffer' = buffer \o cells
    /\ block' = Grown(Len(cells))
    /\ fields' = Append(fields, cells)

AppendMember(n) ==
    /\ MakeSpace(Cells(Zero, n))
    /\ members' = members \cup {[field |-> Len(fields) + 1, offset |-> Len(buffer),
                                 made |-> block']}

(* Append(const T&), and the overloads for texts and raw bytes.            *)
AppendValue(v, n) == MakeSpace(Cells(v, n)) /\ UNCHANGED members

(* MemberPtr::get(): the offset from where data() is now.                  *)
Bug_get(m) == [block |-> m.made, offset |-> m.offset]
get(m) == [block |-> block, offset |-> m.offset]

(* An assignment through the pointer.  A block that was freed is lost.     *)
Store(m, v) ==
    LET p == get(m)
        cells == Cells(v, Len(fields[m.field]))
    IN  /\ m \in members
        /\ buffer' = IF p.block # block THEN buffer
                     ELSE [i \in DOMAIN buffer |-> IF i - p.offset \in DOMAIN cells
                                                   THEN cells[i - p.offset] ELSE buffer[i]]
        /\ fields' = [fields EXCEPT ![m.field] = cells]
        /\ UNCHANGED <<block, members>>

Next ==
    \/ \E n \in 1 .. 3 : AppendMember(n) \/ \E v \in Datum : AppendValue(v, n)
    \/ \E m \in members, v \in Datum : Store(m, v)

Spec == Init /\ [][Next]_message_vars
-----------------------------------------------------------------------------
(* data() and length() give the fields one after the other, each with what *)
(* was last stored in it, however often the string moved in between.       *)
FieldsStay == buffer = Concatenated(fields)
=============================================================================
