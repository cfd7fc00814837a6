---------------------------- MODULE MCMessageLoop ----------------------------
(***************************************************************************)
(* Requests of two sockets, with and without strings; the last word of the *)
(* first of two strings is a length inside the message, or is not.         *)
(***************************************************************************)
EXTENDS MessageLoop

MCCommand ==
    {[opcode |-> op, strings |-> <<>>] : op \in {"VERSION", "ERROR"}} \cup
    {[opcode |-> op, strings |-> <<<<7, 9>>>>] : op \in {"GET", "DEL"}} \cup
    {[opcode |-> "SET", strings |-> <<<<w>>, <<7>>>>] : w \in {1, 9}}
=============================================================================
