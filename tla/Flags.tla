-------------------------------- MODULE Flags --------------------------------
(***************************************************************************)
(* green_turtle/flags.cc: look-up in a command line.  An argument is a     *)
(* record: whether it begins with '-', and the rest.                       *)
(***************************************************************************)
EXTENDS Integers, Sequences

(* The first argument that is '-' and the flag; Len(argv) + 1 for end().   *)
FindFlag(argv, flag) ==
    CHOOSE i \in 1 .. Len(argv) + 1 :
        /\ i <= Len(argv) => argv[i].dash /\ argv[i].rest = flag
        /\ \A j \in 1 .. i - 1 : ~(argv[j].dash /\ argv[j].rest = flag)

CheckFlag(argv, flag) == FindFlag(argv, flag) # Len(argv) + 1

(* The argument that follows, unless it begins with '-' too.               *)
GetFlags(argv, flag) ==
    LET i == FindFlag(argv, flag)
    IN  IF i < Len(argv) /\ ~argv[i + 1].dash THEN argv[i + 1].rest ELSE ""
=============================================================================
