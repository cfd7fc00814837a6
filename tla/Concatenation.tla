---------------------------- MODULE Concatenation ----------------------------
(***************************************************************************)
(* Sequences one behind the other, as a loop that appends them builds      *)
(* them.  (A recursive function of its own: what it computes for every     *)
(* input is proved in BufferedSocketProofs.)                               *)
(***************************************************************************)
EXTENDS Naturals, Sequences

Concatenated(seqs) ==
    LET upto[i \in 0 .. Len(seqs)] == IF i = 0 THEN <<>> ELSE upto[i - 1] \o seqs[i]
    IN  upto[Len(seqs)]
=============================================================================
