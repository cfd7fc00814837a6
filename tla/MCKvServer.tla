----------------------------- MODULE MCKvServer -----------------------------
(***************************************************************************)
(* Two requests, one of them only a header, and two loops.                 *)
(***************************************************************************)
EXTENDS KvServer

TwoRequests == <<[length |-> 3, affinity |-> 0], [length |-> 4, affinity |-> 3]>>
=============================================================================
