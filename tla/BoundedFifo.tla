---------------------------- MODULE BoundedFifo ----------------------------
(***************************************************************************)
(* What a one-producer, one-consumer queue promises its two users: values  *)
(* come out in the order they went in, each exactly once, and at most      *)
(* Capacity of them are inside.  An attempt that returns false changes     *)
(* nothing, so it is a stuttering step here.                               *)
(***************************************************************************)
EXTENDS Naturals, Sequences

CONSTANTS Value, Capacity

VARIABLES contents,   \* the values inside, oldest first
          delivered   \* the value the last successful Pop returned, <<>> at first

Init == contents = <<>> /\ delivered = <<>>

Push(v) == /\ Len(contents) < Capacity
           /\ contents' = Append(contents, v)
           /\ UNCHANGED delivered

Pop == /\ contents # <<>>
       /\ delivered' = <<Head(contents)>>
       /\ contents' = Tail(contents)

Next == (\E v \in Value : Push(v)) \/ Pop

Spec == Init /\ [][Next]_<<contents, delivered>>
=============================================================================
