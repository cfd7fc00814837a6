--------------------------- MODULE TimerWheelSetup ---------------------------
(***************************************************************************)
(* The constructor of TimerQueue and the bit arithmetic that ScheduleTimer *)
(* and Update do with what it computes: slots are taken & slot_mask, times *)
(* are shifted >> interval_exponent_.  The module TimerQueue writes % and  *)
(* \div instead; this module shows when that is the same.                  *)
(*                                                                         *)
(* Width stands for the 64 bits of size_t.                                 *)
(***************************************************************************)
EXTENDS Integers, Bitwise

CONSTANTS
    Width,
    MaxSize       \* bound on slot_size and interval

VARIABLES
    pc,
    slot_size, interval, interval_exponent,
    i             \* the constructor's loop variable

vars == <<pc, slot_size, interval, interval_exponent, i>>

Values == 0 .. (2^Width - 1)
Complement(x) == (2^Width - 1) - x
IsPowerOfTwo(n) == \E e \in 0 .. Width : n = 2^e

(* assert(~(n & (n - 1)) && "... must be 2^n")                             *)
Asserted(n) == Complement(n & (n - 1)) # 0

Init ==
    /\ pc = "new"
    /\ slot_size = 0 /\ interval = 0 /\ interval_exponent = 0 /\ i = 0

Construct(n, m) ==
    /\ pc = "new"
    /\ Asserted(n) /\ Asserted(m)
    /\ slot_size' = n /\ interval' = m
    /\ i' = m
    /\ pc' = "loop"
    /\ UNCHANGED interval_exponent

(* for (uint64_t i = interval_; i != 1; i /= 2) ++interval_exponent_;      *)
Halve ==
    /\ pc = "loop" /\ i # 1
    /\ i' = i \div 2
    /\ interval_exponent' = interval_exponent + 1
    /\ UNCHANGED <<pc, slot_size, interval>>

Ready ==
    /\ pc = "loop" /\ i = 1
    /\ pc' = "ready"
    /\ UNCHANGED <<slot_size, interval, interval_exponent, i>>

Next ==
    \/ \E n, m \in 1 .. MaxSize : Construct(n, m)
    \/ Halve
    \/ Ready

Spec == Init /\ [][Next]_vars
-----------------------------------------------------------------------------
Bug_MaskIsSize(x) == x & slot_size
Masked(x) == x & (slot_size - 1)
Shifted(x) == x \div 2^interval_exponent

(* For 2^n slots of 2^m milliseconds the code's & and >> are the remainder *)
(* and the quotient that the wheel needs: every slot is reached, and a     *)
(* frame is interval_ long.  2^interval_exponent_ = interval_, as          *)
(* timer_queue.h says of the field.  For every size but 0 the loop, which  *)
(* only ends at 1, cannot step past it.                                    *)
BitsAreArithmetic ==
    /\ pc = "loop" => i > 0
    /\ pc = "ready" =>
          /\ IsPowerOfTwo(slot_size) => \A x \in Values : Masked(x) = x % slot_size
          /\ IsPowerOfTwo(interval) => \A x \in Values : Shifted(x) = x \div interval

(* timer_queue.cc asserts "Slot Size must be 2^n" and "Interval must be    *)
(* 2^n": a queue whose constructor returned has such sizes.                *)
SizesArePowersOfTwo ==
    pc = "ready" => IsPowerOfTwo(slot_size) /\ IsPowerOfTwo(interval)
=============================================================================
