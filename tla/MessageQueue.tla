---------------------------- MODULE MessageQueue ----------------------------
(***************************************************************************)
(* green_turtle/message_queue.h: the wait-free ring shared by one pushing  *)
(* and one popping thread.                                                 *)
(*                                                                         *)
(* The counters are never reduced modulo the ring size: they run freely in *)
(* 64 bits and wrap, and the slot is counter & mask_.  Modulus stands for  *)
(* 2^64; size_ is 2^n, so it divides Modulus and & mask_ is % Size.        *)
(*                                                                         *)
(* Neither counter is locked.  A thread that loads the counter the other   *)
(* one stores may see any value that counter has held since the thread's   *)
(* previous load (a store can sit in a store buffer), never an older one.  *)
(* A store of a counter becomes visible only after the accesses to array_  *)
(* that precede it.  The release/acquire orders of std::atomic provide     *)
(* that; for VolatileCounter it rests on the store order of x86 and on a   *)
(* compiler that keeps accesses to array_ on their side of a volatile one, *)
(* which volatile by itself does not demand.                               *)
(***************************************************************************)
EXTENDS Integers, Sequences

CONSTANTS
    Element, \* the elements (T)
    Size,    \* size_
    Wraps    \* how often the ring fits into the range of a counter

ASSUME SizeAssumption == Size \in Nat /\ Size >= 2
ASSUME WrapsAssumption == Wraps \in Nat \ {0}

VARIABLES
    read_idx, write_idx,   \* the shared counters
    array,                 \* array_
    ppc, pval, p_read,     \* Push: program counter, v, read_idx as last loaded
    cpc, cval, c_write,    \* Pop: program counter, v, write_idx as last loaded
    popped                 \* <<v>> for the last v that Pop returned

producer == <<ppc, pval, p_read>>
consumer == <<cpc, cval, c_write>>
ring_vars == <<read_idx, write_idx, array, producer, consumer, popped>>

Modulus == Wraps * Size
mask == Size - 1
Index == 0 .. (Modulus - 1)

(* counter & mask_, and counter + 1 in the counter's width.                *)
Slot(i) == i % Size
Succ(i) == (i + 1) % Modulus

(* The unsigned difference to - from.                                      *)
Distance(from, to) == (to - from) % Modulus

(* The tests on the loaded counters that make Push and Pop return false.   *)
(* A Bug_ definition, here and in the other modules, is a variant that a   *)
(* property must reject; nothing uses it.                                  *)
Bug_NeverFull(r) == FALSE
Bug_FullAtSize(r) == Distance(r, write_idx) = Size
Full(r) == Distance(r, write_idx) = mask
Bug_EmptyAtOne(w) == Distance(read_idx, w) <= 1
Empty(w) == read_idx = w

(* What a load of the other thread's counter may return.                   *)
Observable(seen, current) ==
    {(seen + k) % Modulus : k \in 0 .. Distance(seen, current)}

(* The elements of array_ between the two counters, oldest first.          *)
Contents == [k \in 1 .. Distance(read_idx, write_idx) |->
                array[Slot(read_idx + k - 1)]]
-----------------------------------------------------------------------------
(* new T[size]() : which value the slots start with is irrelevant.         *)
RingInit ==
    /\ read_idx = 0 /\ write_idx = 0
    /\ array \in {[s \in 0 .. mask |-> v] : v \in Element}
    /\ ppc = "idle" /\ pval = array[0] /\ p_read = 0
    /\ cpc = "idle" /\ cval = array[0] /\ c_write = 0
    /\ popped = <<>>

(* Push: load both counters; a full ring returns false.                    *)
PushLoad(v) ==
    /\ ppc = "idle"
    /\ \E r \in Observable(p_read, read_idx) :
          /\ p_read' = r
          /\ IF Full(r)
                THEN UNCHANGED <<ppc, pval>>
                ELSE ppc' = "store" /\ pval' = v
    /\ UNCHANGED <<read_idx, write_idx, array, consumer, popped>>

(* array_[current_write_ & mask_] = v                                      *)
PushStore ==
    /\ ppc = "store"
    /\ array' = [array EXCEPT ![Slot(write_idx)] = pval]
    /\ ppc' = "publish"
    /\ UNCHANGED <<read_idx, write_idx, pval, p_read, consumer, popped>>

(* write_idx_.store(current_write_ + 1), return true                       *)
PushPublish ==
    /\ ppc = "publish"
    /\ write_idx' = Succ(write_idx)
    /\ ppc' = "idle"
    /\ UNCHANGED <<read_idx, array, pval, p_read, consumer, popped>>

(* Pop: load both counters; an empty ring returns false.                   *)
PopLoad ==
    /\ cpc = "idle"
    /\ \E w \in Observable(c_write, write_idx) :
          /\ c_write' = w
          /\ cpc' = IF Empty(w) THEN "idle" ELSE "take"
    /\ UNCHANGED <<read_idx, write_idx, array, producer, cval, popped>>

(* v = std::move(array_[current_read_ & mask_])                            *)
PopTake ==
    /\ cpc = "take"
    /\ cval' = array[Slot(read_idx)]
    /\ cpc' = "release"
    /\ UNCHANGED <<read_idx, write_idx, array, producer, c_write, popped>>

(* read_idx_.store(current_read_ + 1), return true                         *)
PopRelease ==
    /\ cpc = "release"
    /\ read_idx' = Succ(read_idx)
    /\ popped' = <<cval>>
    /\ cpc' = "idle"
    /\ UNCHANGED <<write_idx, array, producer, cval, c_write>>

Push == (\E v \in Element : PushLoad(v)) \/ PushStore \/ PushPublish
Pop == PopLoad \/ PopTake \/ PopRelease
RingNext == Push \/ Pop
RingSpec == RingInit /\ [][RingNext]_ring_vars

(* A popping thread that keeps calling Pop, and whose loads see the other  *)
(* thread's store after finitely many tries.                               *)
RingFairness ==
    /\ WF_ring_vars(PopLoad /\ c_write' = write_idx)
    /\ WF_ring_vars(PopTake)
    /\ WF_ring_vars(PopRelease)
FairRingSpec == RingSpec /\ RingFairness
-----------------------------------------------------------------------------
(* Every variable keeps the type it has in message_queue.h.                *)
TypeOK ==
    /\ read_idx \in Index /\ write_idx \in Index
    /\ array \in [0 .. mask -> Element]
    /\ ppc \in {"idle", "store", "publish"}
    /\ pval \in Element /\ p_read \in Index
    /\ cpc \in {"idle", "take", "release"}
    /\ cval \in Element /\ c_write \in Index
    /\ popped \in {<<>>} \cup {<<v>> : v \in Element}

(* Push never stores into the slot that Pop is reading, at any phase of    *)
(* the two counters' wrap-around and however stale the loads were: the two *)
(* unsynchronised accesses to array_ never meet.                           *)
NoSlotRace == ~ (ppc = "store" /\ cpc = "take" /\ Slot(write_idx) = Slot(read_idx))

(* The value Pop has moved out of array_ is still the oldest one when      *)
(* read_idx_ is stored: no Push has overwritten that slot in between.      *)
TakenIsOldest == cpc = "release" => Contents # <<>> /\ cval = Head(Contents)

(* The unlocked ring implements a bounded FIFO of size_ - 1 elements: what *)
(* Pop returns is what was pushed, in order, nothing lost or duplicated    *)
(* (the FIFO assertion of test/message_queue_test.cc).                     *)
Fifo == INSTANCE BoundedFifo WITH Value <- Element, Capacity <- mask,
            contents <- Contents, delivered <- popped
ImplementsFifo == Fifo!Spec

(* A published element is eventually popped by a thread that keeps calling *)
(* Pop: no element is stranded in the ring by a stale load.                *)
PublishedIsPopped ==
    \A i \in Index : (read_idx = i /\ write_idx # i) ~> (read_idx # i)
=============================================================================
