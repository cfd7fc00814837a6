------------------------- MODULE MessageQueueProofs -------------------------
(***************************************************************************)
(* The ring of message_queue.h is correct for every size, every width of   *)
(* its counters and every set of elements.  The first lemmas are facts     *)
(* about %: the code computes i & (n - 1) with n a power of two, which is  *)
(* i % n.                                                                  *)
(***************************************************************************)
EXTENDS MessageQueue, SequenceTheorems, TLAPS

(* An integer is a multiple of n plus its remainder.                       *)
LEMMA DivMod ==
    ASSUME NEW a \in Int, NEW n \in Nat \ {0}
    PROVE  \E q \in Int : \E r \in 0 .. (n - 1) : r = a % n /\ a = n * q + r
<1>1. a % n \in 0 .. (n - 1) /\ a \div n \in Int /\ a = n * (a \div n) + (a % n)
  OBVIOUS
<1>2. QED
  BY <1>1

(* The remainder is unique.                                                *)
LEMMA ModUnique ==
    ASSUME NEW a \in Int, NEW n \in Nat \ {0},
           NEW q \in Int, NEW r \in 0 .. (n - 1), a = n * q + r
    PROVE  a % n = r
OBVIOUS

(* Multiplication distributes over sums and differences.                   *)
LEMMA MulAdd ==
    ASSUME NEW n \in Int, NEW q \in Int, NEW p \in Int
    PROVE  /\ n * (q + p) = n * q + n * p
           /\ n * (q - p) = n * q - n * p
           /\ n * q \in Int /\ n * p \in Int
OBVIOUS

(* A common factor of two terms comes out: circles and slots of a wheel.   *)
LEMMA MulAssoc ==
    ASSUME NEW K \in Int, NEW S \in Int, NEW q \in Int, NEW p \in Int
    PROVE  (K * S) * q + S * p = S * (K * q + p)
OBVIOUS

(* A number in range is its own remainder.                                 *)
LEMMA ModSmall ==
    ASSUME NEW n \in Nat \ {0}, NEW a \in 0 .. (n - 1)
    PROVE  a % n = a
<1>1. a = n * 0 + a /\ a \in Int
  OBVIOUS
<1>2. QED
  BY <1>1, ModUnique

(* Reducing a summand first changes nothing.                               *)
LEMMA ModShift ==
    ASSUME NEW a \in Int, NEW b \in Int, NEW n \in Nat \ {0}
    PROVE  ((a % n) + b) % n = (a + b) % n
<1>1. PICK q \in Int, r \in 0 .. (n - 1) : r = a % n /\ a = n * q + r
  BY DivMod
<1>2. r + b \in Int
  OBVIOUS
<1>3. PICK p \in Int, s \in 0 .. (n - 1) : s = (r + b) % n /\ r + b = n * p + s
  BY <1>2, DivMod
<1>4. a + b = n * (q + p) + s
  <2>1. n * (q + p) = n * q + n * p /\ n * q \in Int /\ n * p \in Int
    BY MulAdd
  <2>2. a = n * q + r
    BY <1>1
  <2>3. r + b = n * p + s
    BY <1>3
  <2> HIDE <1>1, <1>3
  <2>4. QED
    BY <2>1, <2>2, <2>3
<1>5. (a + b) % n = s
  <2>1. a + b \in Int /\ q + p \in Int
    OBVIOUS
  <2> HIDE <1>1, <1>3
  <2>2. QED
    BY <1>4, <2>1, ModUnique
<1>6. QED
  BY <1>1, <1>3, <1>5

(* Reducing modulo a multiple of S first changes nothing.                  *)
LEMMA ModMod ==
    ASSUME NEW a \in Int, NEW S \in Nat \ {0}, NEW K \in Nat \ {0}
    PROVE  (a % (K * S)) % S = a % S
<1>1. K * S \in Nat \ {0}
  OBVIOUS
<1>2. PICK q \in Int, r \in 0 .. ((K * S) - 1) : r = a % (K * S) /\ a = (K * S) * q + r
  BY <1>1, DivMod
<1>3. r \in Int
  BY <1>1
<1>4. PICK p \in Int, s \in 0 .. (S - 1) : s = r % S /\ r = S * p + s
  BY <1>3, DivMod
<1>5. K * q + p \in Int
  OBVIOUS
<1>6. a = S * (K * q + p) + s
  <2>1. (K * S) * q \in Int /\ S * p \in Int
    BY <1>1
  <2>2. QED
    BY <1>2, <1>4, MulAssoc, <2>1
<1>7. a % S = s
  BY <1>5, <1>6, ModUnique
<1>8. QED
  BY <1>2, <1>4, <1>7

(* Differences of remainders add up as long as the sum stays in range.     *)
LEMMA ModAdd ==
    ASSUME NEW x \in Int, NEW y \in Int, NEW n \in Nat \ {0},
           (x % n) + (y % n) < n
    PROVE  (x + y) % n = (x % n) + (y % n)
<1>1. PICK q \in Int, r \in 0 .. (n - 1) : r = x % n /\ x = n * q + r
  BY DivMod
<1>2. PICK p \in Int, s \in 0 .. (n - 1) : s = y % n /\ y = n * p + s
  BY DivMod
<1>3. x + y = n * (q + p) + (r + s)
  BY <1>1, <1>2, MulAdd
<1>4. r + s \in 0 .. (n - 1) /\ x + y \in Int /\ q + p \in Int
  BY <1>1, <1>2
<1>5. (x + y) % n = r + s
  <2> HIDE <1>1, <1>2
  <2>1. QED
    BY <1>3, <1>4, ModUnique
<1>6. QED
  BY <1>1, <1>2, <1>5
-----------------------------------------------------------------------------
(* A counter's range holds at least one ring.                              *)
LEMMA ModulusPos == Modulus \in Nat \ {0} /\ mask \in Nat \ {0} /\ mask < Modulus
BY SizeAssumption, WrapsAssumption DEF Modulus, mask

(* Distances are counter values.                                           *)
LEMMA DistanceType ==
    ASSUME NEW i \in Index, NEW j \in Index
    PROVE  Distance(i, j) \in Index /\ Distance(i, j) \in Nat
<1>1. j - i \in Int
  BY ModulusPos DEF Index
<1>2. QED
  BY <1>1, ModulusPos, DivMod DEF Distance, Index

(* Distances add up as long as the sum does not wrap.                      *)
LEMMA DistanceAdd ==
    ASSUME NEW i \in Index, NEW j \in Index, NEW k \in Index,
           Distance(i, j) + Distance(j, k) < Modulus
    PROVE  Distance(i, k) = Distance(i, j) + Distance(j, k)
<1>1. j - i \in Int /\ k - j \in Int /\ (j - i) + (k - j) = k - i
  BY ModulusPos DEF Index
<1>2. QED
  BY <1>1, ModulusPos, ModAdd DEF Distance

(* Two counters are no distance apart exactly when they are equal.         *)
LEMMA DistanceZero ==
    ASSUME NEW i \in Index, NEW j \in Index
    PROVE  Distance(i, j) = 0 <=> i = j
<1>1. ASSUME i = j PROVE Distance(i, j) = 0
  <2>1. j - i = 0 /\ 0 \in 0 .. (Modulus - 1)
    BY <1>1, ModulusPos DEF Index
  <2>2. QED
    BY <2>1, ModulusPos, ModSmall DEF Distance
<1>2. ASSUME Distance(i, j) = 0 PROVE i = j
  <2>1. j = (i + Distance(i, j)) % Modulus
    <3>1. j - i \in Int /\ i \in Int /\ (j - i) + i = j
      BY ModulusPos DEF Index
    <3>2. (((j - i) % Modulus) + i) % Modulus = ((j - i) + i) % Modulus
      BY <3>1, ModulusPos, ModShift
    <3>3. j % Modulus = j
      BY ModulusPos, ModSmall DEF Index
    <3>4. Distance(i, j) + i = i + Distance(i, j)
      BY <3>1, DistanceType
    <3>5. QED
      BY <3>1, <3>2, <3>3, <3>4 DEF Distance
  <2>2. i % Modulus = i
    BY ModulusPos, ModSmall DEF Index
  <2>3. i + 0 = i
    BY ModulusPos DEF Index
  <2>4. QED
    BY <1>2, <2>1, <2>2, <2>3
<1>3. QED
  BY <1>1, <1>2

(* A counter moved k on, k less than the counter's range, is k away.       *)
LEMMA DistanceMoved ==
    ASSUME NEW i \in Index, NEW k \in Index
    PROVE  /\ (i + k) % Modulus \in Index
           /\ Distance(i, (i + k) % Modulus) = k
<1>1. i \in Int /\ k \in Int /\ i + k \in Int /\ 0 - i \in Int
  BY ModulusPos DEF Index
<1>2. (i + k) % Modulus \in Index
  BY <1>1, ModulusPos, DivMod DEF Index
<1>3. (((i + k) % Modulus) + (0 - i)) % Modulus = ((i + k) + (0 - i)) % Modulus
  BY <1>1, ModulusPos, ModShift
<1>4. (i + k) + (0 - i) = k
  BY <1>1
<1>5. ((i + k) % Modulus) + (0 - i) = ((i + k) % Modulus) - i
  BY <1>1, <1>2, ModulusPos DEF Index
<1>6. k % Modulus = k
  BY ModulusPos, ModSmall DEF Index
<1>7. QED
  BY <1>2, <1>3, <1>4, <1>5, <1>6 DEF Distance

(* Storing counter + 1 brings it one closer to the counter ahead of it and *)
(* one further from the counter behind it.                                 *)
LEMMA DistanceSucc ==
    ASSUME NEW i \in Index, NEW j \in Index
    PROVE  /\ Succ(i) \in Index
           /\ Distance(i, j) < Modulus - 1 => Distance(i, Succ(j)) = Distance(i, j) + 1
           /\ Distance(i, j) > 0 => Distance(Succ(i), j) = Distance(i, j) - 1
<1>1. 1 \in Index
  BY ModulusPos DEF Index
<1>2. \A x \in Index : Succ(x) \in Index /\ Distance(x, Succ(x)) = 1
  BY <1>1, DistanceMoved DEF Succ
<1>3. ASSUME Distance(i, j) < Modulus - 1
      PROVE  Distance(i, Succ(j)) = Distance(i, j) + 1
  <2>1. Distance(i, j) + Distance(j, Succ(j)) < Modulus
    BY <1>2, <1>3, DistanceType, ModulusPos
  <2>2. QED
    BY <1>2, <2>1, DistanceAdd
<1>4. ASSUME Distance(i, j) > 0
      PROVE  Distance(Succ(i), j) = Distance(i, j) - 1
  <2> DEFINE d == Distance(i, j)
  <2>1. d \in Index /\ d - 1 \in Index
    <3>1. d \in Index /\ d > 0
      BY <1>4, DistanceType
    <3> HIDE DEF d
    <3>2. QED
      BY <3>1, ModulusPos DEF Index
  <2>2. j - Succ(i) \in Int /\ i - Succ(i) \in Int /\ j - i \in Int
    BY <1>2, ModulusPos DEF Index
  <2>3. Distance(Succ(i), j) = (d + (i - Succ(i))) % Modulus
    <3>1. (j - i) + (i - Succ(i)) = j - Succ(i)
      BY <1>2, ModulusPos DEF Index
    <3>2. QED
      BY <2>2, <3>1, ModulusPos, ModShift DEF Distance
  <2>4. i - Succ(i) \in {0 - 1, Modulus - 1}
    <3>1. CASE i + 1 < Modulus
      <4>1. i + 1 \in 0 .. (Modulus - 1)
        BY <3>1, ModulusPos DEF Index
      <4>2. Succ(i) = i + 1
        BY <4>1, ModulusPos, ModSmall DEF Succ
      <4>3. QED
        BY <4>2, ModulusPos DEF Index
    <3>2. CASE i + 1 = Modulus
      <4>1. i + 1 = Modulus * 1 + 0 /\ 0 \in 0 .. (Modulus - 1) /\ i + 1 \in Int
        BY <3>2, ModulusPos DEF Index
      <4>2. Succ(i) = 0
        BY <4>1, ModulusPos, ModUnique DEF Succ
      <4>3. QED
        BY <3>2, <4>2, ModulusPos DEF Index
    <3>3. QED
      BY <3>1, <3>2, ModulusPos DEF Index
  <2>5. (d + (i - Succ(i))) % Modulus = d - 1
    <3>1. CASE i - Succ(i) = 0 - 1
      <4>1. d + (i - Succ(i)) = d - 1
        BY <2>1, <3>1 DEF Index
      <4>2. QED
        BY <2>1, <4>1, ModulusPos, ModSmall DEF Index
    <3>2. CASE i - Succ(i) = Modulus - 1
      <4>1. d + (i - Succ(i)) = Modulus * 1 + (d - 1) /\ d + (i - Succ(i)) \in Int
        BY <2>1, <3>2, ModulusPos DEF Index
      <4>2. QED
        BY <2>1, <4>1, ModulusPos, ModUnique DEF Index
    <3>3. QED
      BY <2>4, <3>1, <3>2
  <2>6. QED
    BY <2>3, <2>5
<1>5. QED
  BY <1>2, <1>3, <1>4
(* A loaded counter lies between the last one seen and the current one.    *)
LEMMA ObservedBetween ==
    ASSUME NEW i \in Index, NEW j \in Index, NEW o \in Observable(i, j)
    PROVE  /\ o \in Index
           /\ Distance(i, o) + Distance(o, j) = Distance(i, j)
<1>1. PICK k \in 0 .. Distance(i, j) : o = (i + k) % Modulus
  BY DEF Observable
<1> DEFINE d == Distance(i, j)
<1>2. d \in Index /\ k \in 0 .. d
  BY <1>1, DistanceType
<1> HIDE DEF d
<1>3. k \in Index /\ d - k \in Index /\ k \in Int /\ d - k \in Int /\ k + (d - k) = d
  BY <1>2, ModulusPos DEF Index
<1>4. o \in Index /\ Distance(i, o) = k
  BY <1>1, <1>3, DistanceMoved
<1>5. Distance(o, j) = d - k
  <2>1. j = (i + d) % Modulus
    <3>1. j - i \in Int /\ i \in Int /\ (j - i) + i = j
      BY ModulusPos DEF Index
    <3>2. (((j - i) % Modulus) + i) % Modulus = ((j - i) + i) % Modulus
      BY <3>1, ModulusPos, ModShift
    <3>3. j % Modulus = j
      BY ModulusPos, ModSmall DEF Index
    <3>4. d + i = i + d
      BY <3>1, <1>2 DEF Index
    <3>5. QED
      BY <3>1, <3>2, <3>3, <3>4 DEF Distance, d
  <2>2. j = (o + (d - k)) % Modulus
    <3>1. i + k \in Int /\ (i + k) + (d - k) = i + d
      BY <1>2, ModulusPos DEF Index
    <3>2. (((i + k) % Modulus) + (d - k)) % Modulus = ((i + k) + (d - k)) % Modulus
      BY <1>3, <3>1, ModulusPos, ModShift
    <3>3. QED
      BY <1>1, <2>1, <3>1, <3>2
  <2>3. QED
    BY <1>3, <1>4, <2>2, DistanceMoved
<1>6. QED
  BY <1>3, <1>4, <1>5 DEF d

(* Two counters less than a ring apart address different slots.            *)
LEMMA SlotsDiffer ==
    ASSUME NEW i \in Index, NEW j \in Index,
           Distance(i, j) > 0, Distance(i, j) < Size
    PROVE  Slot(i) # Slot(j)
<1> DEFINE d == Distance(i, j)
<1>1. d \in 1 .. (Size - 1) /\ d \in Int
  BY DistanceType, SizeAssumption
<1>2. j - i \in Int /\ i \in Int /\ j \in Int /\ Size \in Nat \ {0}
  BY ModulusPos, SizeAssumption DEF Index
<1>3. d % Size = (j - i) % Size
  BY <1>2, ModMod, WrapsAssumption DEF Distance, Modulus
<1> HIDE DEF d
<1>4. d % Size = d
  BY <1>1, <1>2, ModSmall
<1>5. (j % Size) \in Int /\ (i % Size) \in Int
  BY <1>2
<1>6. SUFFICES ASSUME i % Size = j % Size PROVE FALSE
  BY DEF Slot
<1>7. (j - i) % Size = 0
  <2>1. PICK q \in Int, r \in 0 .. (Size - 1) : r = j % Size /\ j = Size * q + r
    BY <1>2, DivMod
  <2>2. PICK p \in Int, s \in 0 .. (Size - 1) : s = i % Size /\ i = Size * p + s
    BY <1>2, DivMod
  <2>3. r = s /\ j = Size * q + r /\ i = Size * p + s
    BY <1>6, <2>1, <2>2
  <2> HIDE <2>1, <2>2, <1>6
  <2>4. j - i = Size * (q - p) + 0
    <3>1. Size * (q - p) = Size * q - Size * p /\ Size * q \in Int /\ Size * p \in Int
      BY <1>2, MulAdd
    <3>2. QED
      BY <2>3, <3>1
  <2>5. 0 \in 0 .. (Size - 1) /\ q - p \in Int
    BY <1>2
  <2>6. QED
    BY <1>2, <2>4, <2>5, ModUnique
<1>8. QED
  BY <1>1, <1>3, <1>4, <1>7

(* The slot of a counter does not depend on where the counter wraps.       *)
LEMMA SlotMoved ==
    ASSUME NEW i \in Index, NEW k \in Int
    PROVE  /\ Slot(i + k) \in 0 .. mask
           /\ Slot(((i + 1) % Modulus) + k) = Slot(i + 1 + k)
<1>1. i \in Int /\ i + k \in Int /\ i + 1 \in Int /\ Size \in Nat \ {0}
  BY ModulusPos, SizeAssumption DEF Index
<1>2. Slot(i + k) \in 0 .. mask
  BY <1>1, DivMod DEF Slot, mask
<1> DEFINE m == (i + 1) % Modulus
<1>3. m \in Int
  BY <1>1, ModulusPos
<1>4. m % Size = (i + 1) % Size
  BY <1>1, ModMod, WrapsAssumption DEF Modulus
<1> HIDE DEF m
<1>5. (m + k) % Size = ((m % Size) + k) % Size
  BY <1>1, <1>3, ModShift
<1>6. ((i + 1) + k) % Size = (((i + 1) % Size) + k) % Size
  BY <1>1, ModShift
<1>7. QED
  BY <1>1, <1>2, <1>4, <1>5, <1>6 DEF Slot, m
-----------------------------------------------------------------------------
(***************************************************************************)
(* The inductive invariant.  What each thread last loaded of the other's   *)
(* counter lags behind it, and the lag never hides a full or an empty ring *)
(* from the thread that acts on it.                                        *)
(***************************************************************************)
ProducerLag ==
    /\ Distance(p_read, read_idx) + Distance(read_idx, write_idx)
          = Distance(p_read, write_idx)
    /\ Distance(p_read, write_idx) <= mask
    /\ ppc # "idle" => Distance(p_read, write_idx) < mask

ConsumerLag ==
    /\ Distance(read_idx, c_write) + Distance(c_write, write_idx)
          = Distance(read_idx, write_idx)
    /\ cpc # "idle" => read_idx # c_write

StoredValue == ppc = "publish" => array[Slot(write_idx)] = pval
TakenValue == cpc = "release" => cval = array[Slot(read_idx)]

Inv == TypeOK /\ ProducerLag /\ ConsumerLag /\ StoredValue /\ TakenValue

(* A counter addresses a slot of the array.                                *)
LEMMA SlotType ==
    ASSUME NEW i \in Index
    PROVE  Slot(i) \in 0 .. mask
<1>1. i + 0 = i /\ i \in Int
  BY ModulusPos DEF Index
<1>2. QED
  BY <1>1, SlotMoved

(* The distances the invariant speaks of are numbers.                      *)
LEMMA InvDistances ==
    ASSUME TypeOK
    PROVE  \A i, j \in {read_idx, write_idx, p_read, c_write} :
               i \in Index /\ Distance(i, j) \in Nat
BY DistanceType DEF TypeOK

(* While an element is being taken the ring is not empty; while one is     *)
(* being stored there is room for it.                                      *)
LEMMA InvBounds ==
    ASSUME Inv
    PROVE  /\ Distance(read_idx, write_idx) <= mask
           /\ ppc # "idle" => Distance(read_idx, write_idx) < mask
           /\ cpc # "idle" => Distance(read_idx, write_idx) > 0
<1>1. TypeOK /\ ProducerLag /\ ConsumerLag
  BY DEF Inv
<1>2. /\ Distance(p_read, read_idx) \in Nat /\ Distance(read_idx, write_idx) \in Nat
      /\ Distance(read_idx, c_write) \in Nat /\ Distance(c_write, write_idx) \in Nat
  BY <1>1, InvDistances
<1>3. cpc # "idle" => Distance(read_idx, c_write) # 0
  BY <1>1, DistanceZero DEF ConsumerLag, TypeOK
<1>4. QED
  BY <1>1, <1>2, <1>3, ModulusPos DEF ProducerLag, ConsumerLag

(* The constructor establishes the invariant.                              *)
LEMMA InitInv == RingInit => Inv
<1> SUFFICES ASSUME RingInit PROVE Inv
  OBVIOUS
<1>1. 0 \in Index /\ 0 \in 0 .. mask
  BY ModulusPos DEF Index
<1>2. TypeOK
  BY <1>1 DEF RingInit, TypeOK
<1>3. Distance(0, 0) = 0
  BY <1>1, DistanceZero
<1>4. QED
  BY <1>2, <1>3, ModulusPos DEF RingInit, Inv, ProducerLag, ConsumerLag, StoredValue, TakenValue

(* Every step of the two threads preserves the invariant.                  *)
LEMMA NextInv == Inv /\ [RingNext]_ring_vars => Inv'
<1> SUFFICES ASSUME Inv, [RingNext]_ring_vars PROVE Inv'
  OBVIOUS
<1>0. TypeOK /\ ProducerLag /\ ConsumerLag /\ StoredValue /\ TakenValue
  BY DEF Inv
<1>1. /\ Distance(p_read, read_idx) \in Nat /\ Distance(read_idx, write_idx) \in Nat
      /\ Distance(read_idx, c_write) \in Nat /\ Distance(c_write, write_idx) \in Nat
      /\ Distance(p_read, write_idx) \in Nat
  BY <1>0, InvDistances
<1>2. /\ Slot(read_idx) \in 0 .. mask /\ Slot(write_idx) \in 0 .. mask
  BY <1>0, SlotType DEF TypeOK
<1>3. /\ Distance(read_idx, write_idx) <= mask
      /\ ppc # "idle" => Distance(read_idx, write_idx) < mask
      /\ cpc # "idle" => Distance(read_idx, write_idx) > 0
  BY InvBounds
<1>4. ASSUME NEW v \in Element, PushLoad(v) PROVE Inv'
  <2>1. PICK r \in Observable(p_read, read_idx) :
           /\ p_read' = r
           /\ IF Full(r)
                 THEN UNCHANGED <<ppc, pval>>
                 ELSE ppc' = "store" /\ pval' = v
    BY <1>4 DEF PushLoad
  <2>2. r \in Index /\ Distance(p_read, r) + Distance(r, read_idx) = Distance(p_read, read_idx)
    BY <1>0, ObservedBetween DEF TypeOK
  <2>3. /\ Distance(p_read, r) \in Nat /\ Distance(r, read_idx) \in Nat
        /\ Distance(r, write_idx) \in Nat
    BY <1>0, <2>2, DistanceType DEF TypeOK
  <2>4. Distance(r, read_idx) + Distance(read_idx, write_idx) <= mask
    BY <1>0, <1>1, <2>2, <2>3, ModulusPos DEF ProducerLag
  <2>5. Distance(r, write_idx) = Distance(r, read_idx) + Distance(read_idx, write_idx)
    <3>1. Distance(r, read_idx) + Distance(read_idx, write_idx) < Modulus
      BY <1>1, <2>3, <2>4, ModulusPos
    <3>2. QED
      BY <1>0, <2>2, <3>1, DistanceAdd DEF TypeOK
  <2>6. UNCHANGED <<read_idx, write_idx, array, cpc, cval, c_write, popped>> /\ ppc = "idle"
    BY <1>4 DEF PushLoad, consumer
  <2>7. TypeOK'
    BY <1>0, <2>1, <2>2, <2>6 DEF TypeOK
  <2>8. ProducerLag'
    <3>1. ppc' # "idle" => Distance(r, write_idx) # mask
      BY <2>1, <2>6 DEF Full
    <3>2. QED
      BY <1>1, <2>1, <2>3, <2>4, <2>5, <2>6, <3>1, ModulusPos DEF ProducerLag
  <2>9. ConsumerLag' /\ TakenValue'
    BY <1>0, <2>6 DEF ConsumerLag, TakenValue
  <2>10. StoredValue'
    BY <2>1, <2>6 DEF StoredValue
  <2>11. QED
    BY <2>7, <2>8, <2>9, <2>10 DEF Inv
<1>5. ASSUME PushStore PROVE Inv'
  <2>1. /\ UNCHANGED <<read_idx, write_idx, pval, p_read, cpc, cval, c_write, popped>>
        /\ array' = [array EXCEPT ![Slot(write_idx)] = pval]
        /\ ppc = "store" /\ ppc' = "publish"
    BY <1>5 DEF PushStore, consumer
  <2>2. TypeOK'
    BY <1>0, <1>2, <2>1 DEF TypeOK
  <2>3. ProducerLag' /\ ConsumerLag'
    BY <1>0, <2>1 DEF ProducerLag, ConsumerLag
  <2>4. StoredValue'
    BY <1>0, <1>2, <2>1 DEF StoredValue, TypeOK
  <2>5. TakenValue'
    <3>1. SUFFICES ASSUME cpc = "release" PROVE cval = array'[Slot(read_idx)]
      BY <2>1 DEF TakenValue
    <3>2. Distance(read_idx, write_idx) > 0 /\ Distance(read_idx, write_idx) < Size
      BY <1>1, <1>3, <2>1, <3>1, SizeAssumption DEF mask
    <3>3. Slot(read_idx) # Slot(write_idx)
      BY <1>0, <3>2, SlotsDiffer DEF TypeOK
    <3>4. QED
      BY <1>0, <1>2, <2>1, <3>1, <3>3 DEF TakenValue, TypeOK
  <2>6. QED
    BY <2>2, <2>3, <2>4, <2>5 DEF Inv
<1>6. ASSUME PushPublish PROVE Inv'
  <2>1. /\ UNCHANGED <<read_idx, array, pval, p_read, cpc, cval, c_write, popped>>
        /\ write_idx' = Succ(write_idx)
        /\ ppc = "publish" /\ ppc' = "idle"
    BY <1>6 DEF PushPublish, consumer
  <2>2. TypeOK'
    BY <1>0, <2>1, DistanceSucc DEF TypeOK
  <2>3. Distance(p_read, write_idx) < mask /\ Distance(c_write, write_idx) < mask
    BY <1>0, <1>1, <1>3, <2>1, ModulusPos DEF ProducerLag, ConsumerLag
  <2>4. \A i \in {p_read, read_idx, c_write} :
            Distance(i, Succ(write_idx)) = Distance(i, write_idx) + 1
    <3>1. \A i \in {p_read, read_idx, c_write} :
              i \in Index /\ Distance(i, write_idx) < Modulus - 1
      BY <1>0, <1>1, <1>3, <2>1, <2>3, ModulusPos DEF TypeOK
    <3>2. QED
      BY <1>0, <3>1, DistanceSucc DEF TypeOK
  <2>5. ProducerLag'
    BY <1>0, <1>1, <2>1, <2>3, <2>4, ModulusPos DEF ProducerLag
  <2>6. ConsumerLag'
    BY <1>0, <1>1, <2>1, <2>4 DEF ConsumerLag
  <2>7. StoredValue' /\ TakenValue'
    BY <1>0, <2>1 DEF StoredValue, TakenValue
  <2>8. QED
    BY <2>2, <2>5, <2>6, <2>7 DEF Inv
<1>7. ASSUME PopLoad PROVE Inv'
  <2>1. PICK w \in Observable(c_write, write_idx) :
           c_write' = w /\ cpc' = IF Empty(w) THEN "idle" ELSE "take"
    BY <1>7 DEF PopLoad
  <2>2. /\ UNCHANGED <<read_idx, write_idx, array, ppc, pval, p_read, cval, popped>>
        /\ cpc = "idle"
    BY <1>7 DEF PopLoad, producer
  <2>3. w \in Index /\ Distance(c_write, w) + Distance(w, write_idx) = Distance(c_write, write_idx)
    BY <1>0, ObservedBetween DEF TypeOK
  <2>4. Distance(c_write, w) \in Nat /\ Distance(w, write_idx) \in Nat
    BY <1>0, <2>3, DistanceType DEF TypeOK
  <2>5. Distance(read_idx, w) = Distance(read_idx, c_write) + Distance(c_write, w)
    <3>1. Distance(read_idx, c_write) + Distance(c_write, w) < Modulus
      BY <1>0, <1>1, <1>3, <2>3, <2>4, ModulusPos DEF ConsumerLag
    <3>2. QED
      BY <1>0, <2>3, <3>1, DistanceAdd DEF TypeOK
  <2>6. TypeOK'
    BY <1>0, <2>1, <2>2, <2>3 DEF TypeOK
  <2>7. ProducerLag' /\ StoredValue'
    BY <1>0, <2>2 DEF ProducerLag, StoredValue
  <2>8. ConsumerLag'
    <3>1. cpc' # "idle" => read_idx # w
      BY <2>1 DEF Empty
    <3>2. QED
      BY <1>0, <1>1, <2>1, <2>2, <2>3, <2>4, <2>5, <3>1 DEF ConsumerLag
  <2>9. TakenValue'
    BY <2>1 DEF TakenValue
  <2>10. QED
    BY <2>6, <2>7, <2>8, <2>9 DEF Inv
<1>8. ASSUME PopTake PROVE Inv'
  <2>1. /\ UNCHANGED <<read_idx, write_idx, array, ppc, pval, p_read, c_write, popped>>
        /\ cval' = array[Slot(read_idx)] /\ cpc = "take" /\ cpc' = "release"
    BY <1>8 DEF PopTake, producer
  <2>2. TypeOK'
    BY <1>0, <1>2, <2>1 DEF TypeOK
  <2>3. ProducerLag' /\ ConsumerLag' /\ StoredValue' /\ TakenValue'
    BY <1>0, <2>1 DEF ProducerLag, ConsumerLag, StoredValue, TakenValue
  <2>4. QED
    BY <2>2, <2>3 DEF Inv
<1>9. ASSUME PopRelease PROVE Inv'
  <2>1. /\ UNCHANGED <<write_idx, array, ppc, pval, p_read, cval, c_write>>
        /\ read_idx' = Succ(read_idx) /\ popped' = <<cval>>
        /\ cpc = "release" /\ cpc' = "idle"
    BY <1>9 DEF PopRelease, producer
  <2>2. Succ(read_idx) \in Index
    BY <1>0, DistanceSucc DEF TypeOK
  <2>3. TypeOK'
    BY <1>0, <2>1, <2>2 DEF TypeOK
  <2>4. Distance(Succ(read_idx), write_idx) = Distance(read_idx, write_idx) - 1
    BY <1>0, <1>3, <2>1, DistanceSucc DEF TypeOK
  <2>5. Distance(Succ(read_idx), c_write) = Distance(read_idx, c_write) - 1
    <3>1. Distance(read_idx, c_write) > 0
      BY <1>0, <1>1, <2>1, DistanceZero DEF ConsumerLag, TypeOK
    <3>2. QED
      BY <1>0, <3>1, DistanceSucc DEF TypeOK
  <2>6. Distance(p_read, Succ(read_idx)) = Distance(p_read, read_idx) + 1
    <3>1. Distance(p_read, read_idx) < Modulus - 1
      BY <1>0, <1>1, <1>3, <2>1, ModulusPos DEF ProducerLag
    <3>2. QED
      BY <1>0, <3>1, DistanceSucc DEF TypeOK
  <2>7. ProducerLag'
    BY <1>0, <1>1, <2>1, <2>4, <2>6 DEF ProducerLag
  <2>8. ConsumerLag'
    BY <1>0, <1>1, <2>1, <2>4, <2>5 DEF ConsumerLag
  <2>9. StoredValue' /\ TakenValue'
    BY <1>0, <2>1 DEF StoredValue, TakenValue
  <2>10. QED
    BY <2>3, <2>7, <2>8, <2>9 DEF Inv
<1>10. ASSUME UNCHANGED ring_vars PROVE Inv'
  BY <1>0, <1>10 DEF Inv, TypeOK, ProducerLag, ConsumerLag, StoredValue, TakenValue,
                     ring_vars, producer, consumer
<1>11. QED
  BY <1>4, <1>5, <1>6, <1>7, <1>8, <1>9, <1>10 DEF RingNext, Push, Pop

(* A function on 1 .. n is a sequence of length n.                         *)
LEMMA FunctionIsSeq ==
    ASSUME NEW S, NEW n \in Nat, NEW f \in [1 .. n -> S]
    PROVE  f \in Seq(S) /\ Len(f) = n
OBVIOUS

(* The ring's contents as a sequence.                                      *)
LEMMA ContentsSeq ==
    ASSUME TypeOK
    PROVE  /\ Contents \in Seq(Element)
           /\ Len(Contents) = Distance(read_idx, write_idx)
           /\ \A k \in 1 .. Distance(read_idx, write_idx) :
                 Contents[k] = array[Slot(read_idx + k - 1)]
<1> DEFINE d == Distance(read_idx, write_idx)
<1>1. d \in Nat
  BY InvDistances
<1> HIDE DEF d
<1>2. \A k \in 1 .. d : array[Slot(read_idx + k - 1)] \in Element
  <2> TAKE k \in 1 .. d
  <2>1. read_idx + k - 1 = read_idx + (k - 1) /\ k - 1 \in Int
    BY <1>1, ModulusPos DEF TypeOK, Index
  <2>2. Slot(read_idx + (k - 1)) \in 0 .. mask
    BY <2>1, SlotMoved DEF TypeOK
  <2>3. QED
    BY <2>1, <2>2 DEF TypeOK
<1>3. Contents = [k \in 1 .. d |-> array[Slot(read_idx + k - 1)]]
  BY DEF Contents, d
<1>4. Contents \in [1 .. d -> Element]
  BY <1>2, <1>3
<1>5. Contents \in Seq(Element) /\ Len(Contents) = d
  BY <1>1, <1>4, FunctionIsSeq
<1>6. QED
  BY <1>3, <1>5 DEF d

(* The oldest element is the one read_idx addresses.                       *)
LEMMA ContentsHead ==
    ASSUME Inv, Distance(read_idx, write_idx) > 0
    PROVE  Contents # <<>> /\ Head(Contents) = array[Slot(read_idx)]
<1>1. TypeOK /\ Distance(read_idx, write_idx) \in Nat
  BY InvDistances DEF Inv
<1>2. Len(Contents) > 0 /\ Contents \in Seq(Element)
  BY <1>1, ContentsSeq
<1>3. Contents[1] = array[Slot(read_idx + 1 - 1)] /\ read_idx + 1 - 1 = read_idx
  BY <1>1, ContentsSeq, ModulusPos DEF TypeOK, Index
<1>4. QED
  BY <1>2, <1>3

(* The inductive invariant holds in every reachable state of the ring.     *)
THEOREM InvHolds == RingSpec => []Inv
<1>1. QED
  BY InitInv, NextInv, PTL DEF RingSpec

(* Every variable of the ring keeps its type.                              *)
THEOREM TypeCorrect == RingSpec => []TypeOK
<1>1. Inv => TypeOK
  BY DEF Inv
<1>2. QED
  BY <1>1, InvHolds, PTL

(* Push and Pop never access the same slot at the same time, for every     *)
(* ring size, counter width and staleness of the counter loads.            *)
THEOREM SlotRaceFree == RingSpec => []NoSlotRace
<1>1. Inv => NoSlotRace
  <2> SUFFICES ASSUME Inv, ppc = "store", cpc = "take" PROVE Slot(write_idx) # Slot(read_idx)
    BY DEF NoSlotRace
  <2>1. TypeOK /\ Distance(read_idx, write_idx) \in Nat
    BY InvDistances DEF Inv
  <2>2. Distance(read_idx, write_idx) > 0 /\ Distance(read_idx, write_idx) < Size
    BY <2>1, InvBounds, SizeAssumption DEF mask
  <2>3. QED
    BY <2>1, <2>2, SlotsDiffer DEF TypeOK
<1>2. QED
  BY <1>1, InvHolds, PTL

(* What Pop has moved out is still the oldest element when it releases the *)
(* slot.                                                                   *)
THEOREM TakenIsOldestHolds == RingSpec => []TakenIsOldest
<1>1. Inv => TakenIsOldest
  <2> SUFFICES ASSUME Inv, cpc = "release" PROVE Contents # <<>> /\ cval = Head(Contents)
    BY DEF TakenIsOldest
  <2>1. Distance(read_idx, write_idx) > 0
    BY InvBounds
  <2>2. QED
    BY <2>1, ContentsHead DEF Inv, TakenValue
<1>2. QED
  BY <1>1, InvHolds, PTL

(* Storing write_idx + 1 appends the value to the contents.                *)
LEMMA PublishAppends ==
    ASSUME Inv, PushPublish
    PROVE  Contents' = Append(Contents, pval) /\ Len(Contents) < mask
<1>1. TypeOK /\ StoredValue /\ Distance(read_idx, write_idx) \in Nat /\ Inv'
  BY InvDistances, NextInv DEF Inv, RingNext, Push
<1>2. /\ UNCHANGED <<read_idx, array, pval>>
      /\ write_idx' = Succ(write_idx) /\ ppc = "publish"
  BY DEF PushPublish
<1>3. Distance(read_idx, write_idx) < mask
  BY <1>2, InvBounds
<1> DEFINE d == Distance(read_idx, write_idx)
<1>4. Distance(read_idx, Succ(write_idx)) = d + 1 /\ Succ(write_idx) \in Index
  BY <1>1, <1>3, ModulusPos, DistanceSucc DEF TypeOK
<1>5. array[Slot(read_idx + d)] = pval
  <2>1. write_idx - read_idx \in Int /\ read_idx \in Int /\ Size \in Nat \ {0}
        /\ write_idx \in Int
    BY <1>1, ModulusPos, SizeAssumption DEF TypeOK, Index
  <2>2. d % Size = (write_idx - read_idx) % Size
    BY <2>1, ModMod, WrapsAssumption DEF Distance, Modulus
  <2>3. d \in Int /\ read_idx + d = d + read_idx
        /\ (write_idx - read_idx) + read_idx = write_idx
    BY <1>1, <2>1
  <2> HIDE DEF d
  <2>4. (d + read_idx) % Size = ((d % Size) + read_idx) % Size
    BY <2>1, <2>3, ModShift
  <2>5. ((write_idx - read_idx) + read_idx) % Size
          = (((write_idx - read_idx) % Size) + read_idx) % Size
    BY <2>1, ModShift
  <2>6. Slot(read_idx + d) = Slot(write_idx)
    BY <2>2, <2>3, <2>4, <2>5 DEF Slot
  <2>7. QED
    BY <1>1, <1>2, <2>6 DEF StoredValue
<1>6. /\ Contents \in Seq(Element) /\ Len(Contents) = d
      /\ \A k \in 1 .. d : Contents[k] = array[Slot(read_idx + k - 1)]
  BY <1>1, ContentsSeq
<1>7. TypeOK'
  BY <1>1 DEF Inv
<1>8. /\ Contents' \in Seq(Element) /\ Len(Contents') = d + 1
      /\ \A k \in 1 .. (d + 1) : Contents'[k] = array[Slot(read_idx + k - 1)]
  <2>1. Contents' = [k \in 1 .. (d + 1) |-> array[Slot(read_idx + k - 1)]]
    BY <1>2, <1>4 DEF Contents
  <2>2. \A k \in 1 .. (d + 1) : array[Slot(read_idx + k - 1)] \in Element
    <3> TAKE k \in 1 .. (d + 1)
    <3>1. read_idx + k - 1 = read_idx + (k - 1) /\ k - 1 \in Int
      BY <1>1, ModulusPos DEF TypeOK, Index
    <3>2. Slot(read_idx + (k - 1)) \in 0 .. mask
      BY <1>1, <3>1, SlotMoved DEF TypeOK
    <3>3. QED
      BY <1>1, <3>1, <3>2 DEF TypeOK
  <2>3. d + 1 \in Nat
    BY <1>1
  <2> HIDE DEF d
  <2>4. Contents' \in [1 .. (d + 1) -> Element]
    BY <2>1, <2>2
  <2>5. Contents' \in Seq(Element) /\ Len(Contents') = d + 1
    BY <2>3, <2>4, FunctionIsSeq
  <2>6. QED
    BY <2>1, <2>5
<1>9. pval \in Element /\ d \in Nat
  BY <1>1 DEF TypeOK
<1> DEFINE t == Append(Contents, pval)
<1>10. /\ t \in Seq(Element) /\ Len(t) = d + 1
       /\ \A i \in 1 .. d : t[i] = Contents[i]
       /\ t[d + 1] = pval
  BY <1>6, <1>9, AppendProperties
<1>11. \A k \in 1 .. (d + 1) : Contents'[k] = t[k]
  <2> TAKE k \in 1 .. (d + 1)
  <2>1. CASE k \in 1 .. d
    BY <1>6, <1>8, <1>10, <2>1
  <2>2. CASE k = d + 1
    <3>1. read_idx + k - 1 = read_idx + d
      BY <1>1, <1>9, <2>2, ModulusPos DEF TypeOK, Index
    <3>2. QED
      BY <1>5, <1>8, <1>10, <2>2, <3>1
  <2>3. k \in 1 .. d \/ k = d + 1
    <3> HIDE DEF d
    <3>1. QED
      BY <1>9
  <2>4. QED
    BY <2>1, <2>2, <2>3
<1>12. Contents' = t
  <2> HIDE DEF t, d
  <2>1. QED
    BY <1>8, <1>10, <1>11, SeqEqual
<1>13. QED
  BY <1>3, <1>6, <1>12

(* Storing read_idx + 1 removes the oldest element.                        *)
LEMMA ReleaseRemoves ==
    ASSUME Inv, PopRelease
    PROVE  /\ Contents # <<>> /\ Contents' = Tail(Contents)
           /\ cval = Head(Contents)
<1>1. TypeOK /\ TakenValue /\ Distance(read_idx, write_idx) \in Nat /\ Inv'
  BY InvDistances, NextInv DEF Inv, RingNext, Pop
<1>2. /\ UNCHANGED <<write_idx, array>> /\ read_idx' = Succ(read_idx) /\ cpc = "release"
  BY DEF PopRelease
<1>3. Distance(read_idx, write_idx) > 0
  BY <1>2, InvBounds
<1> DEFINE d == Distance(read_idx, write_idx)
<1>4. Distance(Succ(read_idx), write_idx) = d - 1
  BY <1>1, <1>3, DistanceSucc DEF TypeOK
<1>5. Contents # <<>> /\ cval = Head(Contents)
  BY <1>1, <1>2, <1>3, ContentsHead DEF TakenValue
<1>6. /\ Contents \in Seq(Element) /\ Len(Contents) = d
      /\ \A k \in 1 .. d : Contents[k] = array[Slot(read_idx + k - 1)]
  BY <1>1, ContentsSeq
<1>7. /\ Contents' \in Seq(Element) /\ Len(Contents') = d - 1
      /\ \A k \in 1 .. (d - 1) : Contents'[k] = array[Slot(Succ(read_idx) + k - 1)]
  <2>1. Contents' = [k \in 1 .. (d - 1) |-> array[Slot(Succ(read_idx) + k - 1)]]
    BY <1>2, <1>4 DEF Contents
  <2>2. \A k \in 1 .. (d - 1) : array[Slot(Succ(read_idx) + k - 1)] \in Element
    <3> TAKE k \in 1 .. (d - 1)
    <3>0. Succ(read_idx) \in Index
      BY <1>1, DistanceSucc DEF TypeOK
    <3>1. Succ(read_idx) + k - 1 = Succ(read_idx) + (k - 1) /\ k - 1 \in Int
      BY <1>1, <3>0, ModulusPos DEF Index
    <3>2. Slot(Succ(read_idx) + (k - 1)) \in 0 .. mask
      BY <3>0, <3>1, SlotMoved
    <3>3. QED
      BY <1>1, <3>1, <3>2 DEF TypeOK
  <2>3. d - 1 \in Nat
    BY <1>1, <1>3
  <2> HIDE DEF d
  <2>4. Contents' \in [1 .. (d - 1) -> Element]
    BY <2>1, <2>2
  <2>5. Contents' \in Seq(Element) /\ Len(Contents') = d - 1
    BY <2>3, <2>4, FunctionIsSeq
  <2>6. QED
    BY <2>1, <2>5
<1> DEFINE t == Tail(Contents)
<1>8. t \in Seq(Element) /\ Len(t) = d - 1 /\ \A i \in 1 .. (d - 1) : t[i] = Contents[i + 1]
  BY <1>5, <1>6, HeadTailProperties
<1>9. \A k \in 1 .. (d - 1) : Contents'[k] = t[k]
  <2> TAKE k \in 1 .. (d - 1)
  <2>1. k + 1 \in 1 .. d /\ k - 1 \in Int /\ read_idx \in Int
    BY <1>1, <1>3, ModulusPos DEF TypeOK, Index
  <2>2. /\ Succ(read_idx) + k - 1 = ((read_idx + 1) % Modulus) + (k - 1)
        /\ read_idx + (k + 1) - 1 = read_idx + 1 + (k - 1)
    <3>1. Succ(read_idx) \in Int
      BY <1>1, DistanceSucc, ModulusPos DEF TypeOK, Index
    <3>2. QED
      BY <2>1, <3>1 DEF Succ
  <2>3. Slot(((read_idx + 1) % Modulus) + (k - 1)) = Slot(read_idx + 1 + (k - 1))
    BY <1>1, <2>1, SlotMoved DEF TypeOK
  <2> HIDE DEF t, d
  <2>4. t[k] = Contents[k + 1]
    BY <1>8
  <2>5. Contents[k + 1] = array[Slot(read_idx + (k + 1) - 1)]
    BY <1>6, <2>1
  <2>6. Contents'[k] = array[Slot(Succ(read_idx) + k - 1)]
    BY <1>7
  <2>7. QED
    BY <2>2, <2>3, <2>4, <2>5, <2>6
<1>10. Contents' = t
  <2>1. Len(Contents') = Len(t)
    BY <1>7, <1>8
  <2> HIDE DEF t, d
  <2>2. QED
    BY <1>7, <1>8, <1>9, <2>1, SeqEqual
<1>11. QED
  BY <1>5, <1>10

(* The ring implements the bounded FIFO: for every ring size, counter      *)
(* width and set of elements, Pop returns what was pushed, in order.       *)
THEOREM RingImplementsFifo == RingSpec => ImplementsFifo
<1>1. RingInit => Fifo!Init
  <2> SUFFICES ASSUME RingInit PROVE Contents = <<>> /\ popped = <<>>
    BY DEF Fifo!Init
  <2>1. TypeOK /\ Distance(read_idx, write_idx) = 0
    BY InitInv, DistanceZero DEF Inv, TypeOK, RingInit
  <2>2. Contents \in Seq(Element) /\ Len(Contents) = 0
    BY <2>1, ContentsSeq
  <2>3. QED
    BY <2>2, EmptySeq DEF RingInit
<1>2. Inv /\ [RingNext]_ring_vars => [Fifo!Next]_<<Contents, popped>>
  <2> SUFFICES ASSUME Inv, [RingNext]_ring_vars PROVE [Fifo!Next]_<<Contents, popped>>
    OBVIOUS
  <2>0. TypeOK
    BY DEF Inv
  <2>1. CASE PushPublish
    <3>1. Contents' = Append(Contents, pval) /\ Len(Contents) < mask
      BY <2>1, PublishAppends
    <3>2. popped' = popped /\ pval \in Element
      BY <2>0, <2>1 DEF PushPublish, TypeOK
    <3>3. QED
      BY <3>1, <3>2 DEF Fifo!Next, Fifo!Push
  <2>2. CASE PopRelease
    <3>1. Contents # <<>> /\ Contents' = Tail(Contents) /\ cval = Head(Contents)
      BY <2>2, ReleaseRemoves
    <3>2. popped' = <<cval>>
      BY <2>2 DEF PopRelease
    <3>3. QED
      BY <3>1, <3>2 DEF Fifo!Next, Fifo!Pop
  <2>3. CASE PushStore
    <3>1. /\ UNCHANGED <<read_idx, write_idx, popped>> /\ ppc = "store"
          /\ array' = [array EXCEPT ![Slot(write_idx)] = pval]
      BY <2>3 DEF PushStore
    <3> DEFINE d == Distance(read_idx, write_idx)
    <3>2. d \in Nat /\ d < mask
      BY <2>0, <3>1, InvBounds, InvDistances
    <3>3. \A k \in 1 .. d : array'[Slot(read_idx + k - 1)] = array[Slot(read_idx + k - 1)]
      <4> TAKE k \in 1 .. d
      <4> DEFINE o == (read_idx + (k - 1)) % Modulus
      <4>1. k - 1 \in 0 .. d /\ k - 1 \in Int /\ k - 1 < d
            /\ read_idx + k - 1 = read_idx + (k - 1) /\ read_idx + (k - 1) \in Int
        BY <2>0, <3>2, ModulusPos DEF TypeOK, Index
      <4>2. k - 1 \in Index
        BY <3>2, <4>1, ModulusPos DEF Index
      <4>3. o \in Observable(read_idx, write_idx)
        BY <4>1 DEF Observable
      <4>4. o \in Index /\ Distance(read_idx, o) + Distance(o, write_idx) = d
        BY <2>0, <4>3, ObservedBetween DEF TypeOK
      <4>5. Distance(read_idx, o) = k - 1
        BY <2>0, <4>2, DistanceMoved DEF TypeOK
      <4>6. Distance(o, write_idx) \in Nat
        BY <2>0, <4>4, DistanceType DEF TypeOK
      <4>7. Distance(o, write_idx) > 0 /\ Distance(o, write_idx) < Size
        <5> HIDE DEF o
        <5>1. QED
          BY <3>2, <4>1, <4>4, <4>5, <4>6, SizeAssumption DEF mask
      <4>8. Slot(o) # Slot(write_idx)
        BY <2>0, <4>4, <4>7, SlotsDiffer DEF TypeOK
      <4>9. Slot(o) = Slot(read_idx + k - 1)
        BY <4>1, ModMod, SizeAssumption, WrapsAssumption DEF Slot, Modulus
      <4>10. Slot(write_idx) \in 0 .. mask /\ Slot(o) \in 0 .. mask
        BY <2>0, <4>4, SlotType DEF TypeOK
      <4>11. QED
        BY <2>0, <3>1, <4>8, <4>9, <4>10 DEF TypeOK
    <3>4. Contents' = Contents
      <4>1. Contents' = [k \in 1 .. d |-> array'[Slot(read_idx + k - 1)]]
        BY <3>1 DEF Contents
      <4>2. QED
        BY <3>3, <4>1 DEF Contents
    <3>5. QED
      BY <3>1, <3>4
  <2>4. CASE (\E v \in Element : PushLoad(v)) \/ PopLoad \/ PopTake \/ UNCHANGED ring_vars
    <3>1. UNCHANGED <<read_idx, write_idx, array, popped>>
      BY <2>4 DEF PushLoad, PopLoad, PopTake, ring_vars
    <3>2. QED
      BY <3>1 DEF Contents
  <2>5. QED
    BY <2>1, <2>2, <2>3, <2>4 DEF RingNext, Push, Pop
<1>3. QED
  BY <1>1, <1>2, InvHolds, PTL DEF RingSpec, ImplementsFifo, Fifo!Spec
=============================================================================
