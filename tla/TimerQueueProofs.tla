-------------------------- MODULE TimerQueueProofs --------------------------
(***************************************************************************)
(* For any set of timers, any number of slots, any interval and any        *)
(* requests: the wheel and its timers agree, no deadline is missed, and    *)
(* the wheel implements the timer service.                                 *)
(*                                                                         *)
(* The wheel is consistent by itself: erase and insert keep a slot's free  *)
(* list the list of its erased positions.  The deadlines need more.  While *)
(* a slot is scanned its timers may be overdue, but only those that the    *)
(* scan has yet to visit; the others are due at last_update_time or later. *)
(***************************************************************************)
EXTENDS TimerQueue, TLAPS

(* A quotient and a remainder that fit are the ones.                       *)
LEMMA DivModUnique ==
    ASSUME NEW a \in Int, NEW n \in Nat \ {0},
           NEW q \in Int, NEW r \in 0 .. (n - 1), a = n * q + r
    PROVE  a \div n = q /\ a % n = r
OBVIOUS

(* They exist.                                                             *)
LEMMA DivModExists ==
    ASSUME NEW a \in Int, NEW n \in Nat \ {0}
    PROVE  \E q \in Int : \E r \in 0 .. (n - 1) : q = a \div n /\ r = a % n /\ a = n * q + r
<1>1. a \div n \in Int /\ a % n \in 0 .. (n - 1) /\ a = n * (a \div n) + (a % n)
  OBVIOUS
<1>2. QED
  BY <1>1

(* Their types.                                                            *)
LEMMA DivModType ==
    ASSUME NEW a \in Int, NEW n \in Nat \ {0}
    PROVE  a \div n \in Int /\ a % n \in 0 .. (n - 1)
OBVIOUS

(* Multiplication distributes.                                             *)
LEMMA Distribute ==
    ASSUME NEW n \in Int, NEW q \in Int, NEW k \in Int
    PROVE  n * (q + k) = n * q + k * n /\ n * q \in Int /\ k * n \in Int
OBVIOUS

(* Adding k times n moves the quotient by k and keeps the remainder.       *)
LEMMA AddMultiple ==
    ASSUME NEW a \in Int, NEW n \in Nat \ {0}, NEW k \in Int
    PROVE  (a + k * n) \div n = (a \div n) + k /\ (a + k * n) % n = a % n
<1>1. PICK q \in Int, r \in 0 .. (n - 1) : q = a \div n /\ r = a % n /\ a = n * q + r
  BY DivModExists
<1>2. n * (q + k) = n * q + k * n /\ n * q \in Int /\ k * n \in Int
  BY Distribute
<1>3. a + k * n = n * (q + k) + r
  BY <1>1, <1>2
<1>4. a + k * n \in Int /\ q + k \in Int
  BY <1>1, <1>2
<1>5. (a + k * n) \div n = q + k /\ (a + k * n) % n = r
  BY <1>1, <1>3, <1>4, DivModUnique
<1>6. QED
  BY <1>1, <1>5

(* For one n more or less.                                                 *)
LEMMA AddOne ==
    ASSUME NEW a \in Int, NEW n \in Nat \ {0}
    PROVE  (a + n) % n = a % n /\ (a - n) \div n = (a \div n) - 1
<1>1. PICK k \in Int, j \in Int : k = 1 /\ j = -1
  OBVIOUS
<1>2. k * n = n /\ a + j * n = a - n
  BY <1>1
<1>3. (a + k * n) % n = a % n /\ (a + j * n) \div n = (a \div n) + j
  BY AddMultiple
<1>4. a \div n \in Int
  BY DivModType
<1>5. QED
  BY <1>1, <1>2, <1>3, <1>4

(* Reducing a summand first changes nothing.                               *)
LEMMA ReduceFirst ==
    ASSUME NEW a \in Int, NEW b \in Int, NEW n \in Nat \ {0}
    PROVE  ((a % n) + b) % n = (a + b) % n
<1>1. PICK q \in Int, r \in 0 .. (n - 1) : q = a \div n /\ r = a % n /\ a = n * q + r
  BY DivModExists
<1>2. n * q \in Int /\ n * q = q * n
  BY <1>1
<1>3. r + b \in Int /\ a + b = (r + b) + q * n
  BY <1>1, <1>2
<1>4. ((r + b) + q * n) % n = (r + b) % n
  BY <1>1, <1>3, AddMultiple
<1>5. QED
  BY <1>1, <1>3, <1>4

(* A whole circle more, and the slot is the same: what ScheduleTimer adds  *)
(* so that the dividend is not negative.                                   *)
LEMMA CircleAdded ==
    ASSUME NEW c \in Slots, NEW x \in Int
    PROVE  (c + ((x + CircleTime) \div Interval)) % SlotSize = (c + (x \div Interval)) % SlotSize
<1>1. SlotSize \in Nat \ {0} /\ Interval \in Nat \ {0} /\ c \in Int
  BY SlotAssumption DEF Slots
<1>2. (x + CircleTime) \div Interval = (x \div Interval) + SlotSize
  BY <1>1, AddMultiple DEF CircleTime
<1> DEFINE q == x \div Interval
<1>3. q \in Int
  BY <1>1, DivModType
<1> HIDE DEF q
<1>4. c + (q + SlotSize) = (c + q) + SlotSize /\ c + q \in Int
  BY <1>1, <1>3
<1>5. ((c + q) + SlotSize) % SlotSize = (c + q) % SlotSize
  BY <1>1, <1>4, AddOne
<1>6. QED
  BY <1>2, <1>4, <1>5 DEF q

(* One frame on, one slot on: the slot of a deadline is the same.          *)
LEMMA FrameMoved ==
    ASSUME NEW c \in Slots, NEW x \in Int
    PROVE  /\ (NextSlot(c) + ((x - Interval) \div Interval)) % SlotSize
                  = (c + (x \div Interval)) % SlotSize
           /\ NextSlot(c) \in Slots
<1>1. SlotSize \in Nat \ {0} /\ Interval \in Nat \ {0} /\ c \in Int /\ c + 1 \in Int
  BY SlotAssumption DEF Slots
<1> DEFINE q == x \div Interval
<1>2. q \in Int
  BY <1>1, DivModType
<1>3. (x - Interval) \div Interval = q - 1
  BY <1>1, AddOne
<1> HIDE DEF q
<1>4. q - 1 \in Int
  BY <1>2
<1>5. (((c + 1) % SlotSize) + (q - 1)) % SlotSize = ((c + 1) + (q - 1)) % SlotSize
  <2> DEFINE b == q - 1
             a == c + 1
  <2>1. a \in Int /\ b \in Int
    BY <1>1, <1>4
  <2> HIDE DEF a, b
  <2>2. ((a % SlotSize) + b) % SlotSize = (a + b) % SlotSize
    BY <1>1, <2>1, ReduceFirst
  <2>3. QED
    BY <2>2 DEF a, b
<1>6. (c + 1) + (q - 1) = c + q
  BY <1>1, <1>2
<1>7. NextSlot(c) \in Slots
  BY <1>1, DivModType DEF NextSlot, Slots
<1>8. QED
  BY <1>3, <1>5, <1>6, <1>7 DEF NextSlot, q

(* A deadline within this frame is in the current slot.                    *)
LEMMA ThisFrame ==
    ASSUME NEW c \in Slots, NEW x \in Int, 0 <= x, x < Interval
    PROVE  (c + (x \div Interval)) % SlotSize = c
<1>1. SlotSize \in Nat \ {0} /\ Interval \in Nat \ {0} /\ c \in 0 .. (SlotSize - 1)
  BY SlotAssumption DEF Slots
<1>2. x \div Interval = 0
  <2>1. x \in 0 .. (Interval - 1) /\ x = Interval * 0 + x
    BY <1>1
  <2>2. QED
    BY <1>1, <2>1, DivModUnique
<1>3. c % SlotSize = c /\ c + 0 = c
  <2>1. c = SlotSize * 0 + c /\ c \in Int
    BY <1>1
  <2>2. QED
    BY <1>1, <2>1, DivModUnique
<1>4. QED
  BY <1>2, <1>3
-----------------------------------------------------------------------------
(* The free list f has the erased positions of the list l, each once.      *)
FreeOK(l, f) ==
    /\ \A i \in DOMAIN f : f[i] \in DOMAIN l /\ l[f[i]] = Deleted
    /\ \A i, j \in DOMAIN f : f[i] = f[j] => i = j
    /\ \A p \in DOMAIN l : l[p] = Deleted => \E i \in DOMAIN f : f[i] = p

(* unordered_list::erase marks a position and remembers it.                *)
LEMMA EraseKeeps ==
    ASSUME NEW l \in Seq(Timer \cup {Deleted}), NEW f \in Seq(Nat \ {0}), FreeOK(l, f),
           NEW p \in DOMAIN l, l[p] # Deleted
    PROVE  /\ EraseList(l, p) \in Seq(Timer \cup {Deleted})
           /\ EraseFree(f, p) \in Seq(Nat \ {0})
           /\ DOMAIN EraseList(l, p) = DOMAIN l
           /\ \A q \in DOMAIN l : EraseList(l, p)[q] = IF q = p THEN Deleted ELSE l[q]
           /\ FreeOK(EraseList(l, p), EraseFree(f, p))
<1> DEFINE m == EraseList(l, p)
           g == EraseFree(f, p)
<1>1. /\ m \in Seq(Timer \cup {Deleted}) /\ DOMAIN m = DOMAIN l
      /\ \A q \in DOMAIN l : m[q] = IF q = p THEN Deleted ELSE l[q]
  BY DEF EraseList
<1>2. p \in Nat \ {0}
  OBVIOUS
<1>3. /\ g \in Seq(Nat \ {0}) /\ DOMAIN g = DOMAIN f \cup {Len(f) + 1} /\ Len(f) + 1 \notin DOMAIN f
      /\ \A i \in DOMAIN f : g[i] = f[i]
      /\ g[Len(f) + 1] = p
  BY <1>2 DEF EraseFree
<1> HIDE DEF m, g
<1>4. \A i \in DOMAIN f : f[i] # p
  BY DEF FreeOK
<1>5. \A i \in DOMAIN g : g[i] \in DOMAIN m /\ m[g[i]] = Deleted
  BY <1>1, <1>3 DEF FreeOK
<1>6. \A i, j \in DOMAIN g : g[i] = g[j] => i = j
  BY <1>3, <1>4 DEF FreeOK
<1>7. \A q \in DOMAIN m : m[q] = Deleted => \E i \in DOMAIN g : g[i] = q
  BY <1>1, <1>3 DEF FreeOK
<1>8. QED
  BY <1>1, <1>3, <1>5, <1>6, <1>7 DEF FreeOK, m, g

(* unordered_list::insert takes an erased position, or a new one.          *)
LEMMA InsertKeeps ==
    ASSUME NEW l \in Seq(Timer \cup {Deleted}), NEW f \in Seq(Nat \ {0}), FreeOK(l, f),
           NEW t \in Timer
    PROVE  /\ InsertList(l, f, t) \in Seq(Timer \cup {Deleted})
           /\ InsertFree(f) \in Seq(Nat \ {0})
           /\ InsertPos(l, f) \in Nat \ {0}
           /\ DOMAIN InsertList(l, f, t) = DOMAIN l \cup {InsertPos(l, f)}
           /\ InsertList(l, f, t)[InsertPos(l, f)] = t
           /\ \A q \in DOMAIN l : q # InsertPos(l, f) => InsertList(l, f, t)[q] = l[q]
           /\ InsertPos(l, f) \in DOMAIN l => l[InsertPos(l, f)] = Deleted
           /\ FreeOK(InsertList(l, f, t), InsertFree(f))
<1>0. t # Deleted
  BY DeletedAssumption
<1>1. CASE f = <<>>
  <2> DEFINE m == Append(l, t)
             p == Len(l) + 1
  <2>1. InsertList(l, f, t) = m /\ InsertPos(l, f) = p /\ InsertFree(f) = f
    BY <1>1 DEF InsertList, InsertPos, InsertFree
  <2>2. /\ m \in Seq(Timer \cup {Deleted}) /\ p \in Nat \ {0} /\ p \notin DOMAIN l
        /\ DOMAIN m = DOMAIN l \cup {p} /\ m[p] = t /\ \A q \in DOMAIN l : m[q] = l[q]
    OBVIOUS
  <2>3. DOMAIN f = {}
    BY <1>1
  <2> HIDE DEF m, p
  <2>4. FreeOK(m, f)
    BY <1>0, <2>2, <2>3 DEF FreeOK
  <2>5. QED
    BY <2>1, <2>2, <2>4
<1>2. CASE f # <<>>
  <2> DEFINE n == Len(f)
             p == f[n]
             m == [l EXCEPT ![p] = t]
             g == SubSeq(f, 1, n - 1)
  <2>1. InsertList(l, f, t) = m /\ InsertPos(l, f) = p /\ InsertFree(f) = g
    BY <1>2 DEF InsertList, InsertPos, InsertFree
  <2>2. n \in Nat \ {0} /\ n \in DOMAIN f /\ DOMAIN f = 1 .. n
    BY <1>2
  <2>3. p \in DOMAIN l /\ l[p] = Deleted /\ p \in Nat \ {0}
    BY <2>2 DEF FreeOK
  <2>4. /\ g \in Seq(Nat \ {0}) /\ DOMAIN g = DOMAIN f \ {n}
        /\ \A i \in DOMAIN g : g[i] = f[i]
    BY <2>2
  <2>5. p = f[n]
    OBVIOUS
  <2> HIDE DEF p, g, n
  <2>6. /\ m \in Seq(Timer \cup {Deleted}) /\ DOMAIN m = DOMAIN l
        /\ m[p] = t /\ \A q \in DOMAIN l : q # p => m[q] = l[q]
    BY <2>3
  <2> HIDE DEF m
  <2>7. \A i \in DOMAIN g : g[i] \in DOMAIN m /\ m[g[i]] = Deleted
    <3> SUFFICES ASSUME NEW i \in DOMAIN g PROVE g[i] \in DOMAIN m /\ m[g[i]] = Deleted
      OBVIOUS
    <3>1. i \in DOMAIN f /\ i # n /\ g[i] = f[i]
      BY <2>4
    <3>2. f[i] # p /\ f[i] \in DOMAIN l /\ l[f[i]] = Deleted
      BY <2>2, <2>5, <3>1 DEF FreeOK
    <3>3. QED
      BY <2>6, <3>1, <3>2
  <2>8. \A i, j \in DOMAIN g : g[i] = g[j] => i = j
    BY <2>4 DEF FreeOK
  <2>9. \A q \in DOMAIN m : m[q] = Deleted => \E i \in DOMAIN g : g[i] = q
    <3> SUFFICES ASSUME NEW q \in DOMAIN m, m[q] = Deleted PROVE \E i \in DOMAIN g : g[i] = q
      OBVIOUS
    <3>1. q # p /\ q \in DOMAIN l /\ l[q] = Deleted
      BY <1>0, <2>6
    <3>2. PICK i \in DOMAIN f : f[i] = q
      BY <3>1 DEF FreeOK
    <3>3. i # n
      BY <2>5, <3>1, <3>2
    <3>4. QED
      BY <2>4, <3>2, <3>3
  <2>10. FreeOK(m, g)
    BY <2>7, <2>8, <2>9 DEF FreeOK
  <2>11. QED
    BY <2>1, <2>3, <2>4, <2>6, <2>10
<1>3. QED
  BY <1>1, <1>2
-----------------------------------------------------------------------------
(* The wheel L with free lists F and the places S and P of its timers A.   *)
Wheel(L, F, A, S, P) ==
    /\ L \in [Slots -> Seq(Timer \cup {Deleted})] /\ F \in [Slots -> Seq(Nat \ {0})]
    /\ A \subseteq Timer /\ S \in [Timer -> Slots] /\ P \in [Timer -> Nat]
    /\ \A t \in A : P[t] \in DOMAIN L[S[t]] /\ L[S[t]][P[t]] = t
    /\ \A s \in Slots : \A p \in DOMAIN L[s] :
          L[s][p] # Deleted => L[s][p] \in A /\ S[L[s][p]] = s /\ P[L[s][p]] = p
    /\ \A s \in Slots : FreeOK(L[s], F[s])

(* Taking a timer of the wheel out of its slot leaves a wheel.             *)
LEMMA WheelErase ==
    ASSUME NEW L, NEW F, NEW A, NEW S, NEW P, Wheel(L, F, A, S, P), NEW t \in A
    PROVE  Wheel([L EXCEPT ![S[t]] = EraseList(L[S[t]], P[t])],
                 [F EXCEPT ![S[t]] = EraseFree(F[S[t]], P[t])], A \ {t}, S, P)
<1> DEFINE s == S[t]
           p == P[t]
           l == EraseList(L[s], p)
           f == EraseFree(F[s], p)
           L2 == [L EXCEPT ![s] = l]
           F2 == [F EXCEPT ![s] = f]
<1>1. /\ t \in Timer /\ t # Deleted /\ s \in Slots /\ p \in Nat
      /\ L[s] \in Seq(Timer \cup {Deleted}) /\ F[s] \in Seq(Nat \ {0}) /\ FreeOK(L[s], F[s])
      /\ p \in DOMAIN L[s] /\ L[s][p] = t
  BY DeletedAssumption DEF Wheel
<1> HIDE DEF s, p
<1>2. /\ l \in Seq(Timer \cup {Deleted}) /\ f \in Seq(Nat \ {0}) /\ DOMAIN l = DOMAIN L[s]
      /\ \A q \in DOMAIN L[s] : l[q] = IF q = p THEN Deleted ELSE L[s][q]
      /\ FreeOK(l, f)
  BY <1>1, EraseKeeps
<1> HIDE DEF l, f
<1>3. /\ L2 \in [Slots -> Seq(Timer \cup {Deleted})] /\ F2 \in [Slots -> Seq(Nat \ {0})]
      /\ L2[s] = l /\ F2[s] = f
      /\ \A x \in Slots \ {s} : L2[x] = L[x] /\ F2[x] = F[x]
  BY <1>1, <1>2 DEF Wheel
<1> HIDE DEF L2, F2
<1>4. ASSUME NEW u \in A \ {t}
      PROVE  P[u] \in DOMAIN L2[S[u]] /\ L2[S[u]][P[u]] = u
  <2>1. S[u] \in Slots /\ P[u] \in DOMAIN L[S[u]] /\ L[S[u]][P[u]] = u
    BY <1>4 DEF Wheel
  <2>2. CASE S[u] = s
    <3>1. P[u] # p
      BY <1>1, <2>1, <2>2
    <3>2. QED
      BY <1>2, <1>3, <2>1, <2>2, <3>1
  <2>3. QED
    BY <1>3, <2>1, <2>2
<1>5. ASSUME NEW x \in Slots, NEW q \in DOMAIN L2[x], L2[x][q] # Deleted
      PROVE  L2[x][q] \in A \ {t} /\ S[L2[x][q]] = x /\ P[L2[x][q]] = q
  <2>1. q \in DOMAIN L[x] /\ L2[x][q] = L[x][q] /\ (x = s => q # p)
    BY <1>1, <1>2, <1>3, <1>5
  <2>2. L[x][q] \in A /\ S[L[x][q]] = x /\ P[L[x][q]] = q
    BY <1>5, <2>1 DEF Wheel
  <2>3. L[x][q] # t
    BY <2>1, <2>2 DEF s, p
  <2>4. QED
    BY <2>1, <2>2, <2>3
<1>6. \A x \in Slots : FreeOK(L2[x], F2[x])
  BY <1>2, <1>3 DEF Wheel
<1>7. A \ {t} \subseteq Timer /\ S \in [Timer -> Slots] /\ P \in [Timer -> Nat]
  BY DEF Wheel
<1>8. Wheel(L2, F2, A \ {t}, S, P)
  BY <1>3, <1>4, <1>5, <1>6, <1>7 DEF Wheel
<1>9. QED
  BY <1>8 DEF L2, F2, l, f, s, p

(* Putting a timer into a slot makes a wheel with that timer.              *)
LEMMA WheelInsert ==
    ASSUME NEW L, NEW F, NEW A, NEW S, NEW P, Wheel(L, F, A, S, P),
           NEW t \in Timer, t \notin A, NEW s \in Slots
    PROVE  Wheel([L EXCEPT ![s] = InsertList(L[s], F[s], t)],
                 [F EXCEPT ![s] = InsertFree(F[s])], A \cup {t},
                 [S EXCEPT ![t] = s], [P EXCEPT ![t] = InsertPos(L[s], F[s])])
<1> DEFINE p == InsertPos(L[s], F[s])
           l == InsertList(L[s], F[s], t)
           f == InsertFree(F[s])
           L2 == [L EXCEPT ![s] = l]
           F2 == [F EXCEPT ![s] = f]
           S2 == [S EXCEPT ![t] = s]
           P2 == [P EXCEPT ![t] = p]
<1>1. /\ t # Deleted
      /\ L[s] \in Seq(Timer \cup {Deleted}) /\ F[s] \in Seq(Nat \ {0}) /\ FreeOK(L[s], F[s])
  BY DeletedAssumption DEF Wheel
<1>2. /\ l \in Seq(Timer \cup {Deleted}) /\ f \in Seq(Nat \ {0}) /\ p \in Nat \ {0}
      /\ DOMAIN l = DOMAIN L[s] \cup {p} /\ l[p] = t
      /\ \A q \in DOMAIN L[s] : q # p => l[q] = L[s][q]
      /\ p \in DOMAIN L[s] => L[s][p] = Deleted
      /\ FreeOK(l, f)
  <2> DEFINE old == L[s]
             holes == F[s]
  <2>1. old \in Seq(Timer \cup {Deleted}) /\ holes \in Seq(Nat \ {0}) /\ FreeOK(old, holes)
    BY <1>1
  <2> HIDE DEF old, holes
  <2>2. /\ InsertList(old, holes, t) \in Seq(Timer \cup {Deleted})
        /\ InsertFree(holes) \in Seq(Nat \ {0})
        /\ InsertPos(old, holes) \in Nat \ {0}
        /\ DOMAIN InsertList(old, holes, t) = DOMAIN old \cup {InsertPos(old, holes)}
        /\ InsertList(old, holes, t)[InsertPos(old, holes)] = t
        /\ \A q \in DOMAIN old : q # InsertPos(old, holes) => InsertList(old, holes, t)[q] = old[q]
        /\ InsertPos(old, holes) \in DOMAIN old => old[InsertPos(old, holes)] = Deleted
        /\ FreeOK(InsertList(old, holes, t), InsertFree(holes))
    BY <2>1, InsertKeeps
  <2>3. QED
    BY <2>2 DEF old, holes
<1> HIDE DEF p, l, f
<1>3. /\ L2 \in [Slots -> Seq(Timer \cup {Deleted})] /\ F2 \in [Slots -> Seq(Nat \ {0})]
      /\ L2[s] = l /\ F2[s] = f
      /\ \A x \in Slots \ {s} : L2[x] = L[x] /\ F2[x] = F[x]
  BY <1>1, <1>2 DEF Wheel
<1>4. /\ S2 \in [Timer -> Slots] /\ P2 \in [Timer -> Nat]
      /\ S2[t] = s /\ P2[t] = p
      /\ \A u \in Timer \ {t} : S2[u] = S[u] /\ P2[u] = P[u]
  BY <1>2 DEF Wheel
<1> HIDE DEF L2, F2, S2, P2
<1>5. ASSUME NEW u \in A
      PROVE  P2[u] \in DOMAIN L2[S2[u]] /\ L2[S2[u]][P2[u]] = u
  <2>1. /\ u \in Timer /\ u # t /\ u # Deleted
        /\ S[u] \in Slots /\ P[u] \in DOMAIN L[S[u]] /\ L[S[u]][P[u]] = u
    BY DeletedAssumption DEF Wheel
  <2>2. S2[u] = S[u] /\ P2[u] = P[u]
    BY <1>4, <2>1
  <2>3. CASE S[u] = s
    <3>1. P[u] # p
      BY <1>2, <2>1, <2>3
    <3>2. QED
      BY <1>2, <1>3, <2>1, <2>2, <2>3, <3>1
  <2>4. QED
    BY <1>3, <2>1, <2>2, <2>3
<1>6. P2[t] \in DOMAIN L2[S2[t]] /\ L2[S2[t]][P2[t]] = t
  BY <1>2, <1>3, <1>4
<1>7. ASSUME NEW x \in Slots, NEW q \in DOMAIN L2[x], L2[x][q] # Deleted
      PROVE  L2[x][q] \in A \cup {t} /\ S2[L2[x][q]] = x /\ P2[L2[x][q]] = q
  <2>1. CASE x = s /\ q = p
    BY <1>2, <1>3, <1>4, <2>1
  <2>2. CASE ~(x = s /\ q = p)
    <3>1. q \in DOMAIN L[x] /\ L2[x][q] = L[x][q]
      BY <1>2, <1>3, <2>2
    <3>2. L[x][q] \in A /\ S[L[x][q]] = x /\ P[L[x][q]] = q /\ L[x][q] \in Timer \ {t}
      BY <1>7, <3>1 DEF Wheel
    <3>3. QED
      BY <1>4, <3>1, <3>2
  <2>3. QED
    BY <2>1, <2>2
<1>8. \A x \in Slots : FreeOK(L2[x], F2[x])
  BY <1>2, <1>3 DEF Wheel
<1>9. A \cup {t} \subseteq Timer
  BY DEF Wheel
<1>10. Wheel(L2, F2, A \cup {t}, S2, P2)
  BY <1>3, <1>4, <1>5, <1>6, <1>7, <1>8, <1>9 DEF Wheel
<1>11. QED
  BY <1>10 DEF L2, F2, S2, P2, l, f, p
-----------------------------------------------------------------------------
Placed == Wheel(list, free_list, armed, iter_slot, iter_pos)

Times ==
    /\ timer_interval \in [Timer -> Nat] /\ next_handle_time \in [Timer -> Nat]
    /\ last_update_time \in Nat /\ current_slot \in Slots
    /\ pc \in {"idle", "tick", "scan", "callback"}
    /\ delta_time \in Nat /\ scan \in Slots /\ iter \in Nat \ {0}

(* The scan of the slot has yet to pass the timer t.                       *)
StillToCome(t) == pc \in {"scan", "callback"} /\ iter_slot[t] = scan /\ iter_pos[t] >= iter

(* What makes NoDeadlineMissed inductive: a timer whose deadline the wheel *)
(* has passed is ahead of the scan, in the slot that is being scanned; and *)
(* nothing is scheduled before the first Update sets the time.             *)
Timely ==
    /\ \A t \in armed : next_handle_time[t] >= last_update_time \/ StillToCome(t)
    /\ pc = "idle" => delta_time <= last_update_time
    /\ last_update_time = 0 => pc = "idle" /\ armed = {}

QueueInv == Placed /\ Times /\ SlotMatchesDeadline /\ Timely

(* The invariant says what the wheel and the deadlines have to.            *)
LEMMA QueueInvImplies == QueueInv => WheelConsistent /\ NoDeadlineMissed
<1>1. QueueInv => WheelConsistent
  BY DEF QueueInv, Placed, Times, Wheel, FreeOK, WheelConsistent, TypeOK
<1>2. QueueInv => NoDeadlineMissed
  <2> SUFFICES ASSUME QueueInv PROVE NoDeadlineMissed
    OBVIOUS
  <2>1. pc = "idle" => \A t \in armed : ~StillToCome(t)
    BY DEF StillToCome
  <2>2. QED
    BY <2>1 DEF QueueInv, Timely, NoDeadlineMissed
<1>3. QED
  BY <1>1, <1>2

(* What is at a place of the wheel is the timer of that place.             *)
LEMMA ScannedIsArmed ==
    ASSUME Placed, Times, ScanPosition, Scanned # Deleted
    PROVE  /\ Scanned \in armed /\ Scanned \in Timer
           /\ iter_slot[Scanned] = scan /\ iter_pos[Scanned] = iter
<1>1. scan \in Slots /\ iter \in Nat \ {0} /\ list[scan] \in Seq(Timer \cup {Deleted})
  BY DEF Placed, Times, Wheel
<1>2. iter \in DOMAIN list[scan]
  BY <1>1 DEF ScanPosition
<1>3. QED
  BY <1>1, <1>2 DEF Placed, Wheel, Scanned

(* CancelTimer leaves a wheel without the timer, armed before or not.      *)
LEMMA CancelledWheel ==
    ASSUME Placed, NEW t \in Timer
    PROVE  Wheel(CancelledList(t), CancelledFree(t), armed \ {t}, iter_slot, iter_pos)
<1>1. CASE t \in armed
  <2>1. /\ CancelledList(t)
             = [list EXCEPT ![iter_slot[t]] = EraseList(list[iter_slot[t]], iter_pos[t])]
        /\ CancelledFree(t)
             = [free_list EXCEPT ![iter_slot[t]] = EraseFree(free_list[iter_slot[t]], iter_pos[t])]
    BY <1>1 DEF CancelledList, CancelledFree
  <2>2. Wheel([list EXCEPT ![iter_slot[t]] = EraseList(list[iter_slot[t]], iter_pos[t])],
              [free_list EXCEPT ![iter_slot[t]] = EraseFree(free_list[iter_slot[t]], iter_pos[t])],
              armed \ {t}, iter_slot, iter_pos)
    BY <1>1, WheelErase DEF Placed
  <2>3. QED
    BY <2>1, <2>2
<1>2. CASE t \notin armed
  <2>1. CancelledList(t) = list /\ CancelledFree(t) = free_list /\ armed \ {t} = armed
    BY <1>2 DEF CancelledList, CancelledFree
  <2>2. QED
    BY <2>1 DEF Placed
<1>3. QED
  BY <1>1, <1>2

(* ScheduleTimer puts the timer where the wheel will be at its deadline.   *)
LEMMA Scheduled ==
    ASSUME Placed, Times, NEW t \in Timer, NEW ti \in Nat, NEW d \in Int, ti + d >= 0,
           DoSchedule(t, ti, d)
    PROVE  /\ Placed' /\ armed' = armed \cup {t}
           /\ iter_slot'[t] = (current_slot + ((d + ti) \div Interval)) % SlotSize
           /\ \A u \in Timer \ {t} : /\ iter_slot'[u] = iter_slot[u] /\ iter_pos'[u] = iter_pos[u]
                                     /\ next_handle_time'[u] = next_handle_time[u]
                                     /\ timer_interval'[u] = timer_interval[u]
           /\ next_handle_time'[t] = d + ti + last_update_time /\ timer_interval'[t] = ti
           /\ timer_interval' \in [Timer -> Nat] /\ next_handle_time' \in [Timer -> Nat]
<1> DEFINE s == ToSlot(ti, d)
           l == CancelledList(t)
           f == CancelledFree(t)
<1>1. /\ list' = [l EXCEPT ![s] = InsertList(l[s], f[s], t)]
      /\ free_list' = [f EXCEPT ![s] = InsertFree(f[s])]
      /\ armed' = armed \cup {t}
      /\ iter_slot' = [iter_slot EXCEPT ![t] = s]
      /\ iter_pos' = [iter_pos EXCEPT ![t] = InsertPos(l[s], f[s])]
      /\ timer_interval' = [timer_interval EXCEPT ![t] = ti]
      /\ next_handle_time' = [next_handle_time EXCEPT ![t] = d + ti + last_update_time]
  BY DEF DoSchedule
<1>2. s = (current_slot + ((d + ti) \div Interval)) % SlotSize /\ s \in Slots
  <2>1. SlotSize \in Nat \ {0} /\ Interval \in Nat \ {0} /\ current_slot \in Slots /\ d + ti \in Int
    BY SlotAssumption DEF Times
  <2>2. s = (current_slot + ((d + ti) \div Interval)) % SlotSize
    <3>1. CircleTime \in Int
      BY <2>1 DEF CircleTime
    <3>2. d + CircleTime + ti = (d + ti) + CircleTime
      BY <3>1
    <3>3. s = (current_slot + (((d + ti) + CircleTime) \div Interval)) % SlotSize
      BY <3>2 DEF ToSlot
    <3>4. QED
      BY <2>1, <3>3, CircleAdded
  <2>3. current_slot + ((d + ti) \div Interval) \in Int
    BY <2>1, DivModType DEF Slots
  <2> HIDE DEF s
  <2>4. s \in Slots
    BY <2>1, <2>2, <2>3, DivModType DEF Slots
  <2>5. QED
    BY <2>2, <2>4
<1> HIDE DEF s
<1>3. Wheel(l, f, armed \ {t}, iter_slot, iter_pos)
  BY CancelledWheel
<1> HIDE DEF l, f
<1>4. t \notin armed \ {t} /\ (armed \ {t}) \cup {t} = armed'
  BY <1>1
<1>5. Placed'
  <2>1. Wheel([l EXCEPT ![s] = InsertList(l[s], f[s], t)], [f EXCEPT ![s] = InsertFree(f[s])],
              (armed \ {t}) \cup {t}, [iter_slot EXCEPT ![t] = s],
              [iter_pos EXCEPT ![t] = InsertPos(l[s], f[s])])
    BY <1>2, <1>3, <1>4, WheelInsert
  <2>2. Wheel(list', free_list', armed', iter_slot', iter_pos')
    BY <1>1, <1>4, <2>1
  <2>3. QED
    BY <2>2 DEF Placed, Wheel, FreeOK
<1>6. iter_slot \in [Timer -> Slots] /\ iter_pos \in [Timer -> Nat]
  BY DEF Placed, Wheel
<1>7. /\ timer_interval \in [Timer -> Nat] /\ next_handle_time \in [Timer -> Nat]
      /\ d + ti + last_update_time \in Nat
  BY DEF Times
<1>8. /\ iter_slot'[t] = s
      /\ \A u \in Timer \ {t} : iter_slot'[u] = iter_slot[u] /\ iter_pos'[u] = iter_pos[u]
  BY <1>1, <1>6
<1>9. /\ next_handle_time'[t] = d + ti + last_update_time /\ timer_interval'[t] = ti
      /\ \A u \in Timer \ {t} : /\ next_handle_time'[u] = next_handle_time[u]
                                /\ timer_interval'[u] = timer_interval[u]
      /\ timer_interval' \in [Timer -> Nat] /\ next_handle_time' \in [Timer -> Nat]
  BY <1>1, <1>7
<1>10. QED
  BY <1>1, <1>2, <1>5, <1>8, <1>9
-----------------------------------------------------------------------------
(* The slot that the deadline of t asks for.                               *)
InItsSlot(t) ==
    iter_slot[t] = (current_slot + ((next_handle_time[t] - last_update_time) \div Interval))
                      % SlotSize

(* A timer that a step does not touch keeps its slot and its turn.         *)
LEMMA UntouchedTimer ==
    ASSUME QueueInv, NEW u \in armed, UNCHANGED <<wheel, pc, scan>>,
           iter_slot'[u] = iter_slot[u], iter_pos'[u] = iter_pos[u],
           next_handle_time'[u] = next_handle_time[u], iter' = iter
    PROVE  /\ ~InHand(u)' => InItsSlot(u)'
           /\ next_handle_time'[u] >= last_update_time' \/ StillToCome(u)'
<1>1. ~InHand(u) => InItsSlot(u)
  BY DEF QueueInv, SlotMatchesDeadline, InItsSlot
<1>2. next_handle_time[u] >= last_update_time \/ StillToCome(u)
  BY DEF QueueInv, Timely
<1>3. QED
  BY <1>1, <1>2 DEF InHand, InItsSlot, StillToCome, wheel

(* A timer just scheduled is where its deadline will find it.              *)
LEMMA ScheduledTimer ==
    ASSUME Times, UNCHANGED wheel, NEW t, NEW x \in Nat,
           iter_slot'[t] = (current_slot + (x \div Interval)) % SlotSize,
           next_handle_time'[t] = x + last_update_time
    PROVE  InItsSlot(t)' /\ next_handle_time'[t] >= last_update_time'
<1>1. /\ last_update_time' = last_update_time /\ last_update_time \in Nat
      /\ current_slot' = current_slot
  BY DEF Times, wheel
<1>2. next_handle_time'[t] - last_update_time' = x /\ next_handle_time'[t] >= last_update_time'
  BY <1>1
<1>3. QED
  BY <1>1, <1>2 DEF InItsSlot

(* ScheduleTimer from outside Update or from a callback.                   *)
LEMMA ScheduleKeeps ==
    ASSUME QueueInv, NEW t \in Timer, NEW r \in Requests, Schedule(t, r[1], r[2])
    PROVE  QueueInv'
<1> DEFINE ti == r[1]
           d == r[2]
<1>1. ti \in Nat /\ d \in Int /\ ti + d >= 0
  BY RequestAssumption
<1>2. DoSchedule(t, ti, d) /\ UNCHANGED <<wheel, update>> /\ last_update_time # 0
  BY DEF Schedule, UserCode
<1> HIDE DEF ti, d
<1>3. /\ Placed' /\ armed' = armed \cup {t}
      /\ iter_slot'[t] = (current_slot + ((d + ti) \div Interval)) % SlotSize
      /\ \A u \in Timer \ {t} : /\ iter_slot'[u] = iter_slot[u] /\ iter_pos'[u] = iter_pos[u]
                                /\ next_handle_time'[u] = next_handle_time[u]
      /\ next_handle_time'[t] = d + ti + last_update_time
      /\ timer_interval' \in [Timer -> Nat] /\ next_handle_time' \in [Timer -> Nat]
  BY <1>1, <1>2, Scheduled DEF QueueInv
<1>4. Times'
  BY <1>2, <1>3 DEF QueueInv, Times, wheel, update
<1>5. ASSUME NEW u \in armed'
      PROVE  /\ ~InHand(u)' => InItsSlot(u)'
             /\ next_handle_time'[u] >= last_update_time' \/ StillToCome(u)'
  <2>1. CASE u = t
    <3>1. d + ti \in Nat
      BY <1>1
    <3>2. QED
      BY <1>2, <1>3, <2>1, <3>1, ScheduledTimer DEF QueueInv
  <2>2. CASE u # t
    <3>1. u \in armed /\ u \in Timer
      BY <1>3, <1>5, <2>2 DEF QueueInv, Placed, Wheel
    <3>2. QED
      BY <1>2, <1>3, <2>2, <3>1, UntouchedTimer DEF update
  <2>3. QED
    BY <2>1, <2>2
<1>6. /\ pc' = "idle" => delta_time' <= last_update_time'
      /\ last_update_time' = 0 => pc' = "idle" /\ armed' = {}
  BY <1>2 DEF QueueInv, Timely, wheel, update
<1>7. (SlotMatchesDeadline /\ Timely)'
  BY <1>5, <1>6 DEF SlotMatchesDeadline, Timely, InItsSlot
<1>8. QED
  BY <1>3, <1>4, <1>7 DEF QueueInv

(* CancelTimer.                                                            *)
LEMMA CancelKeeps ==
    ASSUME QueueInv, NEW t \in Timer, Cancel(t)
    PROVE  QueueInv'
<1>1. /\ list' = CancelledList(t) /\ free_list' = CancelledFree(t) /\ armed' = armed \ {t}
      /\ UNCHANGED <<iter_slot, iter_pos, timer_interval, next_handle_time, wheel, update>>
      /\ last_update_time # 0
  BY DEF Cancel, UserCode
<1>2. Placed'
  <2>1. Wheel(CancelledList(t), CancelledFree(t), armed \ {t}, iter_slot, iter_pos)
    BY CancelledWheel DEF QueueInv
  <2>2. Wheel(list', free_list', armed', iter_slot', iter_pos')
    BY <1>1, <2>1
  <2>3. QED
    BY <2>2 DEF Placed, Wheel, FreeOK
<1>3. Times'
  BY <1>1 DEF QueueInv, Times, wheel, update
<1>4. ASSUME NEW u \in armed'
      PROVE  /\ ~InHand(u)' => InItsSlot(u)'
             /\ next_handle_time'[u] >= last_update_time' \/ StillToCome(u)'
  <2>1. u \in armed
    BY <1>1
  <2>2. QED
    BY <1>1, <2>1, UntouchedTimer DEF update
<1>5. /\ pc' = "idle" => delta_time' <= last_update_time'
      /\ last_update_time' = 0 => pc' = "idle" /\ armed' = {}
  BY <1>1 DEF QueueInv, Timely, wheel, update
<1>6. (SlotMatchesDeadline /\ Timely)'
  BY <1>4, <1>5 DEF SlotMatchesDeadline, Timely, InItsSlot
<1>7. QED
  BY <1>2, <1>3, <1>6 DEF QueueInv
-----------------------------------------------------------------------------
(* Steps that leave every list alone leave a wheel.                        *)
LEMMA PlacedStays == ASSUME Placed, UNCHANGED place PROVE Placed'
BY DEF Placed, place, Wheel, FreeOK

(* Update begins; its first call sets the time.                            *)
LEMMA UpdateBeginKeeps ==
    ASSUME QueueInv, NEW c \in Clock, UpdateBegin(c)
    PROVE  QueueInv'
<1>1. /\ pc = "idle" /\ pc' = "tick"
      /\ last_update_time' = IF last_update_time = 0 THEN c ELSE last_update_time
      /\ delta_time' = c + Interval
      /\ UNCHANGED <<place, timer_interval, next_handle_time, current_slot, scan, iter>>
  BY DEF UpdateBegin, DeltaTime
<1>2. c \in Nat \ {0} /\ Interval \in Nat \ {0} /\ last_update_time \in Nat
  BY ClockAssumption, SlotAssumption DEF QueueInv, Times
<1>3. Placed'
  BY <1>1, PlacedStays DEF QueueInv
<1>4. Times'
  BY <1>1, <1>2 DEF QueueInv, Times
<1>5. last_update_time' # 0
  BY <1>1, <1>2
<1>6. ASSUME NEW u \in armed'
      PROVE  InItsSlot(u)' /\ next_handle_time'[u] >= last_update_time'
  <2>1. u \in armed /\ last_update_time # 0
    BY <1>1, <1>6 DEF QueueInv, Timely, place
  <2>2. last_update_time' = last_update_time
    BY <1>1, <2>1
  <2>3. ~InHand(u) /\ ~StillToCome(u)
    BY <1>1 DEF InHand, StillToCome
  <2>4. InItsSlot(u) /\ next_handle_time[u] >= last_update_time
    BY <2>1, <2>3 DEF QueueInv, SlotMatchesDeadline, Timely, InItsSlot
  <2>5. QED
    BY <1>1, <2>2, <2>4 DEF InItsSlot, place
<1>7. (SlotMatchesDeadline /\ Timely)'
  BY <1>1, <1>5, <1>6 DEF SlotMatchesDeadline, Timely, InItsSlot
<1>8. QED
  BY <1>3, <1>4, <1>7 DEF QueueInv

(* One frame further: what falls due in it is in the slot to be scanned.   *)
LEMMA TickKeeps ==
    ASSUME QueueInv, Tick
    PROVE  QueueInv'
<1>1. /\ pc = "tick" /\ pc' = "scan" /\ scan' = current_slot /\ iter' = 1
      /\ current_slot' = NextSlot(current_slot)
      /\ last_update_time' = last_update_time + Interval
      /\ UNCHANGED <<place, timer_interval, next_handle_time, delta_time>>
  BY DEF Tick
<1>2. Interval \in Nat \ {0} /\ last_update_time \in Nat /\ current_slot \in Slots
  BY SlotAssumption DEF QueueInv, Times
<1>3. Placed'
  BY <1>1, PlacedStays DEF QueueInv
<1>4. Times'
  BY <1>1, <1>2, FrameMoved DEF QueueInv, Times
<1>5. ASSUME NEW u \in armed'
      PROVE  InItsSlot(u)' /\ (next_handle_time'[u] >= last_update_time' \/ StillToCome(u)')
  <2> DEFINE x == next_handle_time[u] - last_update_time
  <2>1. /\ u \in armed /\ u \in Timer /\ next_handle_time[u] \in Nat /\ iter_pos[u] \in Nat
        /\ iter_pos[u] >= 1
    BY <1>1 DEF QueueInv, Placed, Wheel, Times, place
  <2>2. ~InHand(u) /\ ~StillToCome(u)
    BY <1>1 DEF InHand, StillToCome
  <2>3. InItsSlot(u) /\ next_handle_time[u] >= last_update_time
    BY <2>1, <2>2 DEF QueueInv, SlotMatchesDeadline, Timely, InItsSlot
  <2>4. /\ x \in Int /\ x >= 0 /\ next_handle_time'[u] - last_update_time' = x - Interval
        /\ iter_slot[u] = (current_slot + (x \div Interval)) % SlotSize
    BY <1>1, <1>2, <2>1, <2>3 DEF InItsSlot
  <2>5. next_handle_time'[u] >= last_update_time' \/ x < Interval
    BY <1>1, <1>2, <2>1
  <2> HIDE DEF x
  <2>6. InItsSlot(u)'
    <3>1. (NextSlot(current_slot) + ((x - Interval) \div Interval)) % SlotSize
             = (current_slot + (x \div Interval)) % SlotSize
      BY <1>2, <2>4, FrameMoved
    <3>2. QED
      BY <1>1, <2>4, <3>1 DEF InItsSlot, place
  <2>7. CASE x < Interval
    <3>1. iter_slot[u] = current_slot
      BY <1>2, <2>4, <2>7, ThisFrame
    <3>2. StillToCome(u)'
      BY <1>1, <2>1, <3>1 DEF StillToCome, place
    <3>3. QED
      BY <2>6, <3>2
  <2>8. QED
    BY <2>5, <2>6, <2>7
<1>6. last_update_time' # 0
  BY <1>1, <1>2
<1>7. (SlotMatchesDeadline /\ Timely)'
  BY <1>1, <1>5, <1>6 DEF SlotMatchesDeadline, Timely, InItsSlot
<1>8. QED
  BY <1>3, <1>4, <1>7 DEF QueueInv

(* The wheel has caught up with the clock.                                 *)
LEMMA UpdateEndKeeps ==
    ASSUME QueueInv, UpdateEnd
    PROVE  QueueInv'
<1>1. /\ pc = "tick" /\ pc' = "idle" /\ delta_time <= last_update_time
      /\ UNCHANGED <<place, timer_interval, next_handle_time, wheel, delta_time, scan, iter>>
  BY DEF UpdateEnd, QueueInv, Times
<1>2. Placed' /\ Times'
  BY <1>1, PlacedStays DEF QueueInv, Times, wheel
<1>3. \A u : ~InHand(u) /\ ~StillToCome(u)
  BY <1>1 DEF InHand, StillToCome
<1>4. \A u \in armed : InItsSlot(u) /\ next_handle_time[u] >= last_update_time
  BY <1>3 DEF QueueInv, SlotMatchesDeadline, Timely, InItsSlot
<1>5. \A u \in armed' : InItsSlot(u)' /\ next_handle_time'[u] >= last_update_time'
  BY <1>1, <1>4 DEF InItsSlot, place, wheel
<1>6. last_update_time' # 0
  BY <1>1 DEF QueueInv, Timely, wheel
<1>7. (SlotMatchesDeadline /\ Timely)'
  BY <1>1, <1>5, <1>6 DEF SlotMatchesDeadline, Timely, InItsSlot, wheel
<1>8. QED
  BY <1>2, <1>7 DEF QueueInv

(* The slot is done, so nothing in it is overdue.                          *)
LEMMA ScanEndKeeps ==
    ASSUME QueueInv, ScanEnd
    PROVE  QueueInv'
<1>1. /\ pc = "scan" /\ pc' = "tick" /\ iter > Len(list[scan])
      /\ UNCHANGED <<place, timer_interval, next_handle_time, wheel, delta_time, scan, iter>>
  BY DEF ScanEnd
<1>2. Placed' /\ Times'
  BY <1>1, PlacedStays DEF QueueInv, Times, wheel
<1>3. ASSUME NEW u \in armed PROVE ~InHand(u) /\ ~StillToCome(u)
  <2>1. /\ iter_pos[u] \in DOMAIN list[iter_slot[u]] /\ scan \in Slots /\ iter \in Nat
        /\ list[scan] \in Seq(Timer \cup {Deleted})
    BY <1>3 DEF QueueInv, Placed, Wheel, Times
  <2>2. iter_slot[u] = scan => iter_pos[u] \in Nat /\ iter_pos[u] < iter
    BY <1>1, <2>1
  <2>3. QED
    BY <2>1, <2>2 DEF InHand, StillToCome
<1>4. \A u \in armed : InItsSlot(u) /\ next_handle_time[u] >= last_update_time
  BY <1>3 DEF QueueInv, SlotMatchesDeadline, Timely, InItsSlot
<1>5. \A u \in armed' : InItsSlot(u)' /\ next_handle_time'[u] >= last_update_time'
  BY <1>1, <1>4 DEF InItsSlot, place, wheel
<1>6. last_update_time' # 0
  BY <1>1 DEF QueueInv, Timely, wheel
<1>7. (SlotMatchesDeadline /\ Timely)'
  BY <1>1, <1>5, <1>6 DEF SlotMatchesDeadline, Timely, InItsSlot
<1>8. QED
  BY <1>2, <1>7 DEF QueueInv

(* No other timer is at the place the scan is at.                          *)
LEMMA PassedBy ==
    ASSUME QueueInv, ScanPosition, NEW u \in armed, u # Scanned
    PROVE  /\ ~InHand(u) /\ InItsSlot(u)
           /\ StillToCome(u) => iter_pos[u] >= iter + 1
<1>1. list[iter_slot[u]][iter_pos[u]] = u /\ iter_pos[u] \in Nat /\ iter \in Nat
  BY DEF QueueInv, Placed, Wheel, Times
<1>2. ~(iter_slot[u] = scan /\ iter_pos[u] = iter)
  BY <1>1 DEF Scanned
<1>3. ~InHand(u)
  BY <1>2 DEF InHand
<1>4. InItsSlot(u)
  BY <1>3 DEF QueueInv, SlotMatchesDeadline, InItsSlot
<1>5. StillToCome(u) => iter_pos[u] >= iter + 1
  BY <1>1, <1>2 DEF StillToCome
<1>6. QED
  BY <1>3, <1>4, <1>5

(* The scan goes past an erased position.                                  *)
LEMMA SkipDeletedKeeps ==
    ASSUME QueueInv, SkipDeleted
    PROVE  QueueInv'
<1>1. /\ ScanPosition /\ Scanned = Deleted /\ iter' = iter + 1
      /\ UNCHANGED <<place, timer_interval, next_handle_time, wheel, pc, delta_time, scan>>
  BY DEF SkipDeleted
<1>2. Placed' /\ Times'
  BY <1>1, PlacedStays DEF QueueInv, Times, wheel
<1>3. ASSUME NEW u \in armed'
      PROVE  InItsSlot(u)' /\ (next_handle_time'[u] >= last_update_time' \/ StillToCome(u)')
  <2>1. u \in armed /\ u # Scanned
    BY <1>1, DeletedAssumption DEF QueueInv, Placed, Wheel, place
  <2>2. InItsSlot(u) /\ (StillToCome(u) => iter_pos[u] >= iter + 1)
    BY <1>1, <2>1, PassedBy
  <2>3. next_handle_time[u] >= last_update_time \/ StillToCome(u)
    BY <2>1 DEF QueueInv, Timely
  <2>4. QED
    BY <1>1, <2>2, <2>3 DEF InItsSlot, StillToCome, place, wheel
<1>4. pc' # "idle" /\ last_update_time' # 0
  BY <1>1 DEF QueueInv, Timely, wheel, ScanPosition
<1>5. (SlotMatchesDeadline /\ Timely)'
  BY <1>3, <1>4 DEF SlotMatchesDeadline, Timely, InItsSlot
<1>6. QED
  BY <1>2, <1>5 DEF QueueInv

(* A timer that is due gets its next deadline and is called back.          *)
LEMMA FireKeeps ==
    ASSUME QueueInv, Fire
    PROVE  QueueInv'
<1>0. PICK t : t = Scanned
  OBVIOUS
<1>1. /\ ScanPosition /\ t # Deleted /\ pc' = "callback"
      /\ next_handle_time' = [next_handle_time EXCEPT ![t] = AdvancedTime(t)]
      /\ UNCHANGED <<place, timer_interval, wheel, delta_time, scan, iter>>
  BY <1>0 DEF Fire
<1>2. t \in armed /\ t \in Timer /\ iter_slot[t] = scan /\ iter_pos[t] = iter
  BY <1>0, <1>1, ScannedIsArmed DEF QueueInv
<1>3. pc = "scan" /\ iter \in Nat
  BY <1>1 DEF ScanPosition, QueueInv, Times
<1>4. AdvancedTime(t) \in Nat
  BY <1>2 DEF QueueInv, Times, AdvancedTime
<1>5. /\ next_handle_time' \in [Timer -> Nat]
      /\ \A u \in Timer \ {t} : next_handle_time'[u] = next_handle_time[u]
  BY <1>1, <1>2, <1>4 DEF QueueInv, Times
<1>6. Placed' /\ Times'
  BY <1>1, <1>5, PlacedStays DEF QueueInv, Times, wheel
<1>7. InHand(t)' /\ StillToCome(t)'
  BY <1>1, <1>2, <1>3 DEF InHand, StillToCome, place
<1>8. ASSUME NEW u \in armed', u # t
      PROVE  InItsSlot(u)' /\ (next_handle_time'[u] >= last_update_time' \/ StillToCome(u)')
  <2>1. u \in armed /\ u \in Timer
    BY <1>1 DEF QueueInv, Placed, Wheel, place
  <2>2. InItsSlot(u)
    BY <1>0, <1>1, <1>8, <2>1, PassedBy
  <2>3. next_handle_time[u] >= last_update_time \/ StillToCome(u)
    BY <2>1 DEF QueueInv, Timely
  <2>4. next_handle_time'[u] = next_handle_time[u]
    BY <1>5, <1>8, <2>1
  <2>5. QED
    BY <1>1, <2>2, <2>3, <2>4 DEF InItsSlot, StillToCome, place, wheel
<1>9. pc' # "idle" /\ last_update_time' # 0
  BY <1>1, <1>3 DEF QueueInv, Timely, wheel
<1>10. (SlotMatchesDeadline /\ Timely)'
  BY <1>7, <1>8, <1>9 DEF SlotMatchesDeadline, Timely, InItsSlot
<1>11. QED
  BY <1>6, <1>10 DEF QueueInv

(* The callback returns and the scan looks at its place again.             *)
LEMMA CallbackReturnsKeeps ==
    ASSUME QueueInv, CallbackReturns
    PROVE  QueueInv'
<1>1. /\ pc = "callback" /\ pc' = "scan"
      /\ UNCHANGED <<place, timer_interval, next_handle_time, wheel, delta_time, scan, iter>>
  BY DEF CallbackReturns
<1>2. Placed' /\ Times'
  BY <1>1, PlacedStays DEF QueueInv, Times, wheel
<1>3. ASSUME NEW u \in armed
      PROVE  /\ ~InHand(u)' => InItsSlot(u)'
             /\ next_handle_time'[u] >= last_update_time' \/ StillToCome(u)'
  <2>1. ~InHand(u) => InItsSlot(u)
    BY DEF QueueInv, SlotMatchesDeadline, InItsSlot
  <2>2. next_handle_time[u] >= last_update_time \/ StillToCome(u)
    BY DEF QueueInv, Timely
  <2>3. QED
    BY <1>1, <2>1, <2>2 DEF InHand, InItsSlot, StillToCome, place, wheel
<1>4. pc' # "idle" /\ last_update_time' # 0 /\ armed' = armed
  BY <1>1 DEF QueueInv, Timely, wheel, place
<1>5. (SlotMatchesDeadline /\ Timely)'
  BY <1>3, <1>4 DEF SlotMatchesDeadline, Timely, InItsSlot
<1>6. QED
  BY <1>2, <1>5 DEF QueueInv

(* What Reschedule does to the deadlines: nothing.                         *)
LEMMA Rescheduled ==
    ASSUME QueueInv, Reschedule
    PROVE  /\ Placed' /\ Scanned \in Timer /\ armed' = armed /\ Scanned \in armed
           /\ next_handle_time' = next_handle_time /\ timer_interval' = timer_interval
           /\ \A u \in Timer \ {Scanned} :
                 iter_slot'[u] = iter_slot[u] /\ iter_pos'[u] = iter_pos[u]
           /\ next_handle_time[Scanned] - last_update_time \in Nat
           /\ iter_slot'[Scanned]
                = (current_slot + ((next_handle_time[Scanned] - last_update_time) \div Interval))
                    % SlotSize
<1> DEFINE t == Scanned
           ti == timer_interval[t]
           d == next_handle_time[t] - (ti + last_update_time)
<1>1. /\ ScanPosition /\ t # Deleted /\ DoSchedule(t, ti, d)
      /\ ~(next_handle_time[t] <= last_update_time)
  BY DEF Reschedule, Due
<1>2. t \in armed /\ t \in Timer
  BY <1>1, ScannedIsArmed DEF QueueInv
<1> HIDE DEF t
<1>3. next_handle_time[t] \in Nat /\ ti \in Nat /\ last_update_time \in Nat
  BY <1>2 DEF QueueInv, Times
<1>4. /\ d \in Int /\ ti + d >= 0 /\ d + ti = next_handle_time[t] - last_update_time
      /\ d + ti + last_update_time = next_handle_time[t]
      /\ next_handle_time[t] - last_update_time \in Nat
  BY <1>1, <1>3
<1>5. ti = timer_interval[t]
  OBVIOUS
<1> HIDE DEF ti, d
<1>6. /\ Placed' /\ armed' = armed \cup {t}
      /\ iter_slot'[t] = (current_slot + ((d + ti) \div Interval)) % SlotSize
      /\ \A u \in Timer \ {t} : /\ iter_slot'[u] = iter_slot[u] /\ iter_pos'[u] = iter_pos[u]
                                /\ next_handle_time'[u] = next_handle_time[u]
                                /\ timer_interval'[u] = timer_interval[u]
      /\ next_handle_time'[t] = d + ti + last_update_time /\ timer_interval'[t] = ti
      /\ timer_interval' \in [Timer -> Nat] /\ next_handle_time' \in [Timer -> Nat]
  BY <1>1, <1>2, <1>3, <1>4, Scheduled DEF QueueInv
<1>7. /\ \A u \in Timer : /\ next_handle_time'[u] = next_handle_time[u]
                          /\ timer_interval'[u] = timer_interval[u]
      /\ timer_interval \in [Timer -> Nat] /\ next_handle_time \in [Timer -> Nat]
  BY <1>4, <1>5, <1>6 DEF QueueInv, Times
<1>8. next_handle_time' = next_handle_time /\ timer_interval' = timer_interval
  BY <1>6, <1>7
<1>9. QED
  BY <1>2, <1>4, <1>6, <1>8 DEF t

(* A timer that is not due moves to the slot of its deadline.              *)
LEMMA RescheduleKeeps ==
    ASSUME QueueInv, Reschedule
    PROVE  QueueInv'
<1>0. PICK t : t = Scanned
  OBVIOUS
<1> DEFINE x == next_handle_time[t] - last_update_time
<1>1. /\ Placed' /\ t \in Timer /\ armed' = armed /\ t \in armed
      /\ next_handle_time' = next_handle_time /\ timer_interval' = timer_interval
      /\ \A u \in Timer \ {t} : iter_slot'[u] = iter_slot[u] /\ iter_pos'[u] = iter_pos[u]
      /\ x \in Nat /\ iter_slot'[t] = (current_slot + (x \div Interval)) % SlotSize
  BY <1>0, Rescheduled
<1>2. ScanPosition /\ iter' = iter + 1 /\ UNCHANGED <<wheel, pc, delta_time, scan>>
  BY DEF Reschedule
<1>3. Times'
  BY <1>1, <1>2 DEF QueueInv, Times, wheel
<1>4. next_handle_time'[t] = x + last_update_time
  BY <1>1 DEF QueueInv, Times
<1> HIDE DEF x
<1>5. InItsSlot(t)' /\ next_handle_time'[t] >= last_update_time'
  BY <1>1, <1>2, <1>4, ScheduledTimer DEF QueueInv
<1>6. ASSUME NEW u \in armed, u # t
      PROVE  InItsSlot(u)' /\ (next_handle_time'[u] >= last_update_time' \/ StillToCome(u)')
  <2>1. u \in Timer
    BY DEF QueueInv, Placed, Wheel
  <2>2. InItsSlot(u) /\ (StillToCome(u) => iter_pos[u] >= iter + 1)
    BY <1>0, <1>2, <1>6, PassedBy
  <2>3. next_handle_time[u] >= last_update_time \/ StillToCome(u)
    BY DEF QueueInv, Timely
  <2>4. iter_slot'[u] = iter_slot[u] /\ iter_pos'[u] = iter_pos[u]
    BY <1>1, <1>6, <2>1
  <2>5. QED
    BY <1>1, <1>2, <2>2, <2>3, <2>4 DEF InItsSlot, StillToCome, wheel
<1>7. pc' # "idle" /\ last_update_time' # 0
  BY <1>2 DEF QueueInv, Timely, wheel, ScanPosition
<1>8. (SlotMatchesDeadline /\ Timely)'
  BY <1>1, <1>5, <1>6, <1>7 DEF SlotMatchesDeadline, Timely, InItsSlot
<1>9. QED
  BY <1>1, <1>3, <1>8 DEF QueueInv
-----------------------------------------------------------------------------
(* The empty wheel, before the first Update.                               *)
LEMMA InitQueue == Init => QueueInv
<1> SUFFICES ASSUME Init PROVE QueueInv
  OBVIOUS
<1>1. 0 \in Slots
  BY SlotAssumption DEF Slots
<1>2. /\ \A s \in Slots : list[s] = <<>> /\ free_list[s] = <<>>
      /\ list \in [Slots -> Seq(Timer \cup {Deleted})] /\ free_list \in [Slots -> Seq(Nat \ {0})]
  BY DEF Init
<1>3. \A s \in Slots : DOMAIN list[s] = {} /\ FreeOK(list[s], free_list[s])
  BY <1>2 DEF FreeOK
<1>4. iter_slot \in [Timer -> Slots] /\ iter_pos \in [Timer -> Nat] /\ armed = {}
  BY <1>1 DEF Init
<1>5. Placed
  BY <1>2, <1>3, <1>4 DEF Placed, Wheel
<1>6. Times
  BY <1>1 DEF Init, Times
<1>7. SlotMatchesDeadline /\ Timely
  BY DEF Init, SlotMatchesDeadline, Timely
<1>8. QED
  BY <1>5, <1>6, <1>7 DEF QueueInv

(* Nothing but the steps above changes the queue.                          *)
LEMMA NextKeepsQueue == QueueInv /\ [Next]_vars => QueueInv'
<1> SUFFICES ASSUME QueueInv, [Next]_vars PROVE QueueInv'
  OBVIOUS
<1>1. ASSUME NEW t \in Timer, NEW r \in Requests, Schedule(t, r[1], r[2]) PROVE QueueInv'
  BY <1>1, ScheduleKeeps
<1>2. ASSUME NEW t \in Timer, Cancel(t) PROVE QueueInv'
  BY <1>2, CancelKeeps
<1>3. ASSUME NEW c \in Clock, UpdateBegin(c) PROVE QueueInv'
  BY <1>3, UpdateBeginKeeps
<1>4. CASE UpdateStep
  BY <1>4, TickKeeps, UpdateEndKeeps, ScanEndKeeps, SkipDeletedKeeps, FireKeeps, RescheduleKeeps
  DEF UpdateStep
<1>5. CASE CallbackReturns
  BY <1>5, CallbackReturnsKeeps
<1>6. CASE UNCHANGED vars
  <2>1. UNCHANGED <<place, timer_interval, next_handle_time, wheel, update>>
    BY <1>6 DEF vars
  <2>2. Placed' /\ Times'
    BY <2>1, PlacedStays DEF QueueInv, Times, wheel, update
  <2>3. SlotMatchesDeadline' /\ Timely'
    BY <2>1 DEF QueueInv, SlotMatchesDeadline, Timely, InHand, StillToCome, place, wheel, update
  <2>4. QED
    BY <2>2, <2>3 DEF QueueInv
<1>7. QED
  BY <1>1, <1>2, <1>3, <1>4, <1>5, <1>6 DEF Next

(* The wheel, the timers and the deadlines agree at every step, inside the *)
(* callbacks of a scan included, for any number of slots, frame length,    *)
(* timers and requests, and any clock.                                     *)
THEOREM QueueInvariance == Spec => []QueueInv
<1>1. QED
  BY InitQueue, NextKeepsQueue, PTL DEF Spec

(* Each scheduled timer is in one place of the wheel and knows it, and the *)
(* free list of unordered_list has exactly the erased positions.           *)
THEOREM WheelConsistentAlways == Spec => []WheelConsistent
<1>1. QueueInv => WheelConsistent
  BY QueueInvImplies
<1>2. QED
  BY <1>1, QueueInvariance, PTL

(* TimerQueue::Update passes no deadline: ScheduleTimer's slot is the one  *)
(* the wheel reaches in the frame of the deadline.                         *)
THEOREM NoDeadlineMissedAlways == Spec => []NoDeadlineMissed
<1>1. QueueInv => NoDeadlineMissed
  BY QueueInvImplies
<1>2. QED
  BY <1>1, QueueInvariance, PTL
-----------------------------------------------------------------------------
(* A deadline and a period are not the empty tuple, and moving the first   *)
(* component leaves the second.                                            *)
LEMMA Pairs ==
    ASSUME NEW a \in Nat, NEW b \in Nat, NEW c \in Nat
    PROVE  /\ <<a, b>> # <<>> /\ <<a, b>>[1] = a /\ <<a, b>>[2] = b
           /\ [<<a, b>> EXCEPT ![1] = c] = <<c, b>>
<1>1. <<a, b>> # <<>>
  <2>1. <<a, b>> = Append(<<a>>, b)
    OBVIOUS
  <2>2. Append(<<a>>, b) # <<>>
    OBVIOUS
  <2>3. QED
    BY <2>1, <2>2
<1>2. [<<a, b>> EXCEPT ![1] = c] = <<c, b>>
  OBVIOUS
<1>3. QED
  BY <1>1, <1>2

(* What the service knows of a timer.                                      *)
LEMMA DeadlineOf ==
    ASSUME QueueInv, NEW t \in Timer
    PROVE  /\ t \in armed => Deadline[t] = <<next_handle_time[t], timer_interval[t]>>
           /\ t \notin armed => Deadline[t] = <<>>
           /\ (Deadline[t] # <<>>) <=> (t \in armed)
<1>1. next_handle_time[t] \in Nat /\ timer_interval[t] \in Nat
  BY DEF QueueInv, Times
<1>2. <<next_handle_time[t], timer_interval[t]>> # <<>>
  <2> DEFINE a == next_handle_time[t]
             b == timer_interval[t]
  <2>1. a \in Nat /\ b \in Nat
    BY <1>1
  <2> HIDE DEF a, b
  <2>2. <<a, b>> # <<>>
    BY <2>1, Pairs
  <2>3. QED
    BY <2>2 DEF a, b
<1>3. Deadline[t] = IF t \in armed THEN <<next_handle_time[t], timer_interval[t]>> ELSE <<>>
  BY DEF Deadline
<1>4. QED
  BY <1>2, <1>3, Zenon

(* Deadline is a function of the timers, also once a step has been taken.  *)
LEMMA DeadlineIsFunction ==
    /\ Deadline = [t \in Timer |-> Deadline[t]] /\ DOMAIN Deadline = Timer
    /\ Deadline' = [t \in Timer |-> Deadline'[t]] /\ DOMAIN Deadline' = Timer
BY DEF Deadline

(* A step that changes what is known of one timer only.                    *)
LEMMA DeadlineMoved ==
    ASSUME NEW t \in Timer, NEW v, Deadline'[t] = v,
           \A u \in Timer \ {t} : Deadline'[u] = Deadline[u]
    PROVE  Deadline' = [Deadline EXCEPT ![t] = v]
<1> DEFINE D == Deadline
           E == Deadline'
<1>1. /\ D = [u \in Timer |-> D[u]] /\ DOMAIN D = Timer
      /\ E = [u \in Timer |-> E[u]] /\ DOMAIN E = Timer
  BY DeadlineIsFunction
<1>2. E[t] = v /\ \A u \in Timer \ {t} : E[u] = D[u]
  OBVIOUS
<1> HIDE DEF D, E
<1>3. E = [D EXCEPT ![t] = v]
  BY <1>1, <1>2
<1>4. QED
  BY <1>3 DEF D, E

(* A step that leaves the deadlines and the scheduled timers alone.        *)
LEMMA DeadlineStays ==
    ASSUME UNCHANGED <<armed, next_handle_time, timer_interval>>
    PROVE  Deadline' = Deadline
BY DEF Deadline
-----------------------------------------------------------------------------
(* ScheduleTimer is the service's Schedule.                                *)
LEMMA ScheduleRefines ==
    ASSUME QueueInv, QueueInv', NEW t \in Timer, NEW r \in Requests, Schedule(t, r[1], r[2])
    PROVE  Service!Next
<1> DEFINE ti == r[1]
           d == r[2]
<1>1. ti \in Nat /\ d \in Int /\ ti + d >= 0
  BY RequestAssumption
<1>2. DoSchedule(t, ti, d) /\ UNCHANGED <<wheel, update>>
  BY DEF Schedule
<1>3. last_update_time' = last_update_time /\ pc' = pc /\ last_update_time \in Nat
  BY <1>2 DEF wheel, update, QueueInv, Times
<1>4. r[1] = ti /\ r[2] = d
  OBVIOUS
<1> HIDE DEF ti, d
<1>5. /\ armed' = armed \cup {t}
      /\ \A u \in Timer \ {t} : /\ next_handle_time'[u] = next_handle_time[u]
                                /\ timer_interval'[u] = timer_interval[u]
      /\ next_handle_time'[t] = d + ti + last_update_time /\ timer_interval'[t] = ti
  BY <1>1, <1>2, Scheduled DEF QueueInv
<1>6. d + ti + last_update_time = last_update_time + ti + d
  BY <1>1, <1>3
<1>7. Deadline'[t] = <<last_update_time + ti + d, ti>>
  BY <1>5, <1>6 DEF Deadline
<1>8. \A u \in Timer \ {t} : Deadline'[u] = Deadline[u]
  BY <1>5 DEF Deadline
<1>9. Deadline' = [Deadline EXCEPT ![t] = <<last_update_time + ti + d, ti>>]
  BY <1>7, <1>8, DeadlineMoved
<1>10. Service!Schedule(t, r[1], r[2])
  BY <1>3, <1>4, <1>9 DEF Service!Schedule
<1>11. QED
  BY <1>10 DEF Service!Next

(* CancelTimer is the service's Cancel.                                    *)
LEMMA CancelRefines ==
    ASSUME QueueInv, NEW t \in Timer, Cancel(t)
    PROVE  Service!Next
<1>1. /\ t \in armed /\ armed' = armed \ {t}
      /\ UNCHANGED <<timer_interval, next_handle_time, wheel, update>>
  BY DEF Cancel
<1>2. Deadline[t] # <<>>
  BY <1>1, DeadlineOf
<1>3. Deadline'[t] = <<>> /\ \A u \in Timer \ {t} : Deadline'[u] = Deadline[u]
  BY <1>1 DEF Deadline
<1>4. Deadline' = [Deadline EXCEPT ![t] = <<>>]
  BY <1>3, DeadlineMoved
<1>5. Service!Cancel(t)
  BY <1>1, <1>2, <1>4 DEF Service!Cancel, wheel, update
<1>6. QED
  BY <1>5 DEF Service!Next

(* A callback of Update is the service's Fire of the timer scanned.        *)
LEMMA FireRefines ==
    ASSUME QueueInv, Fire
    PROVE  Service!Next
<1>0. PICK t : t = Scanned
  OBVIOUS
<1>1. /\ ScanPosition /\ t # Deleted /\ next_handle_time[t] <= last_update_time /\ pc' = "callback"
      /\ next_handle_time' = [next_handle_time EXCEPT ![t] = AdvancedTime(t)]
      /\ UNCHANGED <<place, timer_interval, wheel>>
  BY <1>0 DEF Fire, Due
<1>2. t \in armed /\ t \in Timer
  BY <1>0, <1>1, ScannedIsArmed DEF QueueInv
<1> DEFINE a == next_handle_time[t]
           b == timer_interval[t]
<1>3. a \in Nat /\ b \in Nat /\ next_handle_time \in [Timer -> Nat] /\ pc = "scan"
  BY <1>1, <1>2 DEF QueueInv, Times, ScanPosition
<1>4. /\ armed' = armed /\ timer_interval' = timer_interval /\ last_update_time' = last_update_time
      /\ next_handle_time'[t] = a + b
      /\ \A u \in Timer \ {t} : next_handle_time'[u] = next_handle_time[u]
  BY <1>1, <1>2, <1>3 DEF AdvancedTime, place, wheel
<1>5. Deadline[t] = <<a, b>> /\ Deadline[t] # <<>>
  BY <1>2, DeadlineOf
<1>6. Deadline'[t] = <<a + b, b>> /\ \A u \in Timer \ {t} : Deadline'[u] = Deadline[u]
  BY <1>2, <1>4 DEF Deadline
<1>7. Deadline' = [Deadline EXCEPT ![t] = <<a + b, b>>]
  BY <1>2, <1>6, DeadlineMoved
<1>8. a <= last_update_time
  BY <1>1
<1> HIDE DEF a, b
<1>9. a + b \in Nat /\ a + b = <<a, b>>[1] + <<a, b>>[2]
  BY <1>3, Pairs
<1>10. [<<a, b>> EXCEPT ![1] = a + b] = <<a + b, b>> /\ <<a, b>>[1] = a /\ <<a, b>>[2] = b
  <2> DEFINE c == a + b
  <2>1. c \in Nat
    BY <1>9
  <2> HIDE DEF c
  <2>2. [<<a, b>> EXCEPT ![1] = c] = <<c, b>>
    BY <1>3, <2>1, Pairs
  <2>3. QED
    BY <1>3, <2>2, Pairs DEF c
<1>11. Deadline[t][1] = a /\ Deadline[t][2] = b /\ [Deadline[t] EXCEPT ![1] = a + b] = <<a + b, b>>
  BY <1>5, <1>10, Zenon
<1>12. Deadline'
         = [Deadline EXCEPT ![t] = [Deadline[t] EXCEPT ![1] = Deadline[t][1] + Deadline[t][2]]]
  BY <1>7, <1>11, Zenon
<1>13. Deadline' = [Deadline EXCEPT ![t][1] = @ + Deadline[t][2]]
  BY <1>12
<1>14. Deadline[t][1] <= last_update_time
  BY <1>8, <1>11
<1>15. Service!Fire(t)
  BY <1>1, <1>3, <1>4, <1>5, <1>13, <1>14 DEF Service!Fire
<1>16. QED
  BY <1>2, <1>15 DEF Service!Next

(* One frame of Update is the service's Advance: nothing due is left.      *)
LEMMA TickRefines ==
    ASSUME QueueInv, Tick
    PROVE  Service!Next
<1>1. /\ pc = "tick" /\ pc' = "scan" /\ last_update_time' = last_update_time + Interval
      /\ UNCHANGED <<place, timer_interval, next_handle_time>>
  BY DEF Tick
<1>2. Deadline' = Deadline
  BY <1>1, DeadlineStays DEF place
<1>3. ASSUME NEW t \in Timer, Deadline[t] # <<>>
      PROVE  Deadline[t][1] >= last_update_time
  <2>1. t \in armed /\ Deadline[t] = <<next_handle_time[t], timer_interval[t]>>
    BY <1>3, DeadlineOf
  <2>2. ~StillToCome(t)
    BY <1>1 DEF StillToCome
  <2>3. next_handle_time[t] >= last_update_time
    BY <2>1, <2>2 DEF QueueInv, Timely
  <2>4. <<next_handle_time[t], timer_interval[t]>>[1] = next_handle_time[t]
    OBVIOUS
  <2>5. QED
    BY <2>1, <2>3, <2>4
<1>4. Service!Advance
  BY <1>1, <1>2, <1>3 DEF Service!Advance
<1>5. QED
  BY <1>4 DEF Service!Next

(* The first Update starts the service's time; a later one changes nothing *)
(* that the service knows of.                                              *)
LEMMA UpdateBeginRefines ==
    ASSUME QueueInv, NEW c \in Clock, UpdateBegin(c)
    PROVE  Service!Next \/ UNCHANGED Service!vars
<1>1. /\ pc = "idle" /\ pc' = "tick"
      /\ last_update_time' = IF last_update_time = 0 THEN c ELSE last_update_time
      /\ UNCHANGED <<place, timer_interval, next_handle_time>>
  BY DEF UpdateBegin
<1>2. Deadline' = Deadline
  BY <1>1, DeadlineStays DEF place
<1>3. c \in Nat \ {0}
  BY ClockAssumption
<1>4. CASE last_update_time = 0
  <2>1. last_update_time' > 0
    BY <1>1, <1>3, <1>4
  <2>2. Service!Start
    BY <1>1, <1>2, <1>4, <2>1 DEF Service!Start
  <2>3. QED
    BY <2>2 DEF Service!Next
<1>5. CASE last_update_time # 0
  BY <1>1, <1>2, <1>5 DEF Service!vars
<1>6. QED
  BY <1>4, <1>5

(* Every other step of Update is invisible to the service.                 *)
LEMMA QuietSteps ==
    ASSUME QueueInv, UpdateEnd \/ ScanEnd \/ SkipDeleted \/ Reschedule \/ UNCHANGED vars
    PROVE  UNCHANGED Service!vars
<1>1. UNCHANGED <<armed, next_handle_time, timer_interval, last_update_time>>
  <2>1. CASE UpdateEnd
    BY <2>1 DEF UpdateEnd, place, wheel
  <2>2. CASE ScanEnd
    BY <2>2 DEF ScanEnd, place, wheel
  <2>3. CASE SkipDeleted
    BY <2>3 DEF SkipDeleted, place, wheel
  <2>4. CASE Reschedule
    <3>1. UNCHANGED <<armed, next_handle_time, timer_interval>>
      BY <2>4, Rescheduled
    <3>2. UNCHANGED last_update_time
      BY <2>4 DEF Reschedule, wheel
    <3>3. QED
      BY <3>1, <3>2
  <2>5. CASE UNCHANGED vars
    BY <2>5 DEF vars, place, wheel
  <2>6. QED
    BY <2>1, <2>2, <2>3, <2>4, <2>5
<1>2. (pc = "callback")' = (pc = "callback")
  BY DEF UpdateEnd, ScanEnd, SkipDeleted, Reschedule, ScanPosition, vars, update
<1>3. Deadline' = Deadline
  BY <1>1, DeadlineStays
<1>4. QED
  BY <1>1, <1>2, <1>3 DEF Service!vars

(* The callback returns to Update.                                         *)
LEMMA CallbackReturnsRefines ==
    ASSUME CallbackReturns
    PROVE  Service!Next
<1>1. /\ pc = "callback" /\ pc' = "scan"
      /\ UNCHANGED <<armed, next_handle_time, timer_interval, last_update_time>>
  BY DEF CallbackReturns, place, wheel
<1>2. Deadline' = Deadline
  BY <1>1, DeadlineStays
<1>3. Service!Return
  BY <1>1, <1>2 DEF Service!Return
<1>4. QED
  BY <1>3 DEF Service!Next

(* The wheel implements TimerService: whatever the sizes and the requests, *)
(* it fires only timers that are scheduled and due, one period after the   *)
(* other, and its time does not pass a deadline that was not handled.      *)
THEOREM WheelImplementsService == Spec => ImplementsTimerService
<1>1. Init => Service!Init
  BY DEF Init, Service!Init, Deadline
<1>2. ASSUME QueueInv, QueueInv', [Next]_vars PROVE Service!Next \/ UNCHANGED Service!vars
  <2>1. ASSUME NEW t \in Timer, NEW r \in Requests, Schedule(t, r[1], r[2]) PROVE Service!Next
    BY <1>2, <2>1, ScheduleRefines
  <2>2. ASSUME NEW t \in Timer, Cancel(t) PROVE Service!Next
    BY <1>2, <2>2, CancelRefines
  <2>3. ASSUME NEW c \in Clock, UpdateBegin(c) PROVE Service!Next \/ UNCHANGED Service!vars
    BY <1>2, <2>3, UpdateBeginRefines
  <2>4. CASE UpdateStep
    BY <1>2, <2>4, TickRefines, FireRefines, QuietSteps DEF UpdateStep
  <2>5. CASE CallbackReturns
    BY <2>5, CallbackReturnsRefines
  <2>6. CASE UNCHANGED vars
    BY <1>2, <2>6, QuietSteps
  <2>7. QED
    BY <1>2, <2>1, <2>2, <2>3, <2>4, <2>5, <2>6 DEF Next
<1>3. QueueInv /\ QueueInv' /\ [Next]_vars => [Service!Next]_Service!vars
  BY <1>2
<1>4. QED
  BY <1>1, <1>3, QueueInvariance, PTL DEF Spec, ImplementsTimerService, Service!Spec
=============================================================================
