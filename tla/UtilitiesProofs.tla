--------------------------- MODULE UtilitiesProofs ---------------------------
(***************************************************************************)
(* The library's independent parts, for every value of their constants.    *)
(* VectorMap stays strictly sorted and implements a Dictionary: without    *)
(* the sortedness lower_bound may stop before an equal key, and a class    *)
(* may have two pairs.  Then the kqueue poller, the listening acceptor,    *)
(* the log line's time, the XML cache and the MySQL wrappers, each with an *)
(* inductive invariant of its own.                                         *)
(***************************************************************************)
EXTENDS Utilities, WellFoundedInduction, TLAPS

(* A non-empty set of positions has a first one.                           *)
LEMMA FirstPosition ==
    ASSUME NEW T, T \subseteq Nat, T # {}
    PROVE  \E p \in T : \A i \in T : p <= i
<1>1. PICK p \in T : \A i \in T : <<i, p>> \notin OpToRel(<, Nat)
    BY Zenon, NatLessThanWellFounded, WFMin
<1>2. ASSUME NEW i \in T PROVE p <= i
    <2>1. i \in Nat /\ p \in Nat
        BY Zenon
    <2>2. ~(i < p)
        BY Zenon, <1>1, <2>1 DEF OpToRel
    <2> QED
        BY <2>1, <2>2
<1> QED
    BY Zenon, <1>2

(* A position of the vector holds a pair, whose key has a class.           *)
LEMMA PairAt ==
    ASSUME NEW s \in Seq(Pair), NEW i \in 1 .. Len(s)
    PROVE  /\ s[i] \in Pair /\ s[i].first \in Key /\ s[i].second \in Value
           /\ class[s[i].first] \in Int
<1>1. s[i] \in Pair
    OBVIOUS
<1>2. s[i].first \in Key /\ s[i].second \in Value
    BY Zenon, <1>1 DEF Pair
<1> QED
    BY Zenon, <1>1, <1>2, ClassAssumption

(* std::lower_bound has an answer for every vector: a position before      *)
(* which all keys are smaller, and at which the key, if any, is not.       *)
LEMMA LowerBound ==
    ASSUME NEW s \in Seq(Pair), NEW k \in Key
    PROVE  /\ lower_bound(s, k) \in 1 .. Len(s) + 1
           /\ \A i \in 1 .. lower_bound(s, k) - 1 : Compare(s[i].first, k)
           /\ lower_bound(s, k) <= Len(s) => ~Compare(s[lower_bound(s, k)].first, k)
<1> DEFINE T == {i \in 1 .. Len(s) + 1 : i <= Len(s) => ~Compare(s[i].first, k)}
<1>1. Len(s) \in Nat
    OBVIOUS
<1>2. Len(s) + 1 \in T
    BY <1>1
<1>3. PICK p \in T : \A i \in T : p <= i
    <2>1. T \subseteq Nat /\ T # {}
        BY <1>1, <1>2
    <2> QED
        BY Zenon, <2>1, FirstPosition
<1>4. ASSUME NEW i \in 1 .. p - 1 PROVE Compare(s[i].first, k)
    <2>1. i \in 1 .. Len(s) + 1 /\ ~(p <= i)
        BY <1>1
    <2> QED
        BY Zenon, <1>3, <2>1
<1> HIDE DEF T
<1>5. \E q \in 1 .. Len(s) + 1 :
          /\ \A i \in 1 .. q - 1 : Compare(s[i].first, k)
          /\ q <= Len(s) => ~Compare(s[q].first, k)
    BY Zenon, <1>4 DEF T
<1> QED
    BY Zenon, <1>5 DEF lower_bound

(* In a sorted vector a class has one position, and ValueOf is its value.  *)
LEMMA ValueAt ==
    ASSUME NEW s \in Seq(Pair), Sorted(s), NEW i \in 1 .. Len(s)
    PROVE  ValueOf(s, class[s[i].first]) = s[i].second
<1> DEFINE c == class[s[i].first]
           j == CHOOSE n \in 1 .. Len(s) : class[s[n].first] = c
<1>1. j \in 1 .. Len(s) /\ class[s[j].first] = c
    BY Zenon
<1>3. c \in Int
    BY Zenon, PairAt
<1> HIDE DEF j
<1>4. j = i
    <2>1. ~(i < j) /\ ~(j < i)
        BY <1>1, <1>3 DEF Sorted, Compare
    <2> QED
        BY <2>1, <1>1
<1> QED
    BY Zenon, <1>1, <1>4 DEF ValueOf, j

(* A class without a position has no value.                                *)
LEMMA ValueAbsent ==
    ASSUME NEW s, NEW c, \A i \in 1 .. Len(s) : class[s[i].first] # c
    PROVE  ValueOf(s, c) = NoValue
BY Zenon DEF ValueOf

(* What a search finds in a sorted vector: if the keys match, the position *)
(* of k's class; if not, the class of k is absent and everything from      *)
(* there on is larger.                                                     *)
LEMMA Search ==
    ASSUME NEW s \in Seq(Pair), Sorted(s), NEW k \in Key, NEW p,
           p = lower_bound(s, k)
    PROVE  /\ p \in 1 .. Len(s) + 1
           /\ Hit(s, p, k) => p \in 1 .. Len(s) /\ class[s[p].first] = class[k]
           /\ ~Hit(s, p, k) =>
                 /\ \A i \in 1 .. Len(s) : i < p => Compare(s[i].first, k)
                 /\ \A i \in 1 .. Len(s) : i >= p => Compare(k, s[i].first)
                 /\ \A i \in 1 .. Len(s) : class[s[i].first] # class[k]
<1>1. /\ p \in 1 .. Len(s) + 1
      /\ \A i \in 1 .. p - 1 : Compare(s[i].first, k)
      /\ p <= Len(s) => ~Compare(s[p].first, k)
    BY Zenon, LowerBound
<1>2. class[k] \in Int /\ \A i \in 1 .. Len(s) : class[s[i].first] \in Int
    BY Zenon, PairAt, ClassAssumption
<1>3. Len(s) \in Nat
    OBVIOUS
<1>4. ASSUME Hit(s, p, k)
      PROVE  p \in 1 .. Len(s) /\ class[s[p].first] = class[k]
    BY <1>1, <1>2, <1>3, <1>4 DEF Hit, equal_to, Compare
<1>5. ASSUME NEW i \in 1 .. Len(s), i < p PROVE Compare(s[i].first, k)
    BY <1>1, <1>3, <1>5
<1>6. ASSUME ~Hit(s, p, k), NEW i \in 1 .. Len(s), i >= p PROVE Compare(k, s[i].first)
    <2>1. p \in 1 .. Len(s)
        BY <1>1, <1>3, <1>6
    <2>2. class[k] < class[s[p].first]
        BY <1>1, <1>2, <1>6, <2>1 DEF Hit, equal_to, Compare
    <2>3. i = p \/ class[s[p].first] < class[s[i].first]
        BY <1>6, <2>1 DEF Sorted, Compare
    <2> QED
        BY <1>2, <2>1, <2>2, <2>3 DEF Compare
<1>7. ASSUME ~Hit(s, p, k), NEW i \in 1 .. Len(s) PROVE class[s[i].first] # class[k]
    BY <1>1, <1>2, <1>3, <1>5, <1>6, <1>7 DEF Compare
<1> QED
    BY Zenon, <1>1, <1>4, <1>5, <1>6, <1>7
-----------------------------------------------------------------------------
(* The three ways a vector changes, seen as a map and as a sorted vector.  *)

(* k is absent from s and belongs before position p; t is s with v for k.  *)
Gap(s, p, k) ==
    /\ p \in 1 .. Len(s) + 1
    /\ \A i \in 1 .. Len(s) : i < p => Compare(s[i].first, k)
    /\ \A i \in 1 .. Len(s) : i >= p => Compare(k, s[i].first)
    /\ \A i \in 1 .. Len(s) : class[s[i].first] # class[k]
IsPut(s, t, k, v) ==
    /\ t \in Seq(Pair) /\ Sorted(t)
    /\ MapOf(t) = [MapOf(s) EXCEPT ![class[k]] = v]

(* Assigning the value at k's position changes that class only.            *)
LEMMA AssignAsPut ==
    ASSUME NEW s \in Seq(Pair), Sorted(s), NEW k \in Key, NEW v \in Value,
           NEW p \in 1 .. Len(s), class[s[p].first] = class[k]
    PROVE  IsPut(s, Assign(s, p, v), k, v)
<1> DEFINE t == Assign(s, p, v)
<1>1. ASSUME NEW i \in 1 .. Len(s)
      PROVE  (IF i = p THEN [first |-> s[i].first, second |-> v] ELSE s[i]) \in Pair
    BY Zenon, PairAt DEF Pair
<1>2. t \in Seq(Pair) /\ Len(t) = Len(s)
    BY <1>1 DEF Assign
<1>3. \A i \in 1 .. Len(s) : /\ t[i].first = s[i].first
                             /\ t[i].second = IF i = p THEN v ELSE s[i].second
    BY Zenon DEF Assign
<1> HIDE DEF t
<1>4. Sorted(t)
    BY Zenon, <1>2, <1>3 DEF Sorted
<1>5. ASSUME NEW c \in Classes
      PROVE  ValueOf(t, c) = IF c = class[k] THEN v ELSE ValueOf(s, c)
    <2>1. CASE \E i \in 1 .. Len(s) : class[s[i].first] = c
        <3>1. PICK i \in 1 .. Len(s) : class[s[i].first] = c
            BY Zenon, <2>1
        <3>2. ValueOf(s, c) = s[i].second /\ ValueOf(t, c) = t[i].second
            BY Zenon, <1>2, <1>3, <1>4, <3>1, ValueAt
        <3>3. c = class[k] <=> i = p
            <4>1. c = class[k] => ~(i < p) /\ ~(p < i)
                BY <3>1, PairAt DEF Sorted, Compare
            <4> QED
                BY <3>1, <4>1
        <3> QED
            BY Zenon, <1>3, <3>2, <3>3
    <2>2. CASE ~\E i \in 1 .. Len(s) : class[s[i].first] = c
        <3>1. c # class[k]
            BY Zenon, <2>2
        <3>2. ValueOf(s, c) = NoValue /\ ValueOf(t, c) = NoValue
            BY <1>2, <1>3, <2>2, ValueAbsent
        <3> QED
            BY Zenon, <3>1, <3>2
    <2> QED
        BY Zenon, <2>1, <2>2
<1>6. MapOf(t) = [MapOf(s) EXCEPT ![class[k]] = v]
    BY Zenon, <1>5 DEF MapOf
<1> QED
    BY Zenon, <1>2, <1>4, <1>6 DEF t, IsPut

(* Inserting before the first larger key gives an absent class a value.    *)
LEMMA InsertAsPut ==
    ASSUME NEW s \in Seq(Pair), Sorted(s), NEW k \in Key, NEW v \in Value,
           NEW p, Gap(s, p, k)
    PROVE  IsPut(s, Insert(s, p, [first |-> k, second |-> v]), k, v)
<1> SUFFICES ASSUME p \in 1 .. Len(s) + 1,
                    \A i \in 1 .. Len(s) : i < p => Compare(s[i].first, k),
                    \A i \in 1 .. Len(s) : i >= p => Compare(k, s[i].first),
                    \A i \in 1 .. Len(s) : class[s[i].first] # class[k]
             PROVE  IsPut(s, Insert(s, p, [first |-> k, second |-> v]), k, v)
    BY Zenon DEF Gap
<1> DEFINE new == [first |-> k, second |-> v]
           t == Insert(s, p, new)
<1>1. Len(s) \in Nat /\ new \in Pair /\ new.first = k /\ new.second = v
    BY DEF Pair
<1> HIDE DEF new
<1>2. ASSUME NEW i \in 1 .. Len(s) + 1
      PROVE  (IF i < p THEN s[i] ELSE IF i = p THEN new ELSE s[i - 1]) \in Pair
    <2>1. CASE i < p
        <3>1. i \in 1 .. Len(s)
            BY <1>1, <2>1
        <3> QED
            BY Zenon, <2>1, <3>1, PairAt
    <2>2. CASE i = p
        BY <1>1, <2>2
    <2>3. CASE i > p
        <3>1. i - 1 \in 1 .. Len(s)
            BY <1>1, <2>3
        <3> QED
            BY <2>3, <3>1, PairAt
    <2> QED
        BY <2>1, <2>2, <2>3
<1>3. t \in Seq(Pair) /\ Len(t) = Len(s) + 1
    BY <1>1, <1>2 DEF Insert
<1>4. \A i \in 1 .. Len(s) + 1 :
          t[i] = IF i < p THEN s[i] ELSE IF i = p THEN new ELSE s[i - 1]
    BY Zenon DEF Insert
<1> HIDE DEF t
<1>5. Sorted(t)
    <2> SUFFICES ASSUME NEW i \in 1 .. Len(s) + 1, NEW j \in 1 .. Len(s) + 1, i < j
                 PROVE  Compare(t[i].first, t[j].first)
        BY Zenon, <1>3 DEF Sorted
    <2>1. CASE j < p
        <3>1. i \in 1 .. Len(s) /\ j \in 1 .. Len(s) /\ i < p
            BY <1>1, <2>1
        <3> QED
            BY Zenon, <1>4, <2>1, <3>1 DEF Sorted
    <2>2. CASE j = p
        <3>1. i \in 1 .. Len(s) /\ i < p
            BY <1>1, <2>2
        <3> QED
            BY <1>1, <1>4, <2>2, <3>1
    <2>3. CASE j > p /\ i < p
        <3>1. i \in 1 .. Len(s) /\ j - 1 \in 1 .. Len(s) /\ i < j - 1
            BY <1>1, <2>3
        <3>2. t[i] = s[i] /\ t[j] = s[j - 1]
            BY <1>4, <2>3
        <3> QED
            BY Zenon, <3>1, <3>2 DEF Sorted
    <2>4. CASE j > p /\ i = p
        <3>1. j - 1 \in 1 .. Len(s) /\ j - 1 >= p
            BY <1>1, <2>4
        <3>2. t[i] = new /\ t[j] = s[j - 1]
            BY <1>4, <2>4
        <3> QED
            BY Zenon, <1>1, <3>1, <3>2
    <2>5. CASE j > p /\ i > p
        <3>1. i - 1 \in 1 .. Len(s) /\ j - 1 \in 1 .. Len(s) /\ i - 1 < j - 1
            BY <1>1, <2>5
        <3>2. ~(i < p) /\ i # p /\ ~(j < p) /\ j # p
            BY <2>5
        <3>3. t[i] = s[i - 1]
            BY Zenon, <1>4, <3>2
        <3>4. t[j] = s[j - 1]
            BY Zenon, <1>4, <3>2
        <3> QED
            BY Zenon, <3>1, <3>3, <3>4 DEF Sorted
    <2> QED
        BY <2>1, <2>2, <2>3, <2>4, <2>5
<1>6. ASSUME NEW c \in Classes
      PROVE  ValueOf(t, c) = IF c = class[k] THEN v ELSE ValueOf(s, c)
    <2>1. CASE c = class[k]
        <3>1. p \in 1 .. Len(t) /\ t[p] = new
            BY <1>1, <1>3, <1>4
        <3> QED
            BY Zenon, <1>1, <1>3, <1>5, <2>1, <3>1, ValueAt
    <2>2. CASE c # class[k] /\ \E i \in 1 .. Len(s) : class[s[i].first] = c
        <3>1. PICK i \in 1 .. Len(s) : class[s[i].first] = c
            BY Zenon, <2>2
        <3>2. PICK j \in 1 .. Len(s) + 1 : t[j] = s[i]
            <4>1. CASE i < p
                BY <1>1, <1>4, <4>1
            <4>2. CASE i >= p
                <5>1. i + 1 \in 1 .. Len(s) + 1 /\ ~(i + 1 < p) /\ i + 1 # p /\ (i + 1) - 1 = i
                    BY <1>1, <4>2
                <5>2. t[i + 1] = s[i]
                    BY Zenon, <1>4, <5>1
                <5> QED
                    BY Zenon, <5>1, <5>2
            <4> QED
                BY <4>1, <4>2
        <3>3. ValueOf(t, c) = t[j].second
            BY Zenon, <1>3, <1>5, <3>1, <3>2, ValueAt
        <3>4. ValueOf(s, c) = s[i].second
            BY Zenon, <3>1, ValueAt
        <3> QED
            BY Zenon, <2>2, <3>2, <3>3, <3>4
    <2>3. CASE c # class[k] /\ ~\E i \in 1 .. Len(s) : class[s[i].first] = c
        <3>1. ASSUME NEW j \in 1 .. Len(s) + 1 PROVE class[t[j].first] # c
            <4>1. CASE j < p
                BY <1>1, <1>4, <2>3, <4>1
            <4>2. CASE j = p
                BY <1>1, <1>4, <2>3, <4>2
            <4>3. CASE j > p
                <5>1. j - 1 \in 1 .. Len(s) /\ t[j] = s[j - 1]
                    BY <1>1, <1>4, <4>3
                <5> QED
                    BY Zenon, <2>3, <5>1
            <4> QED
                BY <4>1, <4>2, <4>3
        <3>2. ValueOf(t, c) = NoValue /\ ValueOf(s, c) = NoValue
            BY Zenon, <1>3, <2>3, <3>1, ValueAbsent
        <3> QED
            BY Zenon, <2>3, <3>2
    <2> QED
        BY Zenon, <2>1, <2>2, <2>3
<1>7. MapOf(t) = [MapOf(s) EXCEPT ![class[k]] = v]
    BY Zenon, <1>6 DEF MapOf
<1> QED
    BY Zenon, <1>3, <1>5, <1>7 DEF t, new, IsPut

(* Erasing the position of k's class leaves that class without a value.    *)
LEMMA EraseAsRemove ==
    ASSUME NEW s \in Seq(Pair), Sorted(s), NEW k \in Key,
           NEW p \in 1 .. Len(s), class[s[p].first] = class[k]
    PROVE  /\ EraseAt(s, p) \in Seq(Pair)
           /\ Sorted(EraseAt(s, p))
           /\ MapOf(EraseAt(s, p)) = [MapOf(s) EXCEPT ![class[k]] = NoValue]
<1> DEFINE t == EraseAt(s, p)
           from(i) == IF i < p THEN i ELSE i + 1
<1>1. Len(s) \in Nat /\ Len(s) - 1 \in Nat
    OBVIOUS
<1>2. \A i \in 1 .. Len(s) - 1 : from(i) \in 1 .. Len(s) /\ from(i) # p
    BY <1>1
<1>3. \A i, j \in 1 .. Len(s) - 1 : i < j => from(i) < from(j)
    BY <1>1
<1>4. t = [i \in 1 .. Len(s) - 1 |-> s[from(i)]]
    BY Zenon DEF EraseAt
<1>5. \A m \in 1 .. Len(s) : m # p => \E i \in 1 .. Len(s) - 1 : from(i) = m
    <2> SUFFICES ASSUME NEW m \in 1 .. Len(s), m # p
                 PROVE  \E i \in 1 .. Len(s) - 1 : from(i) = m
        BY Zenon
    <2>1. CASE m < p
        <3>1. m \in 1 .. Len(s) - 1 /\ from(m) = m
            BY <1>1, <2>1
        <3> QED
            BY Zenon, <3>1
    <2>2. CASE m > p
        <3>1. m - 1 \in 1 .. Len(s) - 1 /\ from(m - 1) = m
            BY <1>1, <2>2
        <3> QED
            BY Zenon, <3>1
    <2> QED
        BY <2>1, <2>2
<1> HIDE DEF t, from
<1>6. t \in Seq(Pair) /\ Len(t) = Len(s) - 1
    <2>1. \A i \in 1 .. Len(s) - 1 : s[from(i)] \in Pair
        BY Zenon, <1>2, PairAt
    <2> QED
        BY <1>1, <1>4, <2>1
<1>7. \A i \in 1 .. Len(s) - 1 : t[i] = s[from(i)]
    BY Zenon, <1>4
<1>8. Sorted(t)
    BY <1>2, <1>3, <1>6, <1>7 DEF Sorted
<1>9. ASSUME NEW c \in Classes
      PROVE  ValueOf(t, c) = IF c = class[k] THEN NoValue ELSE ValueOf(s, c)
    <2>1. CASE c = class[k]
        <3>1. ASSUME NEW i \in 1 .. Len(s) - 1 PROVE class[t[i].first] # c
            <4>1. from(i) \in 1 .. Len(s) /\ from(i) # p
                BY Zenon, <1>2
            <4>2. /\ from(i) < p => class[s[from(i)].first] < class[s[p].first]
                  /\ p < from(i) => class[s[p].first] < class[s[from(i)].first]
                BY Zenon, <4>1 DEF Sorted, Compare
            <4>3. class[s[from(i)].first] \in Int /\ class[s[p].first] \in Int
                BY Zenon, <4>1, PairAt
            <4>4. class[s[from(i)].first] # class[s[p].first]
                BY <4>1, <4>2, <4>3
            <4> QED
                BY Zenon, <1>7, <2>1, <4>4
        <3> QED
            BY Zenon, <1>6, <2>1, <3>1, ValueAbsent
    <2>2. CASE c # class[k] /\ \E m \in 1 .. Len(s) : class[s[m].first] = c
        <3>1. PICK m \in 1 .. Len(s) : class[s[m].first] = c
            BY Zenon, <2>2
        <3>2. PICK i \in 1 .. Len(s) - 1 : from(i) = m
            BY Zenon, <1>5, <2>2, <3>1
        <3>3. ValueOf(t, c) = t[i].second
            BY Zenon, <1>6, <1>7, <1>8, <3>1, <3>2, ValueAt
        <3>4. ValueOf(s, c) = s[m].second
            BY Zenon, <3>1, ValueAt
        <3> QED
            BY Zenon, <1>7, <2>2, <3>2, <3>3, <3>4
    <2>3. CASE c # class[k] /\ ~\E m \in 1 .. Len(s) : class[s[m].first] = c
        <3>1. \A i \in 1 .. Len(t) : class[t[i].first] # c
            BY Zenon, <1>2, <1>6, <1>7, <2>3
        <3>2. ValueOf(t, c) = NoValue /\ ValueOf(s, c) = NoValue
            BY Zenon, <2>3, <3>1, ValueAbsent
        <3> QED
            BY Zenon, <2>3, <3>2
    <2> QED
        BY Zenon, <2>1, <2>2, <2>3
<1>10. MapOf(t) = [MapOf(s) EXCEPT ![class[k]] = NoValue]
    BY Zenon, <1>9 DEF MapOf
<1> QED
    BY Zenon, <1>6, <1>8, <1>10 DEF t

(* A vector without pairs is the empty map.                                *)
LEMMA EmptyVector ==
    <<>> \in Seq(Pair) /\ Sorted(<<>>) /\ MapOf(<<>>) = [c \in Classes |-> NoValue]
BY ValueAbsent DEF Sorted, MapOf
(* A call with the key k is, for the dictionary, one with the class of k.  *)
LEMMA RequestClass ==
    ASSUME NEW k \in Key, NEW op, NEW v
    PROVE  RequestOf(<<op, {k}, v>>) = <<op, {class[k]}, v>>
<1>1. {class[j] : j \in {k}} = {class[k]}
    BY Zenon
<1> QED
    BY Zenon, <1>1 DEF RequestOf
-----------------------------------------------------------------------------
Inv == VectorTypeOK /\ StrictlySorted

(* emplace is Put, in both of its branches.                                *)
LEMMA EmplaceStep ==
    ASSUME Inv, NEW k \in Key, NEW v \in Value, emplace(k, v)
    PROVE  Inv' /\ D!Put(class[k], v)
<1> DEFINE p == lower_bound(container, k)
<1>1. container \in Seq(Pair) /\ Sorted(container)
    BY Zenon DEF Inv, VectorTypeOK, StrictlySorted
<1>2. /\ p \in 1 .. Len(container) + 1
      /\ Hit(container, p, k) => /\ p \in 1 .. Len(container)
                                 /\ class[container[p].first] = class[k]
      /\ ~Hit(container, p, k) =>
            /\ \A i \in 1 .. Len(container) : i < p => Compare(container[i].first, k)
            /\ \A i \in 1 .. Len(container) : i >= p => Compare(k, container[i].first)
            /\ \A i \in 1 .. Len(container) : class[container[i].first] # class[k]
    BY Zenon, <1>1, Search
<1>3. /\ container' = IF Hit(container, p, k) THEN Assign(container, p, v)
                      ELSE Insert(container, p, [first |-> k, second |-> v])
      /\ answer' = answer /\ request' = <<"emplace", {k}, v>>
    BY Zenon DEF emplace
<1> HIDE DEF p
<1>4. IsPut(container, container', k, v)
    <2>1. CASE Hit(container, p, k)
        <3>1. container' = Assign(container, p, v)
            BY Zenon, <1>3, <2>1
        <3>2. IsPut(container, Assign(container, p, v), k, v)
            BY Zenon, <1>1, <1>2, <2>1, AssignAsPut
        <3> QED
            BY Zenon, <3>1, <3>2
    <2>2. CASE ~Hit(container, p, k)
        <3>1. container' = Insert(container, p, [first |-> k, second |-> v])
            BY Zenon, <1>3, <2>2
        <3>2. Gap(container, p, k)
            BY Zenon, <1>2, <2>2 DEF Gap
        <3>3. IsPut(container, Insert(container, p, [first |-> k, second |-> v]), k, v)
            BY Zenon, <1>1, <3>2, InsertAsPut
        <3> QED
            BY Zenon, <3>1, <3>3
    <2> QED
        BY Zenon, <2>1, <2>2
<1>5. RequestOf(request') = <<"emplace", {class[k]}, v>>
    BY Zenon, <1>3, RequestClass
<1> QED
    BY Zenon, <1>3, <1>4, <1>5 DEF IsPut, Inv, VectorTypeOK, StrictlySorted, D!Put

(* erase is Remove, also of a class that is absent.                        *)
LEMMA EraseStep ==
    ASSUME Inv, NEW k \in Key, erase(k)
    PROVE  Inv' /\ D!Remove(class[k])
<1> DEFINE p == lower_bound(container, k)
<1>1. container \in Seq(Pair) /\ Sorted(container)
    BY Zenon DEF Inv, VectorTypeOK, StrictlySorted
<1>2. /\ Hit(container, p, k) => /\ p \in 1 .. Len(container)
                                 /\ class[container[p].first] = class[k]
      /\ ~Hit(container, p, k) =>
            \A i \in 1 .. Len(container) : class[container[i].first] # class[k]
    BY <1>1, Search
<1>3. /\ container' = IF Hit(container, p, k) THEN EraseAt(container, p) ELSE container
      /\ answer' = answer /\ request' = <<"erase", {k}, NoValue>>
    BY Zenon DEF erase
<1> HIDE DEF p
<1>4. /\ container' \in Seq(Pair) /\ Sorted(container')
      /\ MapOf(container') = [MapOf(container) EXCEPT ![class[k]] = NoValue]
    <2>1. CASE Hit(container, p, k)
        BY Zenon, <1>1, <1>2, <1>3, <2>1, EraseAsRemove
    <2>2. CASE ~Hit(container, p, k)
        <3>1. ValueOf(container, class[k]) = NoValue
            BY Zenon, <1>2, <2>2, ValueAbsent
        <3>2. MapOf(container) = [MapOf(container) EXCEPT ![class[k]] = NoValue]
            BY Zenon, <3>1 DEF MapOf
        <3> QED
            BY Zenon, <1>1, <1>3, <2>2, <3>2
    <2> QED
        BY Zenon, <2>1, <2>2
<1>5. RequestOf(request') = <<"erase", {class[k]}, NoValue>>
    BY Zenon, <1>3, RequestClass
<1> QED
    BY Zenon, <1>3, <1>4, <1>5 DEF Inv, VectorTypeOK, StrictlySorted, D!Remove

(* find is Lookup.                                                         *)
LEMMA FindStep ==
    ASSUME Inv, NEW k \in Key, find(k)
    PROVE  Inv' /\ D!Lookup(class[k])
<1> DEFINE p == lower_bound(container, k)
<1>1. container \in Seq(Pair) /\ Sorted(container)
    BY Zenon DEF Inv, VectorTypeOK, StrictlySorted
<1>2. /\ Hit(container, p, k) => /\ p \in 1 .. Len(container)
                                 /\ class[container[p].first] = class[k]
      /\ ~Hit(container, p, k) =>
            \A i \in 1 .. Len(container) : class[container[i].first] # class[k]
    BY <1>1, Search
<1>3. /\ answer' = IF Hit(container, p, k) THEN container[p].second ELSE NoValue
      /\ container' = container /\ request' = <<"find", {k}, NoValue>>
    BY Zenon DEF find
<1> HIDE DEF p
<1>4. answer' = ValueOf(container, class[k]) /\ answer' \in Value \cup {NoValue}
    <2>1. CASE Hit(container, p, k)
        BY Zenon, <1>1, <1>2, <1>3, <2>1, ValueAt, PairAt
    <2>2. CASE ~Hit(container, p, k)
        BY Zenon, <1>2, <1>3, <2>2, ValueAbsent
    <2> QED
        BY Zenon, <2>1, <2>2
<1>5. class[k] \in Classes
    BY Zenon DEF Classes
<1>6. answer' = MapOf(container)[class[k]]
    BY Zenon, <1>4, <1>5 DEF MapOf
<1>7. RequestOf(request') = <<"find", {class[k]}, NoValue>>
    BY Zenon, <1>3, RequestClass
<1> QED
    BY Zenon, <1>1, <1>3, <1>4, <1>6, <1>7 DEF Inv, VectorTypeOK, StrictlySorted, D!Lookup

(* Every step keeps the invariant and is a step of the dictionary.         *)
LEMMA Step == Inv /\ [Next]_vars => Inv' /\ [D!Next]_<<MapOf(container), answer, RequestOf(request)>>
<1> SUFFICES ASSUME Inv, [Next]_vars
             PROVE  Inv' /\ [D!Next]_<<MapOf(container), answer, RequestOf(request)>>
    BY Zenon
<1>0. \A k \in Key : class[k] \in Classes
    BY Zenon DEF Classes
<1>1. ASSUME NEW k \in Key, NEW v \in Value, emplace(k, v) PROVE Inv' /\ D!Next
    BY Zenon, <1>0, <1>1, EmplaceStep DEF D!Next
<1>2. ASSUME NEW k \in Key, erase(k) PROVE Inv' /\ D!Next
    BY Zenon, <1>0, <1>2, EraseStep DEF D!Next
<1>3. ASSUME NEW k \in Key, find(k) PROVE Inv' /\ D!Next
    BY Zenon, <1>0, <1>3, FindStep DEF D!Next
<1>4. CASE clear
    <2>1. Inv' /\ D!Clear
        BY Zenon, <1>4, EmptyVector DEF clear, Inv, VectorTypeOK, StrictlySorted, RequestOf,
                                     D!Clear
    <2> QED
        BY Zenon, <2>1 DEF D!Next
<1>5. CASE UNCHANGED vars
    BY Zenon, <1>5 DEF vars, Inv, VectorTypeOK, StrictlySorted
<1> QED
    BY Zenon, <1>1, <1>2, <1>3, <1>4, <1>5 DEF Next

(* The first state satisfies the invariant and is the empty dictionary.    *)
LEMMA Start == Init => Inv /\ D!Init
BY EmptyVector DEF Init, Inv, VectorTypeOK, StrictlySorted, RequestOf, D!Init

(* The vector is strictly sorted after any sequence of emplace, find,      *)
(* erase and clear, for every set of keys and every strict weak order.     *)
THEOREM AlwaysSorted == Spec => []StrictlySorted
<1>1. Inv => StrictlySorted
    BY Zenon DEF Inv
<1>2. Inv /\ [Next]_vars => Inv'
    BY Zenon, Step
<1> QED
    BY <1>1, <1>2, Start, PTL DEF Spec

(* The VectorMap implements a dictionary over the classes of its keys.     *)
THEOREM VectorImplementsDictionary == Spec => ImplementsDictionary
<1>1. Inv /\ [Next]_vars => Inv' /\ [D!Next]_<<MapOf(container), answer, RequestOf(request)>>
    BY Zenon, Step
<1> QED
    BY <1>1, Start, PTL DEF Spec, ImplementsDictionary, D!Spec
-----------------------------------------------------------------------------
(* KqueuePoller.  Besides what is to be shown: a knote and an event are    *)
(* for a filter that their handler's events() asks for, revents_ has both  *)
(* bits or none, and a handler that was removed has one event left.        *)
Asked(k) == /\ k \in Handler \X Kqueue!Filters
            /\ k[2] \in interest[k[1]]

LastOfHandler ==
    \A d, e \in fired_events : d[1] = e[1] /\ d[1] \notin registered => d = e

KqueueInv ==
    /\ registered \subseteq Handler
    /\ \A k \in knotes : Asked(k)
    /\ \A e \in fired_events : Asked(e)
    /\ Kqueue!RegisteredIsWatched
    /\ Kqueue!StaleFireNeedsTwoFilters
    /\ revents \in [Handler -> {{}, Kqueue!Filters}]
    /\ LastOfHandler

(* One EV_ADD touches no other handler's knotes and adds only what is      *)
(* asked for; without a failure it adds the filter and keeps what there is.*)
LEMMA AddFilterKeeps ==
    ASSUME NEW k, \A n \in k : Asked(n), NEW h \in Handler,
           NEW filter \in Kqueue!Filters, NEW failing
    PROVE  LET added == Kqueue!AddFilter(k, h, filter, failing)
           IN  /\ \A n \in added : Asked(n)
               /\ \A g \in Handler : g # h =>
                     (Kqueue!KnotesOf(g) \subseteq k => Kqueue!KnotesOf(g) \subseteq added)
               /\ failing \cap interest[h] = {} =>
                     /\ k \subseteq added
                     /\ filter \in interest[h] => <<h, filter>> \in added
<1> DEFINE added == Kqueue!AddFilter(k, h, filter, failing)
<1>1. added = IF filter \notin interest[h] THEN k
              ELSE IF filter \in failing THEN k \ Kqueue!KnotesOf(h) ELSE k \cup {<<h, filter>>}
    BY Zenon DEF Kqueue!AddFilter
<1> HIDE DEF added
<1>2. filter \in interest[h] => Asked(<<h, filter>>)
    BY Zenon DEF Asked
<1>3. \A n \in added : Asked(n)
    BY Zenon, <1>1, <1>2
<1>4. ASSUME NEW g \in Handler, g # h, Kqueue!KnotesOf(g) \subseteq k,
             NEW n \in Kqueue!KnotesOf(g)
      PROVE  n \in added
    <2>1. n \notin Kqueue!KnotesOf(h)
        BY Zenon, <1>4 DEF Kqueue!KnotesOf
    <2> QED
        BY Zenon, <1>1, <1>4, <2>1
<1>5. ASSUME failing \cap interest[h] = {}
      PROVE  /\ k \subseteq added
             /\ filter \in interest[h] => <<h, filter>> \in added
    BY Zenon, <1>1, <1>5
<1> QED
    BY Zenon, <1>3, <1>4, <1>5 DEF added

(* AddEventHandler registers a handler only with all its filters.          *)
LEMMA AddStep ==
    ASSUME KqueueInv, NEW h \in Handler, NEW failing \in SUBSET Kqueue!Filters,
           Kqueue!AddEventHandler(h, failing)
    PROVE  KqueueInv'
<1> DEFINE first == Kqueue!AddFilter(knotes, h, "read", failing)
           both == Kqueue!AddFilter(first, h, "write", failing)
<1>1. "read" \in Kqueue!Filters /\ "write" \in Kqueue!Filters
    BY Zenon DEF Kqueue!Filters
<1>2. /\ knotes' = both /\ fired_events' = {}
      /\ registered' = IF failing \cap interest[h] = {} THEN registered \cup {h} ELSE registered
    BY Zenon DEF Kqueue!AddEventHandler
<1>3. \A n \in knotes : Asked(n)
    BY Zenon DEF KqueueInv
<1>4. /\ \A n \in first : Asked(n)
      /\ \A g \in Handler : g # h =>
            (Kqueue!KnotesOf(g) \subseteq knotes => Kqueue!KnotesOf(g) \subseteq first)
      /\ failing \cap interest[h] = {} =>
            ("read" \in interest[h] => <<h, "read">> \in first)
    BY Zenon, <1>1, <1>3, AddFilterKeeps
<1> HIDE DEF first
<1>5. /\ \A n \in both : Asked(n)
      /\ \A g \in Handler : g # h =>
            (Kqueue!KnotesOf(g) \subseteq first => Kqueue!KnotesOf(g) \subseteq both)
      /\ failing \cap interest[h] = {} =>
            /\ first \subseteq both
            /\ "write" \in interest[h] => <<h, "write">> \in both
    BY Zenon, <1>1, <1>4, AddFilterKeeps
<1> HIDE DEF both
<1>6. h \notin registered
    BY Zenon DEF Kqueue!AddEventHandler
<1>7. ASSUME NEW g \in registered' PROVE Kqueue!KnotesOf(g) \subseteq knotes'
    <2>1. CASE g = h
        <3>1. failing \cap interest[h] = {}
            BY Zenon, <1>2, <1>6, <2>1
        <3>2. interest[h] \subseteq {"read", "write"}
            BY Zenon, InterestAssumption DEF Kqueue!Filters
        <3>3. \A filter \in interest[h] : <<h, filter>> \in both
            BY Zenon, <1>4, <1>5, <3>1, <3>2
        <3> QED
            BY <1>2, <2>1, <3>3 DEF Kqueue!KnotesOf
    <2>2. CASE g # h
        <3>1. g \in registered /\ g \in Handler
            BY Zenon, <1>2, <2>2 DEF KqueueInv
        <3>2. Kqueue!KnotesOf(g) \subseteq knotes
            BY Zenon, <3>1 DEF KqueueInv, Kqueue!RegisteredIsWatched
        <3> QED
            BY Zenon, <1>2, <1>4, <1>5, <2>2, <3>1, <3>2
    <2> QED
        BY Zenon, <2>1, <2>2
<1>8. registered' \subseteq Handler
    BY Zenon, <1>2 DEF KqueueInv
<1>9. Kqueue!RegisteredIsWatched'
    BY Zenon, <1>7 DEF Kqueue!RegisteredIsWatched, Kqueue!KnotesOf
<1>10. (\A k \in knotes : Asked(k))' /\ (\A e \in fired_events : Asked(e))'
    BY Zenon, <1>2, <1>5 DEF Asked
<1>11. Kqueue!StaleFireNeedsTwoFilters' /\ LastOfHandler'
    BY Zenon, <1>2 DEF Kqueue!StaleFireNeedsTwoFilters, LastOfHandler
<1>12. revents' \in [Handler -> {{}, Kqueue!Filters}]
    BY Zenon DEF KqueueInv, Kqueue!AddEventHandler
<1> QED
    BY Zenon, <1>8, <1>9, <1>10, <1>11, <1>12 DEF KqueueInv

(* Removing a handler takes only its own knotes.                           *)
LEMMA RemoveKeeps ==
    ASSUME KqueueInv, NEW h \in Handler, Kqueue!RemoveEventHandler(h)
    PROVE  /\ registered' \subseteq Handler
           /\ (\A k \in knotes : Asked(k))'
           /\ Kqueue!RegisteredIsWatched'
<1>1. registered' = registered \ {h} /\ knotes' = knotes \ Kqueue!KnotesOf(h)
    BY Zenon DEF Kqueue!RemoveEventHandler
<1>2. registered' \subseteq Handler
    BY Zenon, <1>1 DEF KqueueInv
<1>3. (\A k \in knotes : Asked(k))'
    BY Zenon, <1>1 DEF KqueueInv, Asked
<1>4. ASSUME NEW g \in registered', NEW n \in Kqueue!KnotesOf(g)
      PROVE  n \in knotes'
    <2>1. g \in registered /\ g # h
        BY Zenon, <1>1
    <2>2. n \in knotes
        BY Zenon, <2>1 DEF KqueueInv, Kqueue!RegisteredIsWatched
    <2>3. n \notin Kqueue!KnotesOf(h)
        BY Zenon, <2>1 DEF Kqueue!KnotesOf
    <2> QED
        BY Zenon, <1>1, <2>2, <2>3
<1>5. Kqueue!RegisteredIsWatched'
    BY Zenon, <1>4 DEF Kqueue!RegisteredIsWatched, Kqueue!KnotesOf
<1> QED
    BY Zenon, <1>2, <1>3, <1>5

(* HandleEvent: another event of the handler removed here is of its other  *)
(* filter, so the handler has both and no third event, and the call that   *)
(* failed was made because revents_ was set.                               *)
LEMMA HandleStep ==
    ASSUME KqueueInv, NEW e \in fired_events, NEW error \in BOOLEAN,
           Kqueue!HandleEvent(e, error)
    PROVE  KqueueInv'
<1>1. /\ fired_events' = fired_events \ {e}
      /\ error => /\ Kqueue!RemoveEventHandler(e[1]) /\ UNCHANGED revents
                  /\ revents[e[1]] \cap interest[e[1]] # {}
      /\ ~error => /\ revents' = [revents EXCEPT ![e[1]] = {}]
                   /\ UNCHANGED <<registered, knotes>>
    BY Zenon DEF Kqueue!HandleEvent
<1>2. \A d \in fired_events : Asked(d)
    BY Zenon DEF KqueueInv
<1>3. e[1] \in Handler
    BY Zenon, <1>2 DEF Asked
<1>4. /\ registered' \subseteq Handler
      /\ (\A k \in knotes : Asked(k))'
      /\ Kqueue!RegisteredIsWatched'
    <2>1. CASE error
        BY Zenon, <1>1, <1>3, <2>1, RemoveKeeps
    <2>2. CASE ~error
        BY Zenon, <1>1, <2>2 DEF KqueueInv, Asked, Kqueue!RegisteredIsWatched, Kqueue!KnotesOf
    <2> QED
        BY Zenon, <2>1, <2>2
<1>5. (\A d \in fired_events : Asked(d))'
    BY Zenon, <1>1, <1>2 DEF Asked
<1>6. revents \in [Handler -> {{}, Kqueue!Filters}] /\ LastOfHandler
    BY Zenon DEF KqueueInv
<1>7. revents' \in [Handler -> {{}, Kqueue!Filters}]
    BY Zenon, <1>1, <1>6
<1>8. ASSUME NEW d \in fired_events', d[1] \notin registered', d[1] \in registered
      PROVE  error /\ d[1] = e[1] /\ d[2] # e[2] /\ interest[d[1]] = Kqueue!Filters
    <2>1. d \in fired_events /\ d # e
        BY Zenon, <1>1, <1>8
    <2>2. error /\ d[1] = e[1]
        BY Zenon, <1>1, <1>8 DEF Kqueue!RemoveEventHandler
    <2>3. /\ d \in Handler \X Kqueue!Filters /\ d[2] \in interest[d[1]]
          /\ e \in Handler \X Kqueue!Filters /\ e[2] \in interest[e[1]]
        BY Zenon, <1>2, <2>1 DEF Asked
    <2>4. d[2] # e[2]
        BY <2>1, <2>2, <2>3
    <2>5. interest[d[1]] \subseteq Kqueue!Filters /\ Kqueue!Filters = {"read", "write"}
        BY Zenon, <2>3, InterestAssumption DEF Kqueue!Filters
    <2> QED
        BY Zenon, <2>2, <2>3, <2>4, <2>5
<1>9. ASSUME NEW d \in fired_events', d[1] \notin registered'
      PROVE  interest[d[1]] = Kqueue!Filters /\ revents'[d[1]] = Kqueue!Filters
    <2>1. d \in fired_events /\ d # e /\ d[1] \in Handler
        BY Zenon, <1>1, <1>2, <1>9 DEF Asked
    <2>2. CASE d[1] \notin registered
        <3>1. interest[d[1]] = Kqueue!Filters /\ revents[d[1]] = Kqueue!Filters
            BY Zenon, <2>1, <2>2 DEF KqueueInv, Kqueue!StaleFireNeedsTwoFilters
        <3>2. d[1] # e[1]
            BY Zenon, <1>6, <2>1, <2>2 DEF LastOfHandler
        <3>3. revents'[d[1]] = revents[d[1]]
            BY Zenon, <1>1, <1>3, <1>6, <2>1, <3>2
        <3> QED
            BY Zenon, <3>1, <3>3
    <2>3. CASE d[1] \in registered
        <3>1. error /\ d[1] = e[1] /\ interest[d[1]] = Kqueue!Filters
            BY Zenon, <1>8, <1>9, <2>3
        <3>2. revents' = revents /\ revents[d[1]] # {}
            BY Zenon, <1>1, <3>1
        <3> QED
            BY Zenon, <1>6, <2>1, <3>1, <3>2
    <2> QED
        BY Zenon, <2>2, <2>3
<1>10. ASSUME NEW c \in fired_events', NEW d \in fired_events', c[1] = d[1],
              c[1] \notin registered'
       PROVE  c = d
    <2>1. c \in fired_events /\ d \in fired_events
        BY Zenon, <1>1, <1>10
    <2>2. CASE c[1] \notin registered
        BY Zenon, <1>6, <1>10, <2>1, <2>2 DEF LastOfHandler
    <2>3. CASE c[1] \in registered
        <3>1. c[2] # e[2] /\ d[2] # e[2]
            BY Zenon, <1>8, <1>10, <2>3
        <3>2. /\ c \in Handler \X {"read", "write"} /\ d \in Handler \X {"read", "write"}
              /\ e \in Handler \X {"read", "write"}
            BY Zenon, <1>2, <2>1 DEF Asked, Kqueue!Filters
        <3> QED
            BY <1>10, <3>1, <3>2
    <2> QED
        BY Zenon, <2>2, <2>3
<1>11. Kqueue!StaleFireNeedsTwoFilters' /\ LastOfHandler'
    BY Zenon, <1>9, <1>10 DEF Kqueue!StaleFireNeedsTwoFilters, LastOfHandler, Kqueue!Filters
<1> QED
    BY Zenon, <1>4, <1>5, <1>7, <1>11 DEF KqueueInv

(* For all handlers and interests, and whatever kevent(2) fails: who is    *)
(* registered is watched for all that events() asked for, and an event     *)
(* that is still to be handled outlives its handler's registration only    *)
(* where the handler has both filters, and then finds revents_ still set.  *)
THEOREM KqueueFollowsHandlers == Kqueue!Spec => []KnotesFollowHandlers
<1>1. Kqueue!Init => KqueueInv
    BY Zenon DEF Kqueue!Init, KqueueInv, Kqueue!RegisteredIsWatched, Kqueue!StaleFireNeedsTwoFilters,
                 LastOfHandler
<1>2. KqueueInv /\ [Kqueue!Next]_(Kqueue!kqueue_vars) => KqueueInv'
    <2> SUFFICES ASSUME KqueueInv, [Kqueue!Next]_(Kqueue!kqueue_vars)
                 PROVE  KqueueInv'
        BY Zenon
    <2>1. ASSUME NEW h \in Handler, Kqueue!Remove(h) PROVE KqueueInv'
        <3>1. Kqueue!RemoveEventHandler(h) /\ fired_events' = {} /\ UNCHANGED revents
            BY Zenon, <2>1 DEF Kqueue!Remove
        <3>2. /\ (\A e \in fired_events : Asked(e))' /\ Kqueue!StaleFireNeedsTwoFilters'
              /\ LastOfHandler'
            BY Zenon, <3>1 DEF Kqueue!StaleFireNeedsTwoFilters, LastOfHandler
        <3> QED
            BY Zenon, <3>1, <3>2, RemoveKeeps DEF KqueueInv
    <2>2. ASSUME NEW h \in Handler, NEW failing \in SUBSET Kqueue!Filters,
                 Kqueue!AddEventHandler(h, failing)
          PROVE  KqueueInv'
        BY Zenon, <2>2, AddStep
    <2>3. ASSUME NEW ready, Kqueue!PollOnce(ready) PROVE KqueueInv'
        <3>1. /\ fired_events' \subseteq knotes /\ \A e \in fired_events' : e[1] \in registered
              /\ registered' = registered /\ knotes' = knotes
            BY Zenon, <2>3 DEF Kqueue!PollOnce, Kqueue!Fired
        <3>2. revents' = [h \in Handler |-> IF \E e \in Kqueue!Fired(ready) : e[1] = h
                                           THEN Kqueue!Filters ELSE revents[h]]
            BY Zenon, <2>3 DEF Kqueue!PollOnce, Kqueue!Mask
        <3>3. revents' \in [Handler -> {{}, Kqueue!Filters}]
            BY Zenon, <3>2 DEF KqueueInv
        <3>4. Kqueue!StaleFireNeedsTwoFilters' /\ LastOfHandler'
            BY Zenon, <3>1 DEF Kqueue!StaleFireNeedsTwoFilters, LastOfHandler
        <3> QED
            BY Zenon, <3>1, <3>3, <3>4 DEF KqueueInv, Asked, Kqueue!RegisteredIsWatched,
                        Kqueue!KnotesOf
    <2>4. ASSUME NEW e \in fired_events, NEW error \in BOOLEAN, Kqueue!HandleEvent(e, error)
          PROVE  KqueueInv'
        BY Zenon, <2>4, HandleStep
    <2>5. CASE UNCHANGED Kqueue!kqueue_vars
        BY Zenon, <2>5 DEF Kqueue!kqueue_vars, KqueueInv, Asked, Kqueue!RegisteredIsWatched,
                    Kqueue!StaleFireNeedsTwoFilters, Kqueue!KnotesOf, LastOfHandler
    <2> QED
        BY Zenon, <2>1, <2>2, <2>3, <2>4, <2>5 DEF Kqueue!Next
<1>3. KqueueInv => KnotesFollowHandlers
    BY Zenon DEF KqueueInv, KnotesFollowHandlers, Kqueue!KnotesFollowHandlers
<1> QED
    BY <1>1, <1>2, <1>3, PTL DEF Kqueue!Spec
-----------------------------------------------------------------------------
(* ListenSocket.  How often the acceptor has closed its number, and whose  *)
(* it is, by phase: DestoryFD does nothing for descriptor 0, Listen does.  *)
Refused == {"refused", "refused_again", "refused_for_good"}
Phase == {"none", "made", "listening", "closed", "gone"} \cup Refused

Closes(p, d) ==
    IF p = "refused" THEN 1
    ELSE IF d = 0 THEN IF p \in Refused THEN 1 ELSE 0
    ELSE IF p = "closed" THEN 1
    ELSE IF p \in {"gone", "refused_again"} THEN 2
    ELSE IF p = "refused_for_good" THEN 3 ELSE 0

ListenInv ==
    /\ open \in [Descriptor -> {"free", "acceptor", "other"}]
    /\ phase \in Phase
    /\ phase # "none" => fd \in Descriptor
    /\ released = Closes(phase, fd)
    /\ \A d \in Descriptor :
          open[d] = "acceptor" <=> phase # "none" /\ released = 0 /\ d = fd
    /\ victims \subseteq {fd} \X {n \in {1, 2} : n < released}

(* The same as a table.                                                    *)
LEMMA ClosesTable ==
    ASSUME NEW d
    PROVE  /\ Closes("none", d) = 0 /\ Closes("made", d) = 0 /\ Closes("listening", d) = 0
           /\ Closes("closed", d) = IF d = 0 THEN 0 ELSE 1
           /\ Closes("gone", d) = IF d = 0 THEN 0 ELSE 2
           /\ Closes("refused", d) = 1
           /\ Closes("refused_again", d) = IF d = 0 THEN 1 ELSE 2
           /\ Closes("refused_for_good", d) = IF d = 0 THEN 1 ELSE 3
BY Zenon DEF Closes, Refused

(* The lowest free descriptor is free.                                     *)
LEMMA LowestIsFree ==
    ASSUME Listening!Free # {}
    PROVE  Listening!Lowest \in Descriptor /\ open[Listening!Lowest] = "free"
<1>1. Listening!Free \subseteq Nat
    BY Zenon, DescriptorAssumption DEF Listening!Free
<1>2. \E d \in Listening!Free : \A e \in Listening!Free : d <= e
    BY Zenon, <1>1, FirstPosition
<1>3. Listening!Lowest \in Listening!Free
    BY Zenon, <1>2 DEF Listening!Lowest
<1> QED
    BY Zenon, <1>3 DEF Listening!Free

(* close(2) leaves nothing to the acceptor; only its second and third call *)
(* can meet another's descriptor.                                          *)
LEMMA CloseStep ==
    ASSUME ListenInv, phase # "none", released \in {0, 1, 2}, Listening!Closed,
           phase' \in Phase \ {"none"}, Closes(phase', fd') = released + 1
    PROVE  ListenInv'
<1>1. /\ open' = [open EXCEPT ![fd] = "free"]
      /\ victims' = IF open[fd] = "other" THEN victims \cup {<<fd, released>>} ELSE victims
      /\ released' = released + 1 /\ fd' = fd
    BY Zenon DEF Listening!Closed
<1>2. /\ open \in [Descriptor -> {"free", "acceptor", "other"}] /\ fd \in Descriptor
      /\ \A d \in Descriptor : open[d] = "acceptor" <=> released = 0 /\ d = fd
      /\ victims \subseteq {fd} \X {n \in {1, 2} : n < released}
    BY Zenon DEF ListenInv
<1>3. open' \in [Descriptor -> {"free", "acceptor", "other"}]
    BY Zenon, <1>1, <1>2
<1>4. released' # 0
    BY <1>1
<1>5. \A d \in Descriptor : open'[d] # "acceptor"
    BY Zenon, <1>1, <1>2
<1>6. open[fd] = "other" => released \in {1, 2}
    BY Zenon, <1>2
<1>7. victims' \subseteq {fd} \X {n \in {1, 2} : n < released'}
    <2>1. \A n \in {1, 2} : n < released => n < released + 1
        OBVIOUS
    <2>2. released < released + 1
        OBVIOUS
    <2> QED
        BY <1>1, <1>2, <1>6, <2>1, <2>2
<1> QED
    BY Zenon, <1>1, <1>2, <1>3, <1>4, <1>5, <1>7 DEF ListenInv

(* SocketOption::DestoryFD, which spares descriptor 0.                     *)
LEMMA DestoryStep ==
    ASSUME ListenInv, phase # "none", released \in {0, 1, 2}, Listening!DestoryFD,
           phase' \in Phase \ {"none"},
           Closes(phase', fd') = IF fd = 0 THEN released ELSE released + 1
    PROVE  ListenInv'
<1>1. CASE fd = 0
    BY Zenon, <1>1 DEF Listening!DestoryFD, ListenInv
<1>2. CASE fd # 0
    BY Zenon, <1>2, CloseStep DEF Listening!DestoryFD
<1> QED
    BY Zenon, <1>1, <1>2

(* Every step of the acceptor and of the other threads.                    *)
LEMMA ListenStep ==
    ListenInv /\ [Listening!Next]_(Listening!listen_vars) => ListenInv'
<1> SUFFICES ASSUME ListenInv, [Listening!Next]_(Listening!listen_vars)
             PROVE  ListenInv'
    BY Zenon
<1>1. CASE Listening!NewFD
    <2> DEFINE low == Listening!Lowest
    <2>1. low \in Descriptor /\ open[low] = "free"
        BY Zenon, <1>1, LowestIsFree DEF Listening!NewFD
    <2>2. /\ phase = "none" /\ fd' = low /\ open' = [open EXCEPT ![low] = "acceptor"]
          /\ phase' = "made" /\ victims' = victims /\ released' = released
        BY Zenon, <1>1 DEF Listening!NewFD
    <2> HIDE DEF low
    <2>3. released = 0 /\ Closes(phase', fd') = 0
        BY Zenon, <2>2, ClosesTable DEF ListenInv
    <2>4. victims = {}
        BY <2>3 DEF ListenInv
    <2>5. open' \in [Descriptor -> {"free", "acceptor", "other"}]
        BY Zenon, <2>1, <2>2 DEF ListenInv
    <2>6. \A d \in Descriptor : open'[d] = "acceptor" <=> d = low
        BY Zenon, <2>1, <2>2 DEF ListenInv
    <2> QED
        BY Zenon, <2>1, <2>2, <2>3, <2>4, <2>5, <2>6 DEF ListenInv, Phase
<1>2. ASSUME NEW ok \in BOOLEAN, Listening!Listen(ok) PROVE ListenInv'
    <2>1. phase = "made" /\ released = 0
        BY Zenon, <1>2, ClosesTable DEF Listening!Listen, ListenInv
    <2>2. CASE ok
        BY <1>2, <2>1, <2>2, ClosesTable DEF Listening!Listen, ListenInv, Phase, Refused
    <2>3. CASE ~ok
        <3>1. Listening!Closed /\ phase' = "refused"
            BY Zenon, <1>2, <2>3 DEF Listening!Listen
        <3>2. Closes(phase', fd') = released + 1
            BY <2>1, <3>1, ClosesTable
        <3>3. phase' \in Phase \ {"none"}
            BY Zenon, <3>1 DEF Phase, Refused
        <3> QED
            BY Zenon, <2>1, <3>1, <3>2, <3>3, CloseStep
    <2> QED
        BY Zenon, <2>2, <2>3
<1>3. CASE Listening!DestroyAcceptor
    <2>1. /\ phase \in {"made", "listening", "refused"}
          /\ Listening!DestoryFD
          /\ phase' = IF phase = "refused" THEN "refused_again" ELSE "closed"
        BY Zenon, <1>3 DEF Listening!DestroyAcceptor
    <2>2. released = IF phase = "refused" THEN 1 ELSE 0
        BY Zenon, <2>1, ClosesTable DEF ListenInv
    <2>3. fd' = fd
        BY Zenon, <2>1 DEF Listening!DestoryFD, Listening!Closed
    <2>4. Closes(phase', fd') = IF fd = 0 THEN released ELSE released + 1
        BY <2>1, <2>2, <2>3, ClosesTable
    <2>5. phase' \in Phase \ {"none"}
        BY Zenon, <2>1 DEF Phase, Refused
    <2> QED
        BY Zenon, <2>1, <2>2, <2>4, <2>5, DestoryStep
<1>4. CASE Listening!DestroyHandler
    <2>1. /\ phase \in {"closed", "refused_again"}
          /\ Listening!DestoryFD
          /\ phase' = IF phase = "refused_again" THEN "refused_for_good" ELSE "gone"
        BY Zenon, <1>4 DEF Listening!DestroyHandler
    <2>2. released = IF phase = "closed" THEN (IF fd = 0 THEN 0 ELSE 1)
                     ELSE (IF fd = 0 THEN 1 ELSE 2)
        BY Zenon, <2>1, ClosesTable DEF ListenInv
    <2>3. fd' = fd
        BY Zenon, <2>1 DEF Listening!DestoryFD, Listening!Closed
    <2>4. Closes(phase', fd') = IF fd = 0 THEN released ELSE released + 1
        BY <2>1, <2>2, <2>3, ClosesTable
    <2>5. phase' \in Phase \ {"none"}
        BY Zenon, <2>1 DEF Phase, Refused
    <2> QED
        BY Zenon, <2>1, <2>2, <2>4, <2>5, DestoryStep
<1>5. CASE Listening!Open
    <2> DEFINE low == Listening!Lowest
    <2>1. low \in Descriptor /\ open[low] = "free"
        BY Zenon, <1>5, LowestIsFree DEF Listening!Open
    <2>2. open' = [open EXCEPT ![low] = "other"] /\ UNCHANGED <<fd, phase, victims, released>>
        BY Zenon, <1>5 DEF Listening!Open
    <2> HIDE DEF low
    <2> QED
        BY Zenon, <2>1, <2>2 DEF ListenInv
<1>6. ASSUME NEW d \in Descriptor, Listening!Close(d) PROVE ListenInv'
    <2>1. /\ open[d] = "other" /\ open' = [open EXCEPT ![d] = "free"]
          /\ UNCHANGED <<fd, phase, victims, released>>
        BY Zenon, <1>6 DEF Listening!Close
    <2> QED
        BY Zenon, <2>1 DEF ListenInv
<1>7. CASE UNCHANGED Listening!listen_vars
    BY Zenon, <1>7 DEF Listening!listen_vars, ListenInv
<1> QED
    BY Zenon, <1>1, <1>2, <1>3, <1>4, <1>5, <1>6, <1>7 DEF Listening!Next

(* For every set of descriptors and whatever other threads open and close: *)
(* an acceptor's first close is of its own descriptor, only the second and *)
(* (after a failed Listen) the third can hit another's, and none does for  *)
(* descriptor 0, which stays open for ever if Listen succeeded.            *)
THEOREM ClosesForeignOnlyLater == Listening!Spec => []ForeignCloses
<1>1. Listening!Init => ListenInv
    BY ClosesTable DEF Listening!Init, ListenInv, Phase
<1>2. ListenInv => ForeignCloses
    <2> SUFFICES ASSUME ListenInv PROVE ForeignCloses
        BY Zenon
    <2>1. phase # "none" /\ released = 0 => open[fd] = "acceptor"
        BY Zenon DEF ListenInv
    <2>2. released > 0 => \A d \in Descriptor : open[d] # "acceptor"
        BY DEF ListenInv
    <2>3. /\ fd = 0 => released \in {0, 1}
          /\ fd = 0 /\ phase = "gone" => released = 0
          /\ released \in {0, 1, 2, 3}
          /\ released = 3 => phase = "refused_for_good"
        BY ClosesTable DEF ListenInv, Phase, Refused
    <2>4. released \in {0, 1} => victims = {}
        BY DEF ListenInv
    <2>5. fd = 0 /\ phase = "gone" => open[fd] = "acceptor"
        BY Zenon, <2>1, <2>3
    <2>6. victims \subseteq {fd} \X (IF phase = "refused_for_good" THEN {1, 2} ELSE {1})
        <3>1. {n \in {1, 2} : n < released} \subseteq
                  (IF phase = "refused_for_good" THEN {1, 2} ELSE {1})
            BY <2>3
        <3> QED
            BY Zenon, <3>1 DEF ListenInv
    <2> QED
        BY Zenon, <2>1, <2>2, <2>3, <2>4, <2>5, <2>6 DEF ForeignCloses, Listening!ForeignCloses
<1> QED
    BY <1>1, <1>2, ListenStep, PTL DEF Listening!Spec
-----------------------------------------------------------------------------
(* LogHeader.  Arithmetic of seconds (Second milliseconds each) first.     *)

(* Whole seconds and the milliseconds that are left.                       *)
LEMMA Seconds ==
    ASSUME NEW a \in Nat, NEW n \in Nat \ {0}
    PROVE  /\ a \div n \in Nat /\ a % n \in 0 .. n - 1
           /\ (a \div n) * n \in Nat /\ a = (a \div n) * n + (a % n)
OBVIOUS

(* More seconds are more milliseconds.                                     *)
LEMMA MoreSeconds ==
    ASSUME NEW a \in Int, NEW b \in Int, NEW n \in Nat \ {0}, a <= b
    PROVE  a * n <= b * n /\ a * n \in Int /\ b * n \in Int
OBVIOUS

(* A second less is n milliseconds less.                                   *)
LEMMA SecondLess ==
    ASSUME NEW a \in Int, NEW n \in Nat \ {0}
    PROVE  /\ (a - 1) * n = a * n - n /\ (a - 2) * n = a * n - 2 * n
           /\ a * n \in Int
OBVIOUS

(* What a line shows whose milliseconds were read at r, and its seconds    *)
(* later, at c, from a clock that lags, or kept from an earlier line: it   *)
(* is less than a second after c and at most a second before r.            *)
LEMMA ShownNear ==
    ASSUME NEW n \in Nat \ {0}, NEW r \in Nat, NEW c \in Nat, r <= c,
           NEW lag \in 0 .. n - 1, lag <= c,
           NEW t \in Nat, t * n <= c,
           NEW second, second = IF (c - lag) \div n > t THEN (c - lag) \div n ELSE t
    PROVE  /\ second \in Nat /\ second * n <= c
           /\ r - n <= second * n + (r % n)
           /\ second * n + (r % n) < c + n
<1> DEFINE q == (c - lag) \div n
           p == r \div n
           ms == r % n
<1>1. c - lag \in Nat /\ lag \in Nat /\ lag < n
    OBVIOUS
<1>2. q \in Nat /\ q * n \in Nat /\ c - lag < q * n + n /\ q * n <= c - lag
    <2> DEFINE a == c - lag
    <2>1. /\ a \in Nat /\ q \in Nat /\ a % n \in 0 .. n - 1
          /\ q * n \in Nat /\ a = q * n + (a % n)
        BY Zenon, <1>1, Seconds
    <2> HIDE DEF a, q
    <2>2. a < q * n + n /\ q * n <= a
        BY <2>1
    <2> QED
        BY Zenon, <2>1, <2>2 DEF a
<1>3. p \in Nat /\ ms \in 0 .. n - 1 /\ p * n \in Nat /\ r = p * n + ms
    BY Zenon, Seconds
<1>4. second = IF q > t THEN q ELSE t
    BY Zenon
<1> HIDE DEF q, p, ms
<1>5. second \in Nat /\ q <= second
    BY <1>2, <1>4
<1>6. q * n <= second * n /\ second * n \in Int
    BY <1>2, <1>5, MoreSeconds
<1>7. second * n <= c
    <2>1. q * n <= c
        BY <1>1, <1>2
    <2> QED
        BY Zenon, <1>4, <2>1
<1>8. p - 1 <= q
    <2> SUFFICES ASSUME q <= p - 2 PROVE FALSE
        BY <1>2, <1>3
    <2>1. q * n <= (p - 2) * n
        BY <1>2, <1>3, MoreSeconds
    <2>2. (p - 2) * n = p * n - 2 * n
        BY <1>3, SecondLess
    <2>3. q * n <= r - 2 * n
        BY <1>2, <1>3, <2>1, <2>2
    <2> QED
        BY <1>1, <1>2, <2>3
<1>9. p * n - n <= q * n
    <2>1. (p - 1) * n <= q * n
        BY <1>2, <1>3, <1>8, MoreSeconds
    <2> QED
        BY <1>3, <2>1, SecondLess
<1>10. r - n <= second * n + ms
    BY <1>2, <1>3, <1>6, <1>9
<1>11. second * n + ms < c + n
    BY <1>3, <1>6, <1>7
<1> QED
    BY Zenon, <1>5, <1>7, <1>10, <1>11 DEF ms

(* Besides what is to be shown: the milliseconds of a call under way were  *)
(* read after it began, and while nobody sets the clock back the second    *)
(* that is kept is not ahead of it.                                        *)
HeaderOK ==
    \/ header = Stamp!None
    \/ /\ header.at = "begun" /\ header.begun \in Nat
       /\ ~set_back => header.begun <= clock
    \/ /\ header.at = "read" /\ header.begun \in Nat /\ header.ms \in Nat
       /\ ~set_back =>
             \E r \in Nat : header.begun <= r /\ r <= clock /\ header.ms = r % Second

StampInv ==
    /\ clock \in Nat /\ 2 * Second <= clock /\ set_back \in BOOLEAN
    /\ t_time \in Nat
    /\ HeaderOK
    /\ stamp \in [second : Nat, ms : Nat, begun : Nat, ended : Nat]
    /\ stamp.second = IF t_time = 0 THEN 1 ELSE t_time
    /\ ~set_back => t_time * Second <= clock
    /\ Stamp!StampNearClock

(* Time that passes keeps what is known of the call under way.             *)
LEMMA AdvanceStep ==
    ASSUME StampInv, Stamp!Advance
    PROVE  StampInv' /\ stamp' = stamp
<1>1. clock' = clock + 1 /\ UNCHANGED <<set_back, t_time, header, stamp>>
    BY Zenon DEF Stamp!Advance
<1>2. clock \in Nat /\ 2 * Second \in Nat /\ 2 * Second <= clock
    BY LagAssumption DEF StampInv
<1>3. clock' \in Nat /\ 2 * Second <= clock' /\ clock <= clock'
    BY <1>1, <1>2
<1>4. \A r \in Nat : r <= clock => r <= clock'
    BY <1>2, <1>3
<1>5. HeaderOK'
    BY Zenon, <1>1, <1>4 DEF StampInv, HeaderOK, Stamp!None
<1>6. ~set_back => t_time * Second <= clock'
    <2>1. t_time * Second \in Nat
        BY LagAssumption DEF StampInv
    <2> QED
        BY Zenon, <1>4, <2>1 DEF StampInv
<1> QED
    BY Zenon, <1>1, <1>3, <1>5, <1>6 DEF StampInv, Stamp!StampNearClock

(* A clock set back leaves nothing to promise but the order of seconds.    *)
LEMMA SetBackStep ==
    ASSUME StampInv, NEW t, Stamp!SetBack(t)
    PROVE  StampInv' /\ stamp' = stamp
<1>1. t \in 2 * Second .. clock - 1 /\ clock' = t /\ set_back' = TRUE
      /\ UNCHANGED <<t_time, header, stamp>>
    BY Zenon DEF Stamp!SetBack
<1>2. clock' \in Nat /\ 2 * Second <= clock'
    BY <1>1, LagAssumption DEF StampInv
<1>3. HeaderOK'
    BY Zenon, <1>1 DEF StampInv, HeaderOK, Stamp!None
<1> QED
    BY Zenon, <1>1, <1>2, <1>3 DEF StampInv, Stamp!StampNearClock

(* The call begins, then reads its milliseconds.                           *)
LEMMA BeginStep ==
    ASSUME StampInv, Stamp!Begin \/ Stamp!GetCurrentTime
    PROVE  StampInv' /\ stamp' = stamp
<1>1. UNCHANGED <<clock, set_back, t_time, stamp>>
    BY Zenon DEF Stamp!Begin, Stamp!GetCurrentTime
<1>2. clock \in Nat
    BY Zenon DEF StampInv
<1>3. CASE Stamp!Begin
    <2>1. header' = [at |-> "begun", begun |-> clock]
        BY Zenon, <1>3 DEF Stamp!Begin
    <2>2. header'.at = "begun" /\ header'.begun = clock
        BY Zenon, <2>1
    <2>3. HeaderOK'
        BY <1>1, <1>2, <2>2 DEF HeaderOK
    <2> QED
        BY Zenon, <1>1, <2>3 DEF StampInv, Stamp!StampNearClock
<1>4. CASE Stamp!GetCurrentTime
    <2>1. /\ header.at = "begun"
          /\ header' = [at |-> "read", begun |-> header.begun, ms |-> clock % Second]
        BY Zenon, <1>4 DEF Stamp!GetCurrentTime
    <2>2. header'.at = "read" /\ header'.begun = header.begun /\ header'.ms = clock % Second
        BY Zenon, <2>1
    <2>3. clock % Second \in Nat
        BY <1>2, LagAssumption, Seconds
    <2>4. header.begun \in Nat /\ (~set_back => header.begun <= clock)
        BY <2>1 DEF StampInv, HeaderOK, Stamp!None
    <2>5. HeaderOK'
        BY <1>1, <1>2, <2>2, <2>3, <2>4 DEF HeaderOK
    <2> QED
        BY Zenon, <1>1, <2>5 DEF StampInv, Stamp!StampNearClock
<1> QED
    BY Zenon, <1>3, <1>4

(* The line is made: here the two halves of its stamp meet.                *)
LEMMA GenerateStep ==
    ASSUME StampInv, NEW lag \in 0 .. Lag, Stamp!GenerateLogHeader(lag)
    PROVE  StampInv' /\ stamp'.second >= stamp.second
<1> DEFINE q == (clock - lag) \div Second
<1>1. /\ header.at = "read" /\ header' = Stamp!None /\ clock' = clock /\ set_back' = set_back
      /\ t_time' = IF q > t_time THEN q ELSE t_time
      /\ stamp' = [second |-> t_time', ms |-> header.ms, begun |-> header.begun, ended |-> clock]
    BY Zenon DEF Stamp!GenerateLogHeader, Stamp!Refreshed
<1>2. /\ clock \in Nat /\ 2 * Second <= clock /\ Second \in Nat \ {0}
      /\ lag \in 0 .. Second - 1 /\ lag <= clock /\ t_time \in Nat
    BY LagAssumption DEF StampInv
<1>3. /\ header.begun \in Nat /\ header.ms \in Nat
      /\ ~set_back =>
            \E r \in Nat : header.begun <= r /\ r <= clock /\ header.ms = r % Second
    BY <1>1 DEF StampInv, HeaderOK, Stamp!None
<1>4. q \in Nat /\ 1 <= q
    <2>1. clock - lag \in Nat /\ Second <= clock - lag
        BY <1>2
    <2>2. /\ q \in Nat /\ (clock - lag) % Second \in 0 .. Second - 1
          /\ q * Second \in Nat
          /\ clock - lag = q * Second + ((clock - lag) % Second)
        BY Zenon, <1>2, <2>1, Seconds
    <2> HIDE DEF q
    <2>3. q # 0
        BY <1>2, <2>1, <2>2
    <2> QED
        BY <2>2, <2>3
<1>5. ~set_back =>
          /\ t_time' * Second <= clock
          /\ header.begun - Second <= t_time' * Second + header.ms
          /\ t_time' * Second + header.ms < clock + Second
    <2> SUFFICES ASSUME ~set_back
                 PROVE  /\ t_time' * Second <= clock
                        /\ header.begun - Second <= t_time' * Second + header.ms
                        /\ t_time' * Second + header.ms < clock + Second
        BY Zenon
    <2>1. PICK r \in Nat : header.begun <= r /\ r <= clock /\ header.ms = r % Second
        BY Zenon, <1>3
    <2>2. t_time * Second <= clock
        BY Zenon DEF StampInv
    <2>3. /\ t_time' \in Nat /\ t_time' * Second <= clock
          /\ r - Second <= t_time' * Second + (r % Second)
          /\ t_time' * Second + (r % Second) < clock + Second
        BY Zenon, <1>1, <1>2, <2>1, <2>2, ShownNear
    <2>4. t_time' * Second \in Int
        BY <1>2, <2>3, MoreSeconds
    <2>5. /\ r - Second <= t_time' * Second + header.ms
          /\ t_time' * Second + header.ms < clock + Second
        BY Zenon, <2>1, <2>3
    <2>6. header.begun - Second <= r - Second
        BY <1>2, <1>3, <2>1
    <2> DEFINE x == t_time' * Second
    <2>7. x \in Int /\ r - Second <= x + header.ms
        BY Zenon, <2>4, <2>5
    <2> HIDE DEF x
    <2>8. header.begun - Second <= x + header.ms
        BY <1>2, <1>3, <2>6, <2>7
    <2> QED
        BY Zenon, <2>3, <2>5, <2>8 DEF x
<1> HIDE DEF q
<1>6. t_time' \in Nat /\ t_time' # 0 /\ t_time' >= t_time
    BY <1>1, <1>2, <1>4
<1>7. /\ stamp'.second = t_time' /\ stamp'.ms = header.ms /\ stamp'.begun = header.begun
      /\ stamp'.ended = clock
      /\ stamp' \in [second : Nat, ms : Nat, begun : Nat, ended : Nat]
    BY Zenon, <1>1, <1>2, <1>3, <1>6
<1>8. Stamp!StampNearClock'
    BY Zenon, <1>1, <1>5, <1>7 DEF Stamp!StampNearClock
<1>9. HeaderOK'
    BY Zenon, <1>1 DEF HeaderOK, Stamp!None
<1>10. StampInv'
    BY Zenon, <1>1, <1>2, <1>5, <1>6, <1>7, <1>8, <1>9 DEF StampInv
<1>11. stamp.second = IF t_time = 0 THEN 1 ELSE t_time
    BY Zenon DEF StampInv
<1> QED
    BY <1>2, <1>6, <1>7, <1>10, <1>11

(* For every length of a second, every lag below it and every course of    *)
(* the clock: each line shows the time of its call to within a second,     *)
(* until the clock is set back, and the seconds of a thread's lines never  *)
(* go back, even then.                                                     *)
THEOREM LinesFollowClock == Stamp!Spec => StampFollowsClock
<1>1. Stamp!Init => StampInv
    <2> SUFFICES ASSUME Stamp!Init PROVE StampInv
        BY Zenon
    <2>1. /\ clock = 2 * Second /\ set_back = FALSE /\ t_time = 0 /\ header = Stamp!None
          /\ stamp = [second |-> 1, ms |-> 0, begun |-> clock, ended |-> clock]
        BY Zenon DEF Stamp!Init
    <2>2. clock \in Nat /\ 2 * Second <= clock /\ 0 * Second <= clock
        BY <2>1, LagAssumption
    <2>3. /\ stamp \in [second : Nat, ms : Nat, begun : Nat, ended : Nat]
          /\ stamp.second = 1 /\ stamp.ms = 0 /\ stamp.begun = clock /\ stamp.ended = clock
        BY Zenon, <2>1, <2>2
    <2>4. clock - Second <= 1 * Second + 0 /\ 1 * Second + 0 < clock + Second
        BY <2>1, LagAssumption
    <2>5. Stamp!StampNearClock
        BY Zenon, <2>3, <2>4 DEF Stamp!StampNearClock
    <2> QED
        BY Zenon, <2>1, <2>2, <2>3, <2>5 DEF StampInv, HeaderOK
<1>2. StampInv /\ [Stamp!Next]_(Stamp!header_vars) =>
          StampInv' /\ [Stamp!LineFollowsClock]_stamp_vars
    <2> SUFFICES ASSUME StampInv, [Stamp!Next]_(Stamp!header_vars)
                 PROVE  StampInv' /\ [Stamp!LineFollowsClock]_stamp_vars
        BY Zenon
    <2>1. stamp.second \in Nat
        BY Zenon DEF StampInv
    <2>2. ASSUME StampInv', stamp' = stamp \/ stamp'.second >= stamp.second
          PROVE  Stamp!LineFollowsClock
        BY <2>1, <2>2 DEF StampInv, Stamp!LineFollowsClock
    <2>3. CASE Stamp!Next
        BY Zenon, <2>2, <2>3, AdvanceStep, SetBackStep, BeginStep, GenerateStep DEF Stamp!Next
    <2>4. CASE UNCHANGED Stamp!header_vars
        BY Zenon, <2>4 DEF Stamp!header_vars, stamp_vars, StampInv, HeaderOK, Stamp!None,
                    Stamp!StampNearClock
    <2> QED
        BY Zenon, <2>3, <2>4
<1> QED
    BY <1>1, <1>2, PTL DEF Stamp!Spec, StampFollowsClock
-----------------------------------------------------------------------------
(* XmlDocCache.  Besides types: ReloadFile has still to visit only cached  *)
(* files, and what it visited satisfies the promise entry by entry.        *)
FileInfo == [version : Nat, mtime : Nat, ok : BOOLEAN]
Loading == [op : {"load"}, file : File, doc : Nat]
Reloading == [op : {"reload"}, todo : SUBSET File, stat : File \cup {NoFile},
              abort : BOOLEAN, written : SUBSET File]

Follows(file, info) ==
    /\ info \in Xml!DocInfo
    /\ info.doc = file.version \/ ~file.ok \/ file.mtime = info.modify_time

XmlInv ==
    /\ disk \in [File -> FileInfo] /\ now \in Nat
    /\ docs \in [File -> Xml!DocInfo \cup {NoFile}]
    /\ task \in {Xml!Idle} \cup Loading \cup Reloading
    /\ task.op = "reload" =>
          \A f \in task.todo \cup {task.stat} : f # NoFile => docs[f] \in Xml!DocInfo
    /\ \A f \in visited : f \in File /\ Follows(disk[f], docs[f])
    /\ \A f \in File : docs[f] \in Xml!DocInfo => docs[f].accepted \/ docs[f].reloaded

(* The three kinds of call under way differ in op.                         *)
LEMMA TaskKinds ==
    ASSUME XmlInv
    PROVE  /\ task = Xml!Idle => task.op = "idle"
           /\ task.op = "load" => task \in Loading
           /\ task.op = "reload" => task \in Reloading
BY DEF XmlInv, Xml!Idle, Loading, Reloading

(* A cached file is one with an XmlDocInfo.                                *)
LEMMA CachedInfo ==
    ASSUME XmlInv, NEW f \in File
    PROVE  f \in Xml!Cached <=> docs[f] \in Xml!DocInfo
BY Zenon, FileAssumption DEF XmlInv, Xml!Cached

(* A write takes the file out of what ReloadFile has visited, and leaves   *)
(* every other file and every entry of the cache as it was.                *)
LEMMA WriteStep ==
    ASSUME XmlInv, NEW f \in File, NEW mtime \in 0 .. now, NEW ok \in BOOLEAN,
           Xml!WriteFile(f, mtime, ok)
    PROVE  XmlInv'
<1>1. /\ disk' = [disk EXCEPT ![f] = [version |-> disk[f].version + 1, mtime |-> mtime, ok |-> ok]]
      /\ visited' = visited \ {f}
      /\ task' = IF task.op = "reload" THEN [task EXCEPT !.written = @ \cup {f}] ELSE task
      /\ now' = now /\ docs' = docs
    BY Zenon DEF Xml!WriteFile
<1>2. disk' \in [File -> FileInfo]
    <2>1. disk[f].version \in Nat
        BY Zenon DEF XmlInv, FileInfo
    <2>2. mtime \in Nat
        BY DEF XmlInv
    <2>3. [version |-> disk[f].version + 1, mtime |-> mtime, ok |-> ok] \in FileInfo
        BY <2>1, <2>2 DEF FileInfo
    <2> QED
        BY Zenon, <1>1, <2>3 DEF XmlInv
<1>3. \A g \in File : g # f => disk'[g] = disk[g]
    BY Zenon, <1>1 DEF XmlInv
<1>4. \A g \in visited' : g \in File /\ Follows(disk'[g], docs'[g])
    BY Zenon, <1>1, <1>3 DEF XmlInv
<1>5. /\ task' \in {Xml!Idle} \cup Loading \cup Reloading
      /\ task'.op = "reload" => task.op = "reload" /\ task'.todo = task.todo /\ task'.stat = task.stat
    <2>1. CASE task.op = "reload"
        <3>1. task \in Reloading
            BY Zenon, <2>1, TaskKinds
        <3>2. task' = [task EXCEPT !.written = task.written \cup {f}]
            BY Zenon, <1>1, <2>1
        <3>3. task' \in Reloading /\ task'.todo = task.todo /\ task'.stat = task.stat
            BY Zenon, <3>1, <3>2 DEF Reloading
        <3> QED
            BY Zenon, <2>1, <3>3
    <2>2. CASE task.op # "reload"
        BY Zenon, <1>1, <2>2 DEF XmlInv
    <2> QED
        BY Zenon, <2>1, <2>2
<1>6. task'.op = "reload" =>
          \A g \in task'.todo \cup {task'.stat} : g # NoFile => docs'[g] \in Xml!DocInfo
    BY Zenon, <1>1, <1>5 DEF XmlInv
<1>7. \A g \in File : docs'[g] \in Xml!DocInfo => docs'[g].accepted \/ docs'[g].reloaded
    BY Zenon, <1>1 DEF XmlInv
<1>8. now' \in Nat /\ docs' \in [File -> Xml!DocInfo \cup {NoFile}]
    BY Zenon, <1>1 DEF XmlInv
<1> QED
    BY Zenon, <1>2, <1>4, <1>5, <1>6, <1>7, <1>8 DEF XmlInv, Xml!Idle

(* LoadFile parses; the time and parse_file come in the next step.         *)
LEMMA LoadStep ==
    ASSUME XmlInv, NEW f \in File, Xml!LoadFile(f)
    PROVE  XmlInv'
<1>1. task' = [op |-> "load", file |-> f, doc |-> disk[f].version] /\ UNCHANGED <<disk, now, docs, visited>>
    BY Zenon DEF Xml!LoadFile
<1>2. disk[f].version \in Nat
    BY Zenon DEF XmlInv, FileInfo
<1>3. task' \in Loading /\ task'.op # "reload"
    BY Zenon, <1>1, <1>2 DEF Loading
<1> QED
    BY Zenon, <1>1, <1>3 DEF XmlInv, Xml!Idle

(* LoadFile keeps what parse_file accepts.                                 *)
LEMMA ParseLoadedStep ==
    ASSUME XmlInv, NEW accept \in BOOLEAN, Xml!ParseLoaded(accept)
    PROVE  XmlInv'
<1> DEFINE f == task.file
           info == [doc |-> task.doc, modify_time |-> disk[f].mtime,
                    accepted |-> accept, reloaded |-> FALSE]
<1>1. /\ task.op = "load" /\ docs' = [docs EXCEPT ![f] = IF accept THEN info ELSE NoFile]
      /\ task' = Xml!Idle /\ visited' = visited \ {f} /\ disk' = disk /\ now' = now
    BY Zenon DEF Xml!ParseLoaded, Xml!Loaded
<1>2. f \in File /\ task.doc \in Nat
    BY Zenon, <1>1, TaskKinds DEF Loading
<1>3. disk[f].mtime \in Nat
    BY Zenon, <1>2 DEF XmlInv, FileInfo
<1>4. info \in Xml!DocInfo /\ info.accepted = accept
    BY Zenon, <1>2, <1>3 DEF Xml!DocInfo
<1> HIDE DEF f, info
<1>5. docs' \in [File -> Xml!DocInfo \cup {NoFile}]
    BY Zenon, <1>1, <1>4 DEF XmlInv
<1>6. \A g \in File : docs'[g] = IF g = f THEN (IF accept THEN info ELSE NoFile) ELSE docs[g]
    BY Zenon, <1>1 DEF XmlInv
<1>7. \A g \in File : docs'[g] \in Xml!DocInfo => docs'[g].accepted \/ docs'[g].reloaded
    BY Zenon, <1>4, <1>6, FileAssumption DEF XmlInv
<1>8. \A g \in visited' : g \in File /\ Follows(disk'[g], docs'[g])
    BY Zenon, <1>1, <1>6 DEF XmlInv
<1>9. task'.op # "reload"
    BY Zenon, <1>1 DEF Xml!Idle
<1> QED
    BY Zenon, <1>1, <1>5, <1>7, <1>8, <1>9 DEF XmlInv, Xml!Idle

(* ReloadFile has all cached files before it.                              *)
LEMMA ReloadStep ==
    ASSUME XmlInv, NEW need_abort \in BOOLEAN, Xml!ReloadFile(need_abort)
    PROVE  XmlInv'
<1>1. /\ task' = [op |-> "reload", todo |-> Xml!Cached, stat |-> NoFile,
                  abort |-> need_abort, written |-> {}]
      /\ visited' = {} /\ UNCHANGED <<disk, now, docs>>
    BY Zenon DEF Xml!ReloadFile
<1>2. Xml!Cached \subseteq File
    BY Zenon DEF Xml!Cached
<1>3. task' \in Reloading /\ task'.todo = Xml!Cached /\ task'.stat = NoFile
    BY Zenon, <1>1, <1>2 DEF Reloading
<1>4. \A f \in Xml!Cached : docs[f] \in Xml!DocInfo
    BY Zenon, <1>2, CachedInfo
<1> QED
    BY Zenon, <1>1, <1>3, <1>4 DEF XmlInv, Xml!Idle

(* Visiting a file whose entry follows it.                                 *)
LEMMA VisitedStep ==
    ASSUME XmlInv, task.op = "reload", NEW f \in File, Xml!Visited(f)
    PROVE  /\ task' \in Reloading
           /\ task'.todo \cup {task'.stat} \subseteq task.todo \cup {NoFile}
           /\ visited' \subseteq visited \cup {f}
<1>1. task \in Reloading
    BY Zenon, TaskKinds
<1>2. /\ task' = [task EXCEPT !.todo = task.todo \ {f}, !.stat = NoFile]
      /\ visited' = visited \cup ({f} \ task.written)
    BY Zenon DEF Xml!Visited
<1>3. task' \in Reloading /\ task'.todo = task.todo \ {f} /\ task'.stat = NoFile
    BY Zenon, <1>1, <1>2 DEF Reloading
<1> QED
    BY Zenon, <1>2, <1>3

(* Comparing the times: equal ones end the visit.                          *)
LEMMA StatStep ==
    ASSUME XmlInv, NEW f \in File, Xml!StatFile(f)
    PROVE  XmlInv'
<1>1. /\ task.op = "reload" /\ f \in task.todo
      /\ IF Xml!Modified(f) THEN task' = [task EXCEPT !.stat = f] /\ visited' = visited
                            ELSE Xml!Visited(f)
      /\ UNCHANGED <<disk, now, docs>>
    BY Zenon DEF Xml!StatFile
<1>2. task \in Reloading
    BY Zenon, <1>1, TaskKinds
<1>3. docs[f] \in Xml!DocInfo
    BY Zenon, <1>1, FileAssumption DEF XmlInv
<1>4. /\ task' \in Reloading
      /\ task'.todo \cup {task'.stat} \subseteq task.todo \cup {NoFile}
      /\ \A g \in visited' : g \in File /\ Follows(disk[g], docs[g])
    <2>1. CASE Xml!Modified(f)
        <3>1. task' = [task EXCEPT !.stat = f] /\ visited' = visited
            BY Zenon, <1>1, <2>1
        <3>2. task' \in Reloading /\ task'.todo = task.todo /\ task'.stat = f
            BY Zenon, <1>2, <3>1 DEF Reloading
        <3> QED
            BY Zenon, <1>1, <3>1, <3>2 DEF XmlInv
    <2>2. CASE ~Xml!Modified(f)
        <3>1. Follows(disk[f], docs[f])
            BY Zenon, <1>3, <2>2 DEF Follows, Xml!Modified
        <3> QED
            BY Zenon, <1>1, <2>2, <3>1, VisitedStep DEF XmlInv
    <2> QED
        BY Zenon, <2>1, <2>2
<1>5. task'.op = "reload" =>
          \A g \in task'.todo \cup {task'.stat} : g # NoFile => docs[g] \in Xml!DocInfo
    BY Zenon, <1>1, <1>4 DEF XmlInv
<1> QED
    BY Zenon, <1>1, <1>4, <1>5 DEF XmlInv, Xml!Idle

(* Parsing anew: a file that parses is now served as it is on disk.        *)
LEMMA ParseReloadedStep ==
    ASSUME XmlInv, NEW accept \in BOOLEAN, Xml!ParseReloaded(accept)
    PROVE  XmlInv'
<1> DEFINE f == task.stat
<1>1. /\ task.op = "reload" /\ f # NoFile
      /\ docs' = IF disk[f].ok
                 THEN [docs EXCEPT ![f].doc = disk[f].version,
                                   ![f].accepted = accept, ![f].reloaded = TRUE]
                 ELSE docs
      /\ IF disk[f].ok /\ ~accept /\ task.abort
         THEN task' = Xml!Idle /\ visited' = visited \cup ({f} \ task.written)
         ELSE Xml!Visited(f)
      /\ disk' = disk /\ now' = now
    BY Zenon DEF Xml!ParseReloaded
<1>2. task \in Reloading
    BY Zenon, <1>1, TaskKinds
<1>3. f \in File
    BY Zenon, <1>1, <1>2 DEF Reloading
<1>4. docs[f] \in Xml!DocInfo
    BY Zenon, <1>1 DEF XmlInv
<1> HIDE DEF f
<1> DEFINE info == [docs[f] EXCEPT !.doc = disk[f].version, !.accepted = accept, !.reloaded = TRUE]
<1>5. disk[f].version \in Nat
    BY Zenon, <1>3 DEF XmlInv, FileInfo
<1>6. info \in Xml!DocInfo /\ info.doc = disk[f].version /\ info.reloaded
    BY Zenon, <1>4, <1>5 DEF Xml!DocInfo
<1>7. disk[f].ok => docs' = [docs EXCEPT ![f] = info]
    BY Zenon, <1>1, <1>3 DEF XmlInv
<1> HIDE DEF info
<1>8. \A g \in File : docs'[g] = IF g = f /\ disk[f].ok THEN info ELSE docs[g]
    BY Zenon, <1>1, <1>7 DEF XmlInv
<1>9. docs' \in [File -> Xml!DocInfo \cup {NoFile}]
    BY <1>1, <1>6, <1>7 DEF XmlInv
<1>10. Follows(disk[f], docs'[f])
    BY Zenon, <1>3, <1>4, <1>6, <1>8 DEF Follows
<1>11. /\ task' \in {Xml!Idle} \cup Reloading
       /\ task'.op = "reload" => task'.todo \cup {task'.stat} \subseteq task.todo \cup {NoFile}
       /\ visited' \subseteq visited \cup {f}
    <2>1. CASE disk[f].ok /\ ~accept /\ task.abort
        BY <1>1, <2>1 DEF Xml!Idle
    <2>2. CASE ~(disk[f].ok /\ ~accept /\ task.abort)
        BY Zenon, <1>1, <1>3, <2>2, VisitedStep
    <2> QED
        BY Zenon, <2>1, <2>2
<1>12. \A g \in visited' : g \in File /\ Follows(disk[g], docs'[g])
    BY Zenon, <1>3, <1>8, <1>10, <1>11 DEF XmlInv
<1>13. \A g \in File : docs[g] \in Xml!DocInfo => docs'[g] \in Xml!DocInfo
    BY Zenon, <1>6, <1>8
<1>14. task'.op = "reload" =>
           \A g \in task'.todo \cup {task'.stat} : g # NoFile => docs'[g] \in Xml!DocInfo
    <2>1. task.todo \subseteq File
        BY Zenon, <1>2 DEF Reloading
    <2> QED
        BY Zenon, <1>1, <1>11, <1>13, <2>1 DEF XmlInv
<1>15. \A g \in File : docs'[g] \in Xml!DocInfo => docs'[g].accepted \/ docs'[g].reloaded
    BY Zenon, <1>6, <1>8 DEF XmlInv
<1> QED
    BY Zenon, <1>1, <1>9, <1>11, <1>12, <1>14, <1>15 DEF XmlInv, Xml!Idle

(* Clear and LoadComplete change entries between calls.                    *)
LEMMA ClearStep ==
    ASSUME XmlInv, NEW files, Xml!Clear(files)
    PROVE  XmlInv'
<1>1. /\ task = Xml!Idle
      /\ docs' = [f \in File |-> IF f \in files THEN NoFile ELSE docs[f]]
      /\ visited' = visited \ files
      /\ UNCHANGED <<disk, now, task>>
    BY Zenon DEF Xml!Clear
<1>2. task'.op # "reload"
    BY Zenon, <1>1 DEF Xml!Idle
<1>3. docs' \in [File -> Xml!DocInfo \cup {NoFile}]
    BY Zenon, <1>1 DEF XmlInv
<1>4. \A f \in visited' : f \in File /\ Follows(disk[f], docs'[f])
    BY Zenon, <1>1 DEF XmlInv
<1>5. \A f \in File : docs'[f] \in Xml!DocInfo => docs'[f].accepted \/ docs'[f].reloaded
    BY Zenon, <1>1, FileAssumption DEF XmlInv
<1> QED
    BY Zenon, <1>1, <1>2, <1>3, <1>4, <1>5 DEF XmlInv, Xml!Idle

(* ReloadFile's callback replaces an entry by what it loaded and visits it.*)
LEMMA LoadCompleteStep ==
    ASSUME XmlInv, Xml!LoadComplete
    PROVE  XmlInv'
<1>1. /\ task = Xml!Idle
      /\ docs' = [f \in File |-> IF f \in Xml!Cached THEN [docs[f] EXCEPT !.doc = NoDoc] ELSE NoFile]
      /\ visited' = {}
      /\ UNCHANGED <<disk, now, task>>
    BY Zenon DEF Xml!LoadComplete
<1>2. task'.op # "reload"
    BY Zenon, <1>1 DEF Xml!Idle
<1>3. ASSUME NEW f \in File
      PROVE  /\ docs'[f] \in Xml!DocInfo \cup {NoFile}
             /\ docs'[f] \in Xml!DocInfo => docs'[f].accepted \/ docs'[f].reloaded
    <2>1. CASE f \in Xml!Cached
        <3>1. docs[f] \in Xml!DocInfo /\ docs'[f] = [docs[f] EXCEPT !.doc = NoDoc]
            BY Zenon, <1>1, <2>1, CachedInfo
        <3>2. /\ docs'[f] \in Xml!DocInfo /\ docs'[f].accepted = docs[f].accepted
              /\ docs'[f].reloaded = docs[f].reloaded
            BY Zenon, <3>1 DEF Xml!DocInfo
        <3> QED
            BY Zenon, <3>1, <3>2 DEF XmlInv
    <2>2. CASE f \notin Xml!Cached
        BY Zenon, <1>1, <2>2, FileAssumption
    <2> QED
        BY Zenon, <2>1, <2>2
<1>4. docs' \in [File -> Xml!DocInfo \cup {NoFile}]
    BY Zenon, <1>1, <1>3
<1> QED
    BY Zenon, <1>1, <1>2, <1>3, <1>4 DEF XmlInv, Xml!Idle

(* For all files, with writes between any two steps of the cache: after    *)
(* ReloadFile a file nobody wrote meanwhile is served as it is on disk     *)
(* unless it does not parse or its time is the one that was stored, and    *)
(* what parse_file rejected is served only after ReloadFile.               *)
THEOREM CacheFollows == Xml!Spec => []CacheFollowsFiles
<1>1. Xml!Init => XmlInv
    BY FileAssumption DEF Xml!Init, XmlInv, Xml!Idle, FileInfo
<1>2. XmlInv /\ [Xml!Next]_(Xml!xml_vars) => XmlInv'
    <2> SUFFICES ASSUME XmlInv, [Xml!Next]_(Xml!xml_vars)
                 PROVE  XmlInv'
        BY Zenon
    <2>1. CASE Xml!Tick
        BY <2>1 DEF Xml!Tick, XmlInv, Xml!Idle
    <2>2. CASE Xml!ReloadReturns
        BY Zenon, <2>2 DEF Xml!ReloadReturns, XmlInv, Xml!Idle
    <2>3. CASE UNCHANGED Xml!xml_vars
        BY Zenon, <2>3 DEF Xml!xml_vars, XmlInv, Xml!Idle
    <2> QED
        BY Zenon, <2>1, <2>2, <2>3, WriteStep, LoadStep, StatStep, ClearStep, ParseLoadedStep,
           ReloadStep, ParseReloadedStep, LoadCompleteStep DEF Xml!Next
<1>3. XmlInv => CacheFollowsFiles
    <2> SUFFICES ASSUME XmlInv PROVE CacheFollowsFiles
        BY Zenon
    <2>1. ASSUME NEW f \in visited
          PROVE  \/ Xml!Queried(f) = disk[f].version
                 \/ ~disk[f].ok
                 \/ disk[f].mtime = docs[f].modify_time
        <3>1. f \in File /\ Follows(disk[f], docs[f])
            BY Zenon DEF XmlInv
        <3>2. f \in Xml!Cached
            BY Zenon, <3>1, CachedInfo DEF Follows
        <3> QED
            BY Zenon, <3>1, <3>2 DEF Follows, Xml!Queried
    <2>2. ASSUME NEW f \in Xml!Cached, ~docs[f].accepted PROVE docs[f].reloaded
        <3>1. f \in File
            BY Zenon DEF Xml!Cached
        <3> QED
            BY Zenon, <2>2, <3>1, CachedInfo DEF XmlInv
    <2> QED
        BY Zenon, <2>1, <2>2 DEF CacheFollowsFiles, Xml!CacheFollowsFiles,
                          Xml!ReloadMissesOnlyEqualTimes, Xml!RejectedServedOnlyByReload
<1> QED
    BY <1>1, <1>2, <1>3, PTL DEF Xml!Spec
-----------------------------------------------------------------------------
(* MySql.  The cursor of a result set: mysql_fetch_row has been called     *)
(* just as often as current_row says, up to the last row.                  *)
Rows == UNION {{rows[i] : i \in 1 .. Len(rows)} : rows \in Tables}
ResultSet ==
    [rows : Tables, fetched : Nat, row : Rows \cup {Null}, field_len : BOOLEAN,
     total_fields : {Fields}, total_rows : Nat, current_row : Int]

CursorOK(rs) ==
    /\ rs \in ResultSet
    /\ rs.total_rows = Len(rs.rows)
    /\ -1 <= rs.current_row /\ rs.current_row <= rs.total_rows
    /\ rs.current_row = -1 => rs.total_rows = 0
    /\ rs.fetched = IF rs.current_row < rs.total_rows THEN rs.current_row + 1 ELSE rs.total_rows
    /\ 0 <= rs.current_row /\ rs.current_row < rs.total_rows =>
          rs.field_len /\ rs.row = rs.rows[rs.current_row + 1]

(* What mysql_fetch_row does to the members of a result set.               *)
LEMMA Fetched ==
    ASSUME NEW rs \in ResultSet, rs.total_rows = Len(rs.rows)
    PROVE  LET next == Sql!Fetch(rs)
           IN  /\ next \in ResultSet
               /\ next.rows = rs.rows /\ next.total_rows = rs.total_rows
               /\ next.current_row = rs.current_row
               /\ IF rs.fetched < rs.total_rows
                  THEN /\ next.fetched = rs.fetched + 1
                       /\ next.row = rs.rows[rs.fetched + 1] /\ next.field_len
                  ELSE next.fetched = rs.fetched
<1>1. rs.rows \in Tables /\ rs.fetched \in Nat /\ Len(rs.rows) \in Nat
    BY Zenon, TablesAssumption DEF ResultSet
<1>2. CASE rs.fetched < rs.total_rows
    <2> DEFINE n == rs.fetched + 1
    <2>1. n \in Nat /\ n \in 1 .. Len(rs.rows)
        BY <1>1, <1>2
    <2>2. rs.rows[n] \in Rows
        BY <1>1, <2>1 DEF Rows
    <2>3. Sql!Fetch(rs) = [rs EXCEPT !.fetched = n, !.row = rs.rows[n], !.field_len = TRUE]
        BY Zenon, <1>2 DEF Sql!Fetch
    <2> HIDE DEF n
    <2>4. [rs EXCEPT !.fetched = n, !.row = rs.rows[n], !.field_len = TRUE] \in ResultSet
        BY Zenon, <2>1, <2>2 DEF ResultSet
    <2> QED
        BY Zenon, <1>2, <2>3, <2>4 DEF n, ResultSet
<1>3. CASE ~(rs.fetched < rs.total_rows)
    <2>1. Sql!Fetch(rs) = [rs EXCEPT !.row = Null, !.field_len = FALSE]
        BY Zenon, <1>3 DEF Sql!Fetch
    <2>2. [rs EXCEPT !.row = Null, !.field_len = FALSE] \in ResultSet
        BY Zenon DEF ResultSet
    <2> QED
        BY Zenon, <1>3, <2>1, <2>2 DEF ResultSet
<1> QED
    BY Zenon, <1>2, <1>3

(* A new result set stands on its first row, if it has one.                *)
LEMMA NewCursor ==
    ASSUME NEW rows \in Tables
    PROVE  CursorOK(Sql!MySqlResultSet(rows))
<1> DEFINE new == Sql!NewResult(rows)
           first == [new EXCEPT !.current_row = 0]
<1>1. Len(rows) \in Nat
    BY Zenon, TablesAssumption
<1>2. /\ new \in ResultSet /\ new.rows = rows /\ new.total_rows = Len(rows)
      /\ new.fetched = 0 /\ new.current_row = -1
    BY <1>1 DEF Sql!NewResult, ResultSet
<1>3. CASE Len(rows) > 0
    <2>1. Sql!MySqlResultSet(rows) = Sql!Fetch(first)
        BY Zenon, <1>3 DEF Sql!MySqlResultSet
    <2> HIDE DEF new
    <2>2. /\ first \in ResultSet /\ first.rows = rows /\ first.total_rows = Len(rows)
          /\ first.fetched = 0 /\ first.current_row = 0
        BY <1>2 DEF ResultSet
    <2> HIDE DEF first
    <2>3. LET next == Sql!Fetch(first)
          IN  /\ next \in ResultSet /\ next.rows = rows /\ next.total_rows = Len(rows)
              /\ next.current_row = 0 /\ next.fetched = 0 + 1
              /\ next.row = rows[0 + 1] /\ next.field_len
        BY Zenon, <1>3, <2>2, Fetched
    <2> QED
        BY <1>1, <1>3, <2>1, <2>3 DEF CursorOK
<1>4. CASE ~(Len(rows) > 0)
    <2>1. Len(rows) = 0 /\ Sql!MySqlResultSet(rows) = new
        BY <1>1, <1>4 DEF Sql!MySqlResultSet
    <2> HIDE DEF new
    <2> QED
        BY <1>2, <2>1 DEF CursorOK
<1> QED
    BY Zenon, <1>3, <1>4

(* Next moves both counts, and neither beyond the end.                     *)
LEMMA NextCursor ==
    ASSUME NEW rs, CursorOK(rs), rs.current_row < rs.total_rows
    PROVE  CursorOK(Sql!Fetch([rs EXCEPT !.current_row = rs.current_row + 1]))
<1> DEFINE moved == [rs EXCEPT !.current_row = rs.current_row + 1]
           c == rs.current_row
           total == rs.total_rows
<1>1. /\ rs \in ResultSet /\ total = Len(rs.rows) /\ -1 <= c /\ (c = -1 => total = 0)
      /\ rs.fetched = c + 1 /\ c \in Int /\ total \in Nat /\ c < total
    BY Zenon DEF CursorOK, ResultSet
<1>2. /\ moved \in ResultSet /\ moved.rows = rs.rows /\ moved.total_rows = total
      /\ moved.fetched = c + 1 /\ moved.current_row = c + 1
    BY <1>1 DEF ResultSet
<1> DEFINE next == Sql!Fetch(moved)
<1> HIDE DEF moved, c, total
<1>3. /\ next \in ResultSet /\ next.rows = rs.rows /\ next.total_rows = total
      /\ next.current_row = c + 1
      /\ IF c + 1 < total
         THEN /\ next.fetched = (c + 1) + 1
              /\ next.row = rs.rows[(c + 1) + 1] /\ next.field_len
         ELSE next.fetched = c + 1
    BY <1>1, <1>2, Fetched
<1> HIDE DEF next
<1>4. /\ -1 <= c + 1 /\ c + 1 <= total /\ (c + 1 = -1 => total = 0)
      /\ ~(c + 1 < total) => c + 1 = total
    BY <1>1
<1>5. CursorOK(next)
    BY Zenon, <1>1, <1>3, <1>4 DEF CursorOK
<1> QED
    BY Zenon, <1>5 DEF next, moved, c
-----------------------------------------------------------------------------
ParamInfo == [type : {"none", "blob", "string"}, data : Data \cup {<<>>}]

SqlInv ==
    /\ params \in Seq(ParamInfo)
    /\ Sql!ParamsAreLatest
    /\ result_set # Null => CursorOK(result_set)

(* SetParam replaces one place and fills up to it.                         *)
LEMMA SetParamStep ==
    ASSUME SqlInv, NEW index \in Nat, NEW type \in {"blob", "string"}, NEW data \in Data,
           Sql!SetParam(index, type, data)
    PROVE  SqlInv'
<1> DEFINE new == [type |-> type, data |-> data]
           size == IF Len(params) < index + 1 THEN index + 1 ELSE Len(params)
           old(i) == IF i <= Len(params) THEN params[i] ELSE Sql!Blank
<1>1. /\ params' = [[i \in 1 .. size |-> old(i)] EXCEPT ![index + 1] = new]
      /\ wanted' = [i \in DOMAIN wanted \cup {index} |-> IF i = index THEN new ELSE wanted[i]]
      /\ UNCHANGED result_set
    BY Zenon DEF Sql!SetParam, Sql!AtLeast
<1>2. /\ params \in Seq(ParamInfo) /\ Len(params) \in Nat
      /\ Len(params) = 0 \/ Len(params) - 1 \in DOMAIN wanted
      /\ DOMAIN wanted \subseteq 0 .. Len(params) - 1
      /\ \A i \in 0 .. Len(params) - 1 :
            params[i + 1] = IF i \in DOMAIN wanted THEN wanted[i] ELSE Sql!Blank
    <2>1. params \in Seq(ParamInfo)
        BY Zenon DEF SqlInv
    <2>2. Sql!ParamsAreLatest
        BY Zenon DEF SqlInv
    <2>3. Len(params) \in Nat
        BY <2>1
    <2> QED
        BY <2>1, <2>2, <2>3, Zenon DEF Sql!ParamsAreLatest
<1>3. new \in ParamInfo /\ Sql!Blank \in ParamInfo
    BY Zenon DEF ParamInfo, Sql!Blank
<1> HIDE DEF new
<1>4. size \in Nat /\ index + 1 \in 1 .. size /\ Len(params) <= size
    BY <1>2
<1>5. ASSUME NEW i \in 1 .. size PROVE old(i) \in ParamInfo
    <2>1. CASE i <= Len(params)
        <3>1. i \in 1 .. Len(params)
            BY <1>2, <1>4, <2>1
        <3> QED
            BY <1>2, <2>1, <3>1
    <2>2. CASE ~(i <= Len(params))
        BY Zenon, <1>3, <2>2
    <2> QED
        BY Zenon, <2>1, <2>2
<1>6. size = index + 1 \/ size = Len(params)
    BY Zenon
<1>7. ASSUME NEW i \in Nat
      PROVE  old(i + 1) = IF i + 1 <= Len(params) THEN params[i + 1] ELSE Sql!Blank
    BY Zenon
<1> HIDE DEF size, old
<1>8. /\ params' = [i \in 1 .. size |-> IF i = index + 1 THEN new ELSE old(i)]
      /\ params' \in Seq(ParamInfo) /\ Len(params') = size
    <2>1. params' = [i \in 1 .. size |-> IF i = index + 1 THEN new ELSE old(i)]
        BY Zenon, <1>1
    <2>2. \A i \in 1 .. size : (IF i = index + 1 THEN new ELSE old(i)) \in ParamInfo
        BY Zenon, <1>3, <1>5
    <2> QED
        BY <1>4, <2>1, <2>2
<1>9. DOMAIN wanted' = DOMAIN wanted \cup {index}
    BY Zenon, <1>1
<1>10. ASSUME NEW i \in 0 .. size - 1
       PROVE  params'[i + 1] = IF i \in DOMAIN wanted' THEN wanted'[i] ELSE Sql!Blank
    <2>1. i \in Nat /\ i + 1 \in 1 .. size /\ (i + 1 = index + 1 <=> i = index)
        BY <1>4
    <2>2. params'[i + 1] = IF i = index THEN new ELSE old(i + 1)
        BY Zenon, <1>8, <2>1
    <2>3. CASE i = index
        BY Zenon, <1>1, <1>9, <2>2, <2>3
    <2>4. CASE i # index
        <3>1. i \in DOMAIN wanted' <=> i \in DOMAIN wanted
            BY Zenon, <1>9, <2>4
        <3>2. i \in DOMAIN wanted => wanted'[i] = wanted[i]
            BY Zenon, <1>1, <2>4
        <3>3. CASE i + 1 <= Len(params)
            <4>1. i \in 0 .. Len(params) - 1
                BY <1>2, <2>1, <3>3
            <4>2. params'[i + 1] = params[i + 1]
                BY <1>7, <2>1, <2>2, <2>4, <3>3
            <4> QED
                BY Zenon, <1>2, <3>1, <3>2, <4>1, <4>2
        <3>4. CASE ~(i + 1 <= Len(params))
            <4>1. i \notin 0 .. Len(params) - 1
                BY <1>2, <2>1, <3>4
            <4>2. i \notin DOMAIN wanted
                BY Zenon, <1>2, <4>1
            <4>3. params'[i + 1] = Sql!Blank
                BY Zenon, <1>7, <2>1, <2>2, <2>4, <3>4
            <4> QED
                BY Zenon, <3>1, <4>2, <4>3
        <3> QED
            BY Zenon, <3>3, <3>4
    <2> QED
        BY Zenon, <2>3, <2>4
<1>11. Len(params') - 1 \in DOMAIN wanted'
    <2>1. CASE size = index + 1
        <3>1. Len(params') - 1 = index
            BY <1>8, <2>1
        <3> QED
            BY Zenon, <1>9, <3>1
    <2>2. CASE size = Len(params)
        <3>1. Len(params) # 0
            BY <1>4, <2>2
        <3> QED
            BY Zenon, <1>2, <1>8, <1>9, <2>2, <3>1
    <2> QED
        BY Zenon, <1>6, <2>1, <2>2
<1>12. DOMAIN wanted' \subseteq 0 .. Len(params') - 1
    <2>1. 0 .. Len(params) - 1 \subseteq 0 .. size - 1 /\ index \in 0 .. size - 1
        BY <1>2, <1>4
    <2> QED
        BY Zenon, <1>2, <1>8, <1>9, <2>1
<1>13. Sql!ParamsAreLatest'
    BY Zenon, <1>8, <1>10, <1>11, <1>12 DEF Sql!ParamsAreLatest, Sql!Blank
<1> QED
    BY Zenon, <1>1, <1>8, <1>13 DEF SqlInv

(* Executions leave parameters and rows alone.                             *)
LEMMA ExecStep ==
    ASSUME SqlInv, NEW reply, Sql!ExecSql(reply) \/ Sql!ExecCommand(reply)
    PROVE  SqlInv'
<1>1. UNCHANGED <<params, wanted, result_set>>
    BY Zenon DEF Sql!ExecSql, Sql!ExecCommand
<1> QED
    BY Zenon, <1>1 DEF SqlInv, Sql!ParamsAreLatest, Sql!Blank

(* A select, and Next on what it gave.                                     *)
LEMMA ResultStep ==
    ASSUME SqlInv,
           (\E rows \in Tables : Sql!ExecSelect(rows)) \/ Sql!ExecSelectFails \/ Sql!NextRow
    PROVE  SqlInv'
<1>1. UNCHANGED <<params, wanted>>
    BY Zenon DEF Sql!ExecSelect, Sql!ExecSelectFails, Sql!NextRow
<1>2. result_set' # Null => CursorOK(result_set')
    <2>1. ASSUME NEW rows \in Tables, Sql!ExecSelect(rows) PROVE CursorOK(result_set')
        BY Zenon, <2>1, NewCursor DEF Sql!ExecSelect
    <2>2. CASE Sql!ExecSelectFails
        BY Zenon, <2>2 DEF Sql!ExecSelectFails
    <2>3. CASE Sql!NextRow
        <3>1. /\ result_set # Null
              /\ result_set' = IF result_set.current_row < result_set.total_rows
                   THEN Sql!Fetch([result_set EXCEPT !.current_row = result_set.current_row + 1])
                   ELSE result_set
            BY Zenon, <2>3 DEF Sql!NextRow
        <3>2. CursorOK(result_set)
            BY Zenon, <3>1 DEF SqlInv
        <3> QED
            BY Zenon, <3>1, <3>2, NextCursor
    <2> QED
        BY Zenon, <2>1, <2>2, <2>3
<1> QED
    BY Zenon, <1>1, <1>2 DEF SqlInv, Sql!ParamsAreLatest, Sql!Blank

(* A cursor as it should be reads the row that current_row counts to.      *)
LEMMA CursorReads ==
    ASSUME NEW rs, CursorOK(rs), NEW field \in 0 .. Fields
    PROVE  LET n == rs.current_row + 1
           IN  Sql!At(rs, field) =
                 IF n \in 1 .. Len(rs.rows) /\ field < Fields
                 THEN LET f == rs.rows[n][field + 1]
                      IN  [data |-> IF f.len = 0 THEN Null ELSE f.data, len |-> f.len]
                 ELSE [data |-> Null, len |-> 0]
<1> DEFINE n == rs.current_row + 1
<1>1. /\ rs \in ResultSet /\ rs.rows \in Tables /\ rs.total_rows = Len(rs.rows)
      /\ rs.current_row \in Int /\ rs.total_rows \in Nat /\ rs.total_fields = Fields
      /\ Fields \in Nat
    BY Zenon, TablesAssumption DEF CursorOK, ResultSet
<1>2. CASE n \in 1 .. Len(rs.rows) /\ field < Fields
    <2>1. 0 <= rs.current_row /\ rs.current_row < rs.total_rows
        BY <1>1, <1>2
    <2>2. rs.field_len /\ rs.row = rs.rows[n]
        BY Zenon, <2>1 DEF CursorOK
    <2>3. rs.total_fields > 0 /\ rs.total_rows > 0 /\ ~(field >= rs.total_fields)
        BY <1>1, <1>2, <2>1
    <2>4. Sql!IsValid(rs)
        BY Zenon, <2>1, <2>2, <2>3 DEF Sql!IsValid
    <2>5. field + 1 \in 1 .. Fields
        BY <1>1, <1>2
    <2> DEFINE f == rs.rows[n][field + 1]
    <2>6. f.len \in Nat
        BY Zenon, <1>1, <1>2, <2>5, TablesAssumption
    <2>7. Sql!At(rs, field) = [data |-> IF f.len <= 0 THEN Null ELSE f.data, len |-> f.len]
        BY Zenon, <2>2, <2>3, <2>4 DEF Sql!At
    <2>8. f.len <= 0 <=> f.len = 0
        BY <2>6
    <2> QED
        BY Zenon, <1>2, <2>7, <2>8
<1>3. CASE ~(n \in 1 .. Len(rs.rows) /\ field < Fields)
    <2>1. CASE field < Fields
        <3>1. n \notin 1 .. Len(rs.rows)
            BY Zenon, <1>3, <2>1
        <3>2. ~(rs.current_row >= 0 /\ rs.current_row < rs.total_rows)
            BY <1>1, <3>1
        <3> QED
            BY Zenon, <1>3, <3>2 DEF Sql!At, Sql!IsValid
    <2>2. CASE ~(field < Fields)
        <3>1. field >= rs.total_fields
            BY <1>1, <2>2
        <3> QED
            BY Zenon, <1>3, <3>1 DEF Sql!At
    <2> QED
        BY Zenon, <2>1, <2>2
<1> QED
    BY Zenon, <1>2, <1>3

(* For all tables, parameters and orders of calls: fields are read from    *)
(* the row that Next has come to and never through a null row, and a       *)
(* command binds what SetParam was last given for each place.              *)
THEOREM SqlTold == Sql!Spec => []SqlIsTold
<1>1. Sql!Init => SqlInv
    <2> SUFFICES ASSUME Sql!Init PROVE SqlInv
        BY Zenon
    <2>1. params \in Seq(ParamInfo) /\ Len(params) = 0
        BY DEF Sql!Init
    <2>2. DOMAIN wanted = {}
        BY Zenon DEF Sql!Init
    <2>3. Sql!ParamsAreLatest
        BY <2>1, <2>2 DEF Sql!ParamsAreLatest
    <2>4. result_set = Null
        BY Zenon DEF Sql!Init
    <2> QED
        BY Zenon, <2>1, <2>3, <2>4 DEF SqlInv
<1>2. SqlInv /\ [Sql!Next]_(Sql!sql_vars) => SqlInv'
    <2> SUFFICES ASSUME SqlInv, [Sql!Next]_(Sql!sql_vars)
                 PROVE  SqlInv'
        BY Zenon
    <2>1. ASSUME NEW index \in 0 .. MaxParams - 1, NEW type \in {"blob", "string"},
                 NEW data \in Data, Sql!SetParam(index, type, data)
          PROVE  SqlInv'
        <3>1. index \in Nat
            BY TablesAssumption
        <3> QED
            BY Zenon, <2>1, <3>1, SetParamStep
    <2>2. ASSUME NEW reply, Sql!ExecSql(reply) \/ Sql!ExecCommand(reply)
          PROVE  SqlInv'
        BY Zenon, <2>2, ExecStep
    <2>3. ASSUME (\E rows \in Tables : Sql!ExecSelect(rows)) \/ Sql!ExecSelectFails \/ Sql!NextRow
          PROVE  SqlInv'
        BY Zenon, <2>3, ResultStep
    <2>4. CASE UNCHANGED Sql!sql_vars
        BY Zenon, <2>4 DEF Sql!sql_vars, SqlInv, Sql!ParamsAreLatest, Sql!Blank
    <2> QED
        BY Zenon, <2>1, <2>2, <2>3, <2>4 DEF Sql!Next
<1>3. SqlInv => SqlIsTold
    <2>1. SqlInv => Sql!ReadsCurrentRow
        BY Zenon, CursorReads DEF SqlInv, Sql!ReadsCurrentRow
    <2> QED
        BY Zenon, <2>1 DEF SqlInv, SqlIsTold, Sql!SqlIsTold
<1> QED
    BY <1>1, <1>2, <1>3, PTL DEF Sql!Spec
=============================================================================
