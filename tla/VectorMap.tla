------------------------------ MODULE VectorMap ------------------------------
(***************************************************************************)
(* green_turtle/vector_map.h: a map kept as a vector of pairs sorted by    *)
(* Compare.  class gives each key its place in the order, so Compare(a, b) *)
(* is class[a] < class[b]; two keys of one class are equal to the map.     *)
(***************************************************************************)
EXTENDS Integers, Sequences

CONSTANTS Key, Value, NoValue, class

ASSUME ClassAssumption == class \in [Key -> Int]
ASSUME ValueAssumption == NoValue \notin Value

VARIABLES
    container,    \* container_
    answer,       \* the value the last find or operator[] gave, NoValue for end()
    request       \* history: the last call, with its key and value if it has them

vars == <<container, answer, request>>

Pair == [first : Key, second : Value]
Compare(a, b) == class[a] < class[b]
equal_to(a, b) == ~Compare(a, b) /\ ~Compare(b, a)

(* std::lower_bound: the first position whose key is not before k.         *)
lower_bound(s, k) ==
    CHOOSE p \in 1 .. Len(s) + 1 :
        /\ \A i \in 1 .. p - 1 : Compare(s[i].first, k)
        /\ p <= Len(s) => ~Compare(s[p].first, k)

Insert(s, p, pair) ==
    [i \in 1 .. Len(s) + 1 |-> IF i < p THEN s[i] ELSE IF i = p THEN pair ELSE s[i - 1]]
Assign(s, p, v) ==
    [i \in 1 .. Len(s) |-> IF i = p THEN [first |-> s[i].first, second |-> v] ELSE s[i]]
EraseAt(s, p) ==
    [i \in 1 .. Len(s) - 1 |-> IF i < p THEN s[i] ELSE s[i + 1]]

(* The iterator is not end() and the key it points to is equal to k.       *)
Bug_HitAnyway(s, p, k) == p <= Len(s)
Hit(s, p, k) == p <= Len(s) /\ equal_to(s[p].first, k)

Init == container = <<>> /\ answer = NoValue /\ request = <<"clear", {}, NoValue>>

(* An equal key keeps its pair and gets the new value.                     *)
emplace(k, v) ==
    LET p == lower_bound(container, k)
    IN  /\ container' = IF Hit(container, p, k) THEN Assign(container, p, v)
                        ELSE Insert(container, p, [first |-> k, second |-> v])
        /\ request' = <<"emplace", {k}, v>>
        /\ UNCHANGED answer

(* find, and operator[] where it does not assert.                          *)
find(k) ==
    LET p == lower_bound(container, k)
    IN  /\ answer' = IF Hit(container, p, k) THEN container[p].second ELSE NoValue
        /\ request' = <<"find", {k}, NoValue>>
        /\ UNCHANGED container

erase(k) ==
    LET p == lower_bound(container, k)
    IN  /\ container' = IF Hit(container, p, k) THEN EraseAt(container, p) ELSE container
        /\ request' = <<"erase", {k}, NoValue>>
        /\ UNCHANGED answer

clear == container' = <<>> /\ request' = <<"clear", {}, NoValue>> /\ UNCHANGED answer

Next ==
    \/ \E k \in Key : find(k) \/ erase(k) \/ \E v \in Value : emplace(k, v)
    \/ clear

Spec == Init /\ [][Next]_vars
-----------------------------------------------------------------------------
(* The vector holds pairs.                                                 *)
VectorTypeOK == container \in Seq(Pair) /\ answer \in Value \cup {NoValue}

(* The keys are strictly increasing after any sequence of operations, also *)
(* where emplace meets a key that compares equal without being the same:   *)
(* what binary search needs, and one pair per key.                         *)
Sorted(s) == \A i, j \in 1 .. Len(s) : i < j => Compare(s[i].first, s[j].first)
StrictlySorted == Sorted(container)

(* The vector as a function: the value of the pair whose key is in c.      *)
ValueOf(s, c) ==
    IF \E i \in 1 .. Len(s) : class[s[i].first] = c
    THEN s[CHOOSE i \in 1 .. Len(s) : class[s[i].first] = c].second
    ELSE NoValue
Classes == {class[k] : k \in Key}
MapOf(s) == [c \in Classes |-> ValueOf(s, c)]

(* emplace, find, erase and clear act as on a dictionary: a lookup gives   *)
(* the value of the last emplace of an equal key that was not erased.      *)
RequestOf(r) == <<r[1], {class[k] : k \in r[2]}, r[3]>>
D == INSTANCE Dictionary
     WITH Class <- Classes, map <- MapOf(container), request <- RequestOf(request)
ImplementsDictionary == D!Spec
=============================================================================
