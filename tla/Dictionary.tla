----------------------------- MODULE Dictionary -----------------------------
(***************************************************************************)
(* What VectorMap promises: a partial function, with keys that Compare     *)
(* does not tell apart counted as one.                                     *)
(***************************************************************************)
CONSTANTS
    Class,        \* the classes of keys
    Value,
    NoValue

VARIABLES
    map,
    answer,       \* what the last lookup returned
    request       \* the last call: its name, classes and value

Init ==
    /\ map = [c \in Class |-> NoValue]
    /\ answer = NoValue /\ request = <<"clear", {}, NoValue>>

Put(c, v) ==
    /\ map' = [map EXCEPT ![c] = v]
    /\ request' = <<"emplace", {c}, v>>
    /\ UNCHANGED answer
Remove(c) ==
    /\ map' = [map EXCEPT ![c] = NoValue]
    /\ request' = <<"erase", {c}, NoValue>>
    /\ UNCHANGED answer
Clear ==
    /\ map' = [c \in Class |-> NoValue]
    /\ request' = <<"clear", {}, NoValue>>
    /\ UNCHANGED answer
Lookup(c) ==
    /\ answer' = map[c]
    /\ request' = <<"find", {c}, NoValue>>
    /\ UNCHANGED map

Next ==
    \/ \E c \in Class : Remove(c) \/ Lookup(c) \/ \E v \in Value : Put(c, v)
    \/ Clear

Spec == Init /\ [][Next]_<<map, answer, request>>
=============================================================================
