-------------------------- MODULE PollPollerProofs --------------------------
(***************************************************************************)
(* Proofs about PollPoller, for any number of handlers.  PollTypeOK,           *)
(* IndexAgrees and EventsStayWithHandler together are inductive.  The only *)
(* step that needs an argument is the removal of a handler that is not the *)
(* last in the array: the entry that takes its place belongs to a          *)
(* different handler, since no two entries share a descriptor.             *)
(***************************************************************************)
EXTENDS PollPoller, SequenceTheorems, FiniteSetTheorems, TLAPS

Inv == PollTypeOK /\ IndexAgrees /\ EventsStayWithHandler

(* A function on 1 .. n is a sequence of length n: the form in which the   *)
(* model writes the array after a removal or a poll.                       *)
LEMMA FunctionIsSeq ==
    ASSUME NEW n \in Nat, NEW S, NEW f \in [1 .. n -> S]
    PROVE  f \in Seq(S) /\ Len(f) = n
OBVIOUS

(* The array without one entry is an array one shorter.                    *)
LEMMA SwapRemovedType ==
    ASSUME PollTypeOK, NEW i \in 0 .. Len(pollfds) - 1
    PROVE  /\ SwapRemoved(i) \in Seq(Entry)
           /\ Len(SwapRemoved(i)) = Len(pollfds) - 1
           /\ \A k \in 1 .. Len(pollfds) - 1 :
                 SwapRemoved(i)[k] = IF k = i + 1 THEN pollfds[Len(pollfds)] ELSE pollfds[k]
<1>1. Len(pollfds) \in Nat /\ \A k \in 1 .. Len(pollfds) : pollfds[k] \in Entry
    BY LenProperties, ElementOfSeq DEF PollTypeOK
<1>2. Len(pollfds) - 1 \in Nat /\ Len(pollfds) \in 1 .. Len(pollfds)
    BY <1>1
<1>3. SwapRemoved(i) \in [1 .. Len(pollfds) - 1 -> Entry]
    BY <1>1, <1>2 DEF SwapRemoved
<1> QED
    BY <1>2, <1>3, FunctionIsSeq DEF SwapRemoved

(* Fired over any array of a consistent poller is the set of handlers of   *)
(* its ready entries, when num is -1 or the number of ready entries.       *)
LEMMA FiredIsReady ==
    ASSUME NEW entries \in Seq(Entry), NEW num \in Int,
           \A k \in 1 .. Len(entries) : event_handlers[entries[k].fd] # None,
           num = -1 \/ num = Cardinality({k \in 1 .. Len(entries) : entries[k].ready})
    PROVE  Fired(entries, num) =
             {event_handlers[entries[k].fd] : k \in {j \in 1 .. Len(entries) : entries[j].ready}}
<1> DEFINE Ready(m) == {i \in 1 .. m : entries[i].ready}
<1>1. Len(entries) \in Nat
    BY LenProperties
<1>2. ASSUME NEW j \in 1 .. Len(entries)
      PROVE  Cardinality(Ready(j)) <= Cardinality(Ready(Len(entries)))
    <2>1. IsFiniteSet(1 .. Len(entries))
        BY <1>1, FS_Interval
    <2>2. IsFiniteSet(Ready(Len(entries)))
        BY <2>1, FS_Subset
    <2>3. Ready(j) \subseteq Ready(Len(entries))
        BY <1>1
    <2> QED
        BY <2>2, <2>3, FS_Subset
<1>3. \A j \in 1 .. Len(entries) :
         num >= 0 => Cardinality({i \in 1 .. j : entries[i].ready}) <= num
    BY <1>2
<1> QED
    BY <1>3 DEF Fired
-----------------------------------------------------------------------------
(* Nothing is registered at first.                                         *)
LEMMA InitInv == PollInit => Inv
<1> SUFFICES ASSUME PollInit PROVE Inv
    OBVIOUS
<1>1. Len(pollfds) = 0 /\ pollfds \in Seq(Entry)
    BY EmptySeq DEF PollInit
<1> QED
    BY <1>1, NoneAssumption, FdAssumption
    DEF PollInit, Inv, PollTypeOK, IndexAgrees, EventsStayWithHandler

(* AddEventHandler puts the new handler at the end, where its index says.  *)
LEMMA AddInv ==
    ASSUME Inv, NEW h \in Handler, AddEventHandler(h)
    PROVE  Inv'
<1> DEFINE e == [fd |-> fd[h], ready |-> FALSE]
           n == Len(pollfds)
<1>1. n \in Nat /\ \A k \in 1 .. n : pollfds[k] \in Entry
    BY LenProperties, ElementOfSeq DEF Inv, PollTypeOK
<1>2. e \in Entry /\ fd[h] \in Fd
    BY FdAssumption DEF Entry
<1>3. /\ pollfds' \in Seq(Entry) /\ Len(pollfds') = n + 1
      /\ pollfds'[n + 1] = e /\ \A k \in 1 .. n : pollfds'[k] = pollfds[k]
    BY <1>1, <1>2 DEF AddEventHandler, Inv, PollTypeOK
<1>4. index' = [index EXCEPT ![h] = n]
    BY <1>1, <1>3 DEF AddEventHandler
<1>5. index[h] = -1
    <2>1. ~(index[h] >= 0)
        BY NoneAssumption DEF AddEventHandler, Inv, IndexAgrees
    <2>2. index[h] \in -1 .. n - 1
        BY DEF Inv, PollTypeOK
    <2> QED
        BY <1>1, <2>1, <2>2
<1>6. \A k \in 1 .. n : pollfds[k].fd # fd[h] /\ event_handlers[pollfds[k].fd] # h
    BY <1>1, <1>2, <1>5 DEF AddEventHandler, Inv, IndexAgrees
<1>7. \A k \in 1 .. n : pollfds[k].fd \in Fd
    BY <1>1 DEF Entry
<1>8. PollTypeOK'
    BY <1>1, <1>2, <1>3, <1>4 DEF AddEventHandler, Inv, PollTypeOK
<1>9. IndexAgrees'
    <2>1. ASSUME NEW k \in 1 .. Len(pollfds')
          PROVE  (/\ event_handlers[pollfds[k].fd] # None
                  /\ fd[event_handlers[pollfds[k].fd]] = pollfds[k].fd
                  /\ index[event_handlers[pollfds[k].fd]] = k - 1)'
        <3>1. CASE k = n + 1
            BY <1>1, <1>2, <1>3, <1>4, <3>1, NoneAssumption DEF AddEventHandler, Inv, PollTypeOK
        <3>2. CASE k \in 1 .. n
            BY <1>1, <1>3, <1>4, <1>6, <1>7, <3>2 DEF AddEventHandler, Inv, PollTypeOK, IndexAgrees
        <3> QED
            BY <1>1, <1>3, <3>1, <3>2
    <2>2. ASSUME NEW g \in Handler
          PROVE  (/\ event_handlers[fd[g]] = g => index[g] >= 0
                  /\ index[g] >= 0 => event_handlers[fd[g]] = g /\ pollfds[index[g] + 1].fd = fd[g])'
        <3>1. CASE g = h
            BY <1>1, <1>2, <1>3, <1>4, <3>1 DEF AddEventHandler, Inv, PollTypeOK
        <3>2. CASE g # h
            <4>1. fd[g] # fd[h] /\ fd[g] \in Fd
                BY <3>2, FdAssumption
            <4>2. event_handlers'[fd[g]] = event_handlers[fd[g]] /\ index'[g] = index[g]
                BY <1>4, <3>2, <4>1 DEF AddEventHandler, Inv, PollTypeOK
            <4>3. index[g] >= 0 => index[g] + 1 \in 1 .. n
                BY <1>1 DEF Inv, PollTypeOK
            <4> QED
                BY <1>3, <4>2, <4>3 DEF Inv, IndexAgrees
        <3> QED
            BY <3>1, <3>2
    <2> QED
        BY <2>1, <2>2 DEF IndexAgrees
<1>10. EventsStayWithHandler'
    <2>1. reported' = reported /\ h \notin reported
        BY NoneAssumption DEF AddEventHandler, Inv, EventsStayWithHandler
    <2>2. event_handlers' = [event_handlers EXCEPT ![fd[h]] = h]
        BY DEF AddEventHandler
    <2>3. \A k \in 1 .. n : event_handlers'[pollfds[k].fd] = event_handlers[pollfds[k].fd]
        BY <1>6, <1>7, <2>2 DEF Inv, PollTypeOK
    <2>4. event_handlers'[fd[h]] = h
        BY <1>2, <2>2 DEF Inv, PollTypeOK
    <2>5. ASSUME NEW k \in 1 .. Len(pollfds')
          PROVE  (pollfds[k].ready <=> event_handlers[pollfds[k].fd] \in reported)'
        <3>1. CASE k = n + 1
            BY <1>3, <2>1, <2>4, <3>1
        <3>2. CASE k \in 1 .. n
            BY <1>3, <2>1, <2>3, <3>2 DEF Inv, EventsStayWithHandler
        <3> QED
            BY <1>1, <1>3, <3>1, <3>2
    <2>6. ASSUME NEW g \in reported PROVE event_handlers'[fd[g]] = g
        <3>1. g \in Handler /\ event_handlers[fd[g]] = g
            BY DEF Inv, PollTypeOK, EventsStayWithHandler
        <3>2. fd[g] # fd[h] /\ fd[g] \in Fd
            BY <2>1, <3>1, FdAssumption
        <3> QED
            BY <2>2, <3>1, <3>2 DEF Inv, PollTypeOK
    <2> QED
        BY <2>1, <2>5, <2>6 DEF EventsStayWithHandler
<1> QED
    BY <1>8, <1>9, <1>10 DEF Inv
(* RemoveEventHandler of a registered handler: the last entry moves into   *)
(* its place, and only the index of the handler of that entry changes.     *)
LEMMA RemoveInv ==
    ASSUME Inv, NEW h \in Handler, RemoveEventHandler(h)
    PROVE  Inv'
<1> DEFINE n == Len(pollfds)
           i == index[h]
           H(k) == event_handlers[pollfds[k].fd]
<1>1. n \in Nat /\ \A k \in 1 .. n : pollfds[k] \in Entry /\ pollfds[k].fd \in Fd
    <2>1. n \in Nat /\ \A k \in 1 .. n : pollfds[k] \in Entry
        BY LenProperties, ElementOfSeq DEF Inv, PollTypeOK
    <2> QED
        BY <2>1 DEF Entry
<1>2. fd[h] \in Fd /\ i \in -1 .. n - 1
    BY FdAssumption DEF Inv, PollTypeOK
<1>3. \A k \in 1 .. n : H(k) \in Handler /\ fd[H(k)] = pollfds[k].fd /\ index[H(k)] = k - 1
    BY <1>1 DEF Inv, PollTypeOK, IndexAgrees
<1>4. event_handlers' = [event_handlers EXCEPT ![fd[h]] = None]
    BY DEF RemoveEventHandler
<1>5. \A k \in 1 .. n : k # i + 1 => H(k) # h /\ pollfds[k].fd # fd[h]
    <2> SUFFICES ASSUME NEW k \in 1 .. n, k # i + 1
                 PROVE  H(k) # h /\ pollfds[k].fd # fd[h]
        OBVIOUS
    <2>1. H(k) # h
        BY <1>1, <1>2, <1>3
    <2> QED
        BY <1>3, <2>1, FdAssumption
<1>6. reported' = reported \ {h}
    BY DEF RemoveEventHandler
<1>7. \A g \in reported' : event_handlers'[fd[g]] = g
    <2> SUFFICES ASSUME NEW g \in reported, g # h
                 PROVE  event_handlers'[fd[g]] = g
        BY <1>6
    <2>1. g \in Handler /\ event_handlers[fd[g]] = g
        BY DEF Inv, PollTypeOK, EventsStayWithHandler
    <2>2. fd[g] # fd[h] /\ fd[g] \in Fd
        BY <2>1, FdAssumption
    <2> QED
        BY <1>4, <2>1, <2>2 DEF Inv, PollTypeOK
<1>8. CASE i < 0
    <2>1. pollfds' = pollfds /\ index' = index
        BY <1>2, <1>8 DEF RemoveEventHandler
    <2>2. \A k \in 1 .. n : pollfds[k].fd # fd[h] /\ H(k) # h
        BY <1>1, <1>2, <1>5, <1>8
    <2>3. PollTypeOK'
        BY <1>4, <2>1 DEF RemoveEventHandler, Inv, PollTypeOK
    <2>4. IndexAgrees'
        BY <1>1, <1>2, <1>4, <1>8, <2>1, <2>2, FdAssumption, NoneAssumption
        DEF Inv, PollTypeOK, IndexAgrees
    <2>5. EventsStayWithHandler'
        <3>1. \A k \in 1 .. n : event_handlers'[pollfds[k].fd] = H(k)
            BY <1>1, <1>4, <2>2 DEF Inv, PollTypeOK
        <3>2. \A k \in 1 .. n : (pollfds[k].ready <=> event_handlers[pollfds[k].fd] \in reported)'
            BY <1>6, <2>1, <2>2, <3>1 DEF Inv, EventsStayWithHandler
        <3> QED
            BY <1>7, <2>1, <3>2 DEF EventsStayWithHandler
    <2> QED
        BY <2>3, <2>4, <2>5 DEF Inv
<1>9. CASE i >= 0
    <2>1. pollfds' = SwapRemoved(i) /\ index' = Reindexed(h, i)
        BY <1>2, <1>9 DEF RemoveEventHandler
    <2>2. i \in 0 .. n - 1 /\ n \in 1 .. n
        BY <1>1, <1>2, <1>9
    <2>3. /\ pollfds' \in Seq(Entry) /\ Len(pollfds') = n - 1
          /\ \A k \in 1 .. n - 1 : pollfds'[k] = IF k = i + 1 THEN pollfds[n] ELSE pollfds[k]
        BY <2>1, <2>2, SwapRemovedType DEF Inv
    <2>4. i # n - 1 => H(n) # h /\ H(n) \in Handler
        BY <1>1, <1>3, <1>5, <2>2
    <2>5. /\ index' \in [Handler -> Int]
          /\ index'[h] = -1
          /\ i # n - 1 => index'[H(n)] = i
          /\ \A g \in Handler : g # h /\ (g # H(n) \/ i = n - 1) => index'[g] = index[g]
        BY <1>1, <1>2, <2>1, <2>2, <2>4 DEF Reindexed, Inv, PollTypeOK
    <2>6. \A g \in Handler : fd[g] \in Fd /\ (fd[g] = fd[h] => g = h)
        BY FdAssumption
    <2>7. PollTypeOK'
        <3>1. ASSUME NEW g \in Handler
              PROVE  index'[g] \in -1 .. n - 2
            <4>1. CASE g = h
                BY <2>2, <2>5, <4>1
            <4>2. CASE g = H(n) /\ i # n - 1
                BY <2>2, <2>5, <4>2
            <4>3. CASE g # h /\ (g # H(n) \/ i = n - 1)
                <5>1. index[g] \in -1 .. n - 1
                    BY DEF Inv, PollTypeOK
                <5>2. index[g] # n - 1
                    <6> SUFFICES ASSUME index[g] = n - 1 PROVE FALSE
                        OBVIOUS
                    <6>1. pollfds[n].fd = fd[g] /\ event_handlers[fd[g]] = g
                        BY <1>1, <2>2 DEF Inv, PollTypeOK, IndexAgrees
                    <6>2. H(n) = g
                        BY <6>1
                    <6>3. i = n - 1
                        BY <4>3, <6>2
                    <6>4. pollfds[n].fd = fd[h]
                        BY <1>1, <2>2, <6>3 DEF Inv, IndexAgrees
                    <6> QED
                        BY <2>6, <4>3, <6>1, <6>4
                <5> QED
                    BY <1>1, <2>5, <4>3, <5>1, <5>2
            <4> QED
                BY <4>1, <4>2, <4>3
        <3> QED
            BY <1>1, <1>2, <1>4, <2>2, <2>3, <2>5, <3>1 DEF RemoveEventHandler, Inv, PollTypeOK
    <2>8. ASSUME NEW k \in 1 .. n - 1
          PROVE  \E j \in 1 .. n :
                    /\ j # i + 1
                    /\ pollfds'[k] = pollfds[j]
                    /\ event_handlers'[pollfds[j].fd] = H(j)
                    /\ index'[H(j)] = k - 1
        <3>1. CASE k = i + 1
            <4>1. i # n - 1 /\ n # i + 1 /\ pollfds'[k] = pollfds[n]
                BY <1>1, <2>2, <2>3, <3>1
            <4>2. event_handlers'[pollfds[n].fd] = H(n)
                BY <1>1, <1>4, <1>5, <2>2, <4>1 DEF Inv, PollTypeOK
            <4>3. index'[H(n)] = k - 1
                BY <1>2, <2>5, <3>1, <4>1
            <4> QED
                BY <2>2, <4>1, <4>2, <4>3
        <3>2. CASE k # i + 1
            <4>1. k \in 1 .. n /\ pollfds'[k] = pollfds[k]
                BY <1>1, <2>3, <3>2
            <4>2. event_handlers'[pollfds[k].fd] = H(k)
                BY <1>1, <1>4, <1>5, <3>2, <4>1 DEF Inv, PollTypeOK
            <4>3. H(k) # h /\ H(k) # H(n) /\ H(k) \in Handler
                BY <1>1, <1>3, <1>5, <2>2, <3>2, <4>1
            <4>4. index'[H(k)] = k - 1
                BY <1>3, <2>5, <4>1, <4>3
            <4> QED
                BY <3>2, <4>1, <4>2, <4>4
        <3> QED
            BY <3>1, <3>2
    <2>9. IndexAgrees'
        <3>1. ASSUME NEW k \in 1 .. n - 1
              PROVE  (/\ event_handlers[pollfds[k].fd] # None
                      /\ fd[event_handlers[pollfds[k].fd]] = pollfds[k].fd
                      /\ index[event_handlers[pollfds[k].fd]] = k - 1)'
            <4>1. PICK j \in 1 .. n :
                     /\ pollfds'[k] = pollfds[j]
                     /\ event_handlers'[pollfds[j].fd] = H(j)
                     /\ index'[H(j)] = k - 1
                BY <2>8
            <4> QED
                BY <1>3, <4>1, NoneAssumption
        <3>2. ASSUME NEW g \in Handler
              PROVE  (/\ event_handlers[fd[g]] = g => index[g] >= 0
                      /\ index[g] >= 0 => event_handlers[fd[g]] = g /\ pollfds[index[g] + 1].fd = fd[g])'
            <4>1. CASE g = h
                BY <1>2, <1>4, <2>5, <4>1, NoneAssumption DEF Inv, PollTypeOK
            <4>2. CASE g = H(n) /\ i # n - 1
                <5>1. event_handlers'[fd[g]] = g
                    BY <1>1, <1>3, <1>4, <2>2, <2>4, <2>6, <4>2 DEF Inv, PollTypeOK
                <5>2. index'[g] = i
                    BY <2>5, <4>2
                <5>3. i + 1 \in 1 .. n - 1
                    BY <1>1, <2>2, <4>2
                <5>4. pollfds'[i + 1] = pollfds[n]
                    BY <2>3, <5>3
                <5> QED
                    BY <1>3, <2>2, <4>2, <5>1, <5>2, <5>4
            <4>3. CASE g # h /\ (g # H(n) \/ i = n - 1)
                <5>1. event_handlers'[fd[g]] = event_handlers[fd[g]] /\ index'[g] = index[g]
                    BY <1>4, <2>5, <2>6, <4>3 DEF Inv, PollTypeOK
                <5>2. ASSUME index[g] >= 0
                      PROVE  pollfds'[index[g] + 1] = pollfds[index[g] + 1]
                    <6>1. index'[g] \in -1 .. n - 2
                        BY <2>3, <2>7 DEF PollTypeOK
                    <6>2. index[g] + 1 \in 1 .. n - 1 /\ index[g] \in Int
                        BY <1>1, <5>1, <5>2, <6>1
                    <6>3. event_handlers[fd[g]] = g /\ pollfds[index[g] + 1].fd = fd[g]
                        BY <5>2 DEF Inv, IndexAgrees
                    <6>4. index[g] # i
                        <7>1. pollfds[i + 1].fd = fd[h]
                            BY <1>2, <1>9 DEF Inv, IndexAgrees
                        <7> QED
                            BY <2>6, <4>3, <6>3, <7>1
                    <6> QED
                        BY <1>1, <1>2, <2>3, <6>2, <6>4
                <5> QED
                    BY <5>1, <5>2 DEF Inv, IndexAgrees
            <4> QED
                BY <4>1, <4>2, <4>3
        <3> QED
            BY <2>3, <3>1, <3>2 DEF IndexAgrees
    <2>10. EventsStayWithHandler'
        <3>1. ASSUME NEW k \in 1 .. n - 1
              PROVE  (pollfds[k].ready <=> event_handlers[pollfds[k].fd] \in reported)'
            <4>1. PICK j \in 1 .. n : /\ j # i + 1
                                      /\ pollfds'[k] = pollfds[j]
                                      /\ event_handlers'[pollfds[j].fd] = H(j)
                BY <2>8
            <4>2. H(j) # h
                BY <1>5, <4>1
            <4> QED
                BY <1>6, <4>1, <4>2 DEF Inv, EventsStayWithHandler
        <3> QED
            BY <1>7, <2>3, <3>1 DEF EventsStayWithHandler
    <2> QED
        BY <2>7, <2>9, <2>10 DEF Inv
<1> QED
    BY <1>2, <1>8, <1>9
-----------------------------------------------------------------------------
(* The handlers of the ready entries are those that poll(2) reported: both *)
(* poll steps fire exactly them.                                           *)
LEMMA PollOnceStep ==
    ASSUME Inv, NEW ready \in SUBSET Fd, PollOnce(ready)
    PROVE  Inv' /\ fired' = reported'
<1> DEFINE n == Len(pollfds)
           Polled == [k \in 1 .. n |-> [fd |-> pollfds[k].fd, ready |-> pollfds[k].fd \in ready]]
           Set == {j \in 1 .. n : Polled[j].ready}
<1>1. n \in Nat /\ \A k \in 1 .. n : pollfds[k] \in Entry
    BY LenProperties, ElementOfSeq DEF Inv, PollTypeOK
<1>2. \A k \in 1 .. n : Polled[k] \in Entry /\ Polled[k].fd = pollfds[k].fd
    BY <1>1 DEF Entry
<1>3. \A k \in 1 .. n : Polled[k].ready = (pollfds[k].fd \in ready)
    OBVIOUS
<1>4. Polled = [k \in 1 .. n |-> Polled[k]]
    OBVIOUS
<1>5. pollfds' = Polled /\ event_handlers' = event_handlers /\ index' = index
    BY DEF PollOnce
<1> HIDE DEF Polled
<1>6. Polled \in Seq(Entry) /\ Len(Polled) = n
    <2>1. Polled \in [1 .. n -> Entry]
        BY <1>2, <1>4
    <2> QED
        BY <1>1, <2>1, FunctionIsSeq
<1>7. fired' = {event_handlers[Polled[k].fd] : k \in Set}
    <2>1. Cardinality(Set) \in Int
        <3>1. IsFiniteSet(1 .. n)
            BY <1>1, FS_Interval
        <3>2. IsFiniteSet(Set)
            BY <3>1, FS_Subset
        <3> QED
            BY <3>2, FS_CardinalityType
    <2>2. fired' = Fired(Polled, Cardinality(Set))
        BY <1>5 DEF PollOnce
    <2>3. \A k \in 1 .. n : event_handlers[Polled[k].fd] # None
        BY <1>2 DEF Inv, IndexAgrees
    <2> QED
        BY <1>6, <2>1, <2>2, <2>3, FiredIsReady
<1>8. \A k \in 1 .. n : /\ event_handlers[pollfds[k].fd] \in Handler
                         /\ fd[event_handlers[pollfds[k].fd]] = pollfds[k].fd
    BY <1>1 DEF Inv, PollTypeOK, IndexAgrees, Entry
<1>9. \A k \in 1 .. n : pollfds[k].fd \in ready <=> event_handlers[pollfds[k].fd] \in reported'
    BY <1>8 DEF PollOnce
<1>10. \A h \in reported' : \E k \in Set : event_handlers[pollfds[k].fd] = h
    <2> SUFFICES ASSUME NEW h \in Handler, event_handlers[fd[h]] = h, fd[h] \in ready
                 PROVE  \E k \in Set : event_handlers[pollfds[k].fd] = h
        BY DEF PollOnce
    <2>1. index[h] + 1 \in 1 .. n /\ pollfds[index[h] + 1].fd = fd[h]
        BY <1>1 DEF Inv, PollTypeOK, IndexAgrees
    <2> QED
        BY <1>3, <2>1
<1>11. fired' = reported'
    <2>1. \A h : h \in fired' => h \in reported'
        BY <1>2, <1>3, <1>7, <1>9
    <2>2. \A h : h \in reported' => h \in fired'
        BY <1>2, <1>7, <1>10
    <2> QED
        BY <2>1, <2>2
<1>12. reported' \subseteq Handler
    BY DEF PollOnce
<1>13. PollTypeOK'
    BY <1>5, <1>6, <1>11, <1>12 DEF Inv, PollTypeOK
<1>14. IndexAgrees'
    <2>1. \A h \in Handler : index[h] >= 0 => index[h] + 1 \in 1 .. n
        BY <1>1 DEF Inv, PollTypeOK
    <2> QED
        BY <1>2, <1>5, <1>6, <2>1 DEF Inv, IndexAgrees
<1>15. EventsStayWithHandler'
    <2>1. \A k \in 1 .. n : (pollfds[k].ready <=> event_handlers[pollfds[k].fd] \in reported)'
        BY <1>2, <1>3, <1>5, <1>9
    <2>2. \A h \in reported' : event_handlers'[fd[h]] = h
        BY <1>5 DEF PollOnce
    <2> QED
        BY <1>5, <1>6, <2>1, <2>2 DEF EventsStayWithHandler
<1> QED
    BY <1>11, <1>13, <1>14, <1>15 DEF Inv

(* A failed poll(2) fires the handlers whose revents are still set: those  *)
(* of the last poll that worked, less the ones removed since.              *)
LEMMA PollFailsStep ==
    ASSUME Inv, PollFails
    PROVE  Inv' /\ fired' = reported'
<1> DEFINE n == Len(pollfds)
           Set == {j \in 1 .. n : pollfds[j].ready}
<1>1. n \in Nat
    BY LenProperties DEF Inv, PollTypeOK
<1>2. /\ event_handlers' = event_handlers /\ pollfds' = pollfds
      /\ index' = index /\ reported' = reported
    BY DEF PollFails
<1>3. fired' = {event_handlers[pollfds[k].fd] : k \in Set}
    <2>1. pollfds \in Seq(Entry) /\ -1 \in Int
        BY DEF Inv, PollTypeOK
    <2>2. \A k \in 1 .. Len(pollfds) : event_handlers[pollfds[k].fd] # None
        BY DEF Inv, IndexAgrees
    <2>3. fired' = Fired(pollfds, -1)
        BY DEF PollFails
    <2> QED
        BY <2>1, <2>2, <2>3, FiredIsReady
<1>4. \A h \in reported : \E k \in Set : event_handlers[pollfds[k].fd] = h
    <2> SUFFICES ASSUME NEW h \in reported
                 PROVE  \E k \in Set : event_handlers[pollfds[k].fd] = h
        OBVIOUS
    <2>1. h \in Handler /\ event_handlers[fd[h]] = h
        BY DEF Inv, PollTypeOK, EventsStayWithHandler
    <2>2. index[h] + 1 \in 1 .. n /\ pollfds[index[h] + 1].fd = fd[h]
        BY <1>1, <2>1 DEF Inv, PollTypeOK, IndexAgrees
    <2>3. pollfds[index[h] + 1].ready
        BY <2>1, <2>2 DEF Inv, EventsStayWithHandler
    <2> QED
        BY <2>1, <2>2, <2>3
<1>5. fired' = reported
    <2>1. \A h : h \in fired' => h \in reported
        BY <1>3 DEF Inv, EventsStayWithHandler
    <2>2. \A h : h \in reported => h \in fired'
        BY <1>3, <1>4
    <2> QED
        BY <2>1, <2>2
<1> QED
    BY <1>2, <1>5 DEF Inv, PollTypeOK, IndexAgrees, EventsStayWithHandler
-----------------------------------------------------------------------------
(* Inv holds in every reachable state.                                     *)
THEOREM InvHolds == PollSpec => []Inv
<1>1. PollInit => Inv
    BY InitInv
<1>2. Inv /\ [PollNext]_poll_vars => Inv'
    <2> SUFFICES ASSUME Inv, [PollNext]_poll_vars PROVE Inv'
        OBVIOUS
    <2>1. CASE \E h \in Handler : AddEventHandler(h)
        BY <2>1, AddInv
    <2>2. CASE \E h \in Handler : RemoveEventHandler(h)
        BY <2>2, RemoveInv
    <2>3. CASE \E ready \in SUBSET Fd : PollOnce(ready)
        BY <2>3, PollOnceStep
    <2>4. CASE PollFails
        BY <2>4, PollFailsStep
    <2>5. CASE UNCHANGED poll_vars
        BY <2>5 DEF poll_vars, Inv, PollTypeOK, IndexAgrees, EventsStayWithHandler
    <2> QED
        BY <2>1, <2>2, <2>3, <2>4, <2>5 DEF PollNext
<1> QED
    BY <1>1, <1>2, PTL DEF PollSpec

(* poll_idx_ is -1 or a place in pollfds_, with any number of handlers.    *)
THEOREM TypeCorrect == PollSpec => []PollTypeOK
<1>1. Inv => PollTypeOK
    BY DEF Inv
<1> QED
    BY <1>1, InvHolds, PTL

(* The swap with the last entry in RemoveEventHandler keeps the array, the *)
(* map and the handlers' indices in agreement.                             *)
THEOREM IndexAlwaysAgrees == PollSpec => []IndexAgrees
<1>1. Inv => IndexAgrees
    BY DEF Inv
<1> QED
    BY <1>1, InvHolds, PTL

(* A set revents belongs to the handler for which poll(2) reported it.     *)
THEOREM EventsStay == PollSpec => []EventsStayWithHandler
<1>1. Inv => EventsStayWithHandler
    BY DEF Inv
<1> QED
    BY <1>1, InvHolds, PTL

(* PollOnce misses no ready handler and fires no other, also after a       *)
(* poll(2) that failed.                                                    *)
THEOREM PollIsComplete == PollSpec => PollReportsAll
<1>1. Inv /\ [PollNext]_poll_vars =>
        [(\E ready \in SUBSET Fd : PollOnce(ready)) \/ PollFails => fired' = reported']_poll_vars
    BY PollOnceStep, PollFailsStep
<1> QED
    BY <1>1, InvHolds, PTL DEF PollSpec, PollReportsAll
=============================================================================
