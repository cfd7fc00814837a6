--------------------------- MODULE ReactorProofs ---------------------------
(***************************************************************************)
(* For every number of connections, descriptors and loops: who owns a      *)
(* handler, which events can reach it, and what ConnManager tells the      *)
(* application about it.                                                   *)
(*                                                                         *)
(* The invariant follows a connection from the acceptor to its end.  It is *)
(* pending in one place until a loop adds it; then its event_loop_ names   *)
(* that loop and only that loop's map can hold it, under its descriptor.   *)
(* No two owned handlers have one descriptor, because the kernel gives out *)
(* only closed ones and a handler is destroyed exactly when nothing owns   *)
(* it.                                                                     *)
(***************************************************************************)
EXTENDS Reactor, TLAPS

ObjectTypes ==
    /\ created \subseteq Conn /\ freed \subseteq created
    /\ idle \subseteq Handler /\ held \subseteq created
    /\ fd \in [Conn -> Fd \cup {0}] /\ event_loop \in [Conn -> Loop \cup {0}]
    /\ \A c \in Conn \ created : event_loop[c] = 0
ThreadTypes ==
    /\ pc \in [Loop -> PcValues] /\ fired \in [Loop -> SUBSET Handler]
    /\ cur \in [Loop -> Conn \cup {None}]
    /\ terminal \in [Loop -> BOOLEAN] /\ idx \in Loop
LoopTypes ==
    /\ event_handlers \in [Loop -> [Fd -> Conn \cup {None}]]
    /\ watched \in [Loop -> SUBSET Fd]
    /\ changed \in [Loop -> Seq(BOOLEAN \X Handler)]
    /\ temp \in [Loop -> Seq(BOOLEAN \X Handler)]
    /\ pos \in [Loop -> Nat] /\ \A l \in Loop : pos[l] <= Len(temp[l])
BookTypes ==
    /\ handlers \in [Fd -> Conn \cup {None}] /\ mpc \in {"run", "callbacks"}
    /\ add_handler \in Seq(created) /\ remove_handler \in Seq(created)
    /\ add_set \in Seq(created) /\ remove_set \in Seq(created)
    /\ announced \in Seq(created) /\ dismissed \in Seq(created)
    /\ requested \subseteq created /\ late \subseteq requested
Types == ObjectTypes /\ ThreadTypes /\ LoopTypes /\ BookTypes

(* A handler exists as long as something owns it; its descriptor is its    *)
(* own for that time.                                                      *)
Sockets ==
    /\ \A c \in created : fd[c] \in Fd
    /\ \A c \in created : c \in freed <=> ~Owned(c)
    /\ \A c, d \in created : Owned(c) /\ Owned(d) /\ fd[c] = fd[d] => c = d

(* A loop's map holds handlers that were added to this loop, under their   *)
(* descriptors, and the epoll set has the same descriptors.                *)
Pollers ==
    \A l \in Loop : \A f \in Fd :
        /\ f \in watched[l] <=> event_handlers[l][f] # None
        /\ event_handlers[l][f] # None =>
              /\ event_handlers[l][f] \in created
              /\ fd[event_handlers[l][f]] = f
              /\ event_loop[event_handlers[l][f]] = l

(* The entries of the two queues of a loop that it has not applied.        *)
Waiting(l) == pos[l] + 1 .. Len(temp[l])

(* What an entry says: a handler no loop has had, or one of this loop.     *)
Adds(e, c) == e = <<TRUE, c>>
Fails(e, h) == e = <<FALSE, h>>
EntryOK(l, e) ==
    /\ \A c \in Handler : Adds(e, c) => c \in created /\ event_loop[c] = 0
    /\ \A h \in Handler : Fails(e, h) => h = Acceptor \/ (h \in created /\ event_loop[h] = l)

Entries ==
    /\ \A l \in Loop : \A k \in DOMAIN changed[l] : EntryOK(l, changed[l][k])
    /\ \A l \in Loop : \A k \in Waiting(l) : EntryOK(l, temp[l][k])
    /\ \A l \in Loop : pc[l] = "handoff" => cur[l] \in created /\ event_loop[cur[l]] = 0
    /\ \A l \in Loop : pc[l] # "apply" => temp[l] = <<>> /\ pos[l] = 0

(* A handler is on its way to a loop at most once.                         *)
OnceInChanged ==
    \A c \in Handler : \A l, m \in Loop : \A j \in DOMAIN changed[l], k \in DOMAIN changed[m] :
        Adds(changed[l][j], c) /\ Adds(changed[m][k], c) => l = m /\ j = k
OnceInTemp ==
    \A c \in Handler : \A l, m \in Loop : \A j \in Waiting(l), k \in Waiting(m) :
        Adds(temp[l][j], c) /\ Adds(temp[m][k], c) => l = m /\ j = k
NotInBoth ==
    \A c \in Handler : \A l, m \in Loop : \A j \in DOMAIN changed[l], k \in Waiting(m) :
        ~(Adds(changed[l][j], c) /\ Adds(temp[m][k], c))
NotQueuedYet ==
    \A l \in Loop : pc[l] = "handoff" =>
        /\ \A m \in Loop : pc[m] = "handoff" /\ cur[m] = cur[l] => m = l
        /\ \A m \in Loop : \A k \in DOMAIN changed[m] : ~Adds(changed[m][k], cur[l])
        /\ \A m \in Loop : \A k \in Waiting(m) : ~Adds(temp[m][k], cur[l])
Once == OnceInChanged /\ OnceInTemp /\ NotInBoth /\ NotQueuedYet

(* Raw pointers are to handlers in this loop's map that RemoveConn has not *)
(* been called for; once it has, OnError is about to take the handler out. *)
Mapped(l, c) == c \in created /\ event_handlers[l][fd[c]] = c
Pointers ==
    /\ \A l \in Loop : \A c \in fired[l] : c # Acceptor => Mapped(l, c) /\ c \notin requested
    /\ \A l \in Loop : pc[l] \in {"poll", "swap", "apply", "exited"} => fired[l] = {}
    /\ \A l \in Loop : pc[l] = "onError" => Mapped(l, cur[l])
Asked ==
    /\ \A l \in Loop : pc[l] \in {"onError", "shutdown"} => cur[l] \in requested
    /\ \A l \in Loop : \A c \in requested : Mapped(l, c) => pc[l] = "onError" /\ cur[l] = c
    /\ \A c \in requested : event_loop[c] # 0

(* What ConnManager and the application have heard of.                     *)
Heard ==
    /\ \A c \in created : c \in Range(add_handler) \/ c \in Range(add_set) \/ c \in Range(announced)
    /\ \A c \in requested :
          c \in Range(remove_handler) \/ c \in Range(remove_set) \/ c \in Range(dismissed)
    /\ \A c \in Range(remove_handler) \cup Range(remove_set) \cup Range(dismissed) : c \in requested
HeardOnce ==
    /\ IsInjective(add_handler) /\ IsInjective(add_set) /\ IsInjective(announced)
    /\ \A c \in Range(add_handler) : c \notin Range(add_set) /\ c \notin Range(announced)
    /\ \A c \in Range(add_set) : c \notin Range(announced)
EndedOnce ==
    /\ IsInjective(remove_handler) /\ IsInjective(remove_set) /\ IsInjective(dismissed)
    /\ \A c \in Range(remove_handler) : c \notin Range(remove_set) /\ c \notin Range(dismissed)
    /\ \A c \in Range(remove_set) : c \notin Range(dismissed)
InOrder ==
    /\ \A c \in Range(remove_set) : c \in Range(add_set) \/ c \in Range(announced)
    /\ \A c \in Range(dismissed) : c \in Range(announced)
    /\ mpc = "run" => add_set = <<>> /\ remove_set = <<>>
Books == Heard /\ HeardOnce /\ EndedOnce /\ InOrder

(* handlers_ has each connection that Update has seen, under its           *)
(* descriptor, until RemoveConn comes; one that came too early is late.    *)
Table ==
    /\ \A f \in Fd : handlers[f] # None => handlers[f] \in created /\ fd[handlers[f]] = f
    /\ \A f \in Fd : handlers[f] \in requested => handlers[f] \in late
    /\ \A c \in Range(add_handler) : c \in requested => c \in late
    /\ \A c \in created : c \notin requested \/ c \in late =>
          c \in Range(add_handler) \/ handlers[fd[c]] = c

ReactorInv ==
    Types /\ Sockets /\ Pollers /\ Entries /\ Once /\ Pointers /\ Asked /\ Books /\ Table
-----------------------------------------------------------------------------
(* The owners of a handler, kind by kind.                                  *)
InPoller(c) == \E l \in Loop : \E f \in Fd : event_handlers[l][f] = c
InQueue(c) == \E l \in Loop : c \in Queued(changed[l]) \/ c \in Queued(temp[l])
InHandoff(c) == \E l \in Loop : pc[l] = "handoff" /\ cur[l] = c
InTable(c) == \E f \in Fd : handlers[f] = c
InVectors(c) ==
    \/ c \in Range(add_handler) \/ c \in Range(remove_handler)
    \/ c \in Range(add_set) \/ c \in Range(remove_set)

(* A handler is owned if one of them has it.                               *)
LEMMA OwnedParts ==
    ASSUME NEW c
    PROVE  /\ Owned(c) <=> \/ c \in held \/ InPoller(c) \/ InQueue(c)
                           \/ InHandoff(c) \/ InTable(c) \/ InVectors(c)
           /\ (Owned(c) <=> \/ c \in held \/ InPoller(c) \/ InQueue(c)
                            \/ InHandoff(c) \/ InTable(c) \/ InVectors(c))'
  BY Zenon DEF Owned, InPoller, InQueue, InHandoff, InTable, InVectors

(* What most steps leave alone.                                            *)
SameObjects == created' = created /\ fd' = fd /\ event_loop' = event_loop
SamePollers == event_handlers' = event_handlers /\ watched' = watched
SameQueues == changed' = changed /\ temp' = temp /\ pos' = pos
SameManager ==
    /\ handlers' = handlers /\ add_handler' = add_handler /\ remove_handler' = remove_handler
    /\ requested' = requested /\ late' = late
SameMain ==
    /\ mpc' = mpc /\ add_set' = add_set /\ remove_set' = remove_set
    /\ announced' = announced /\ dismissed' = dismissed

(* A step that leaves the pollers alone drops no reference of theirs.      *)
LEMMA InPollerStays == ASSUME NEW c, SamePollers PROVE InPoller(c)' <=> InPoller(c)
  BY Zenon DEF InPoller, SamePollers

(* Nor one of the queues, if it leaves those alone.                        *)
LEMMA InQueueStays == ASSUME NEW c, SameQueues PROVE InQueue(c)' <=> InQueue(c)
  BY Zenon DEF InQueue, SameQueues

(* Nor one of ConnManager's table.                                         *)
LEMMA InTableStays ==
    ASSUME NEW c, SameManager PROVE InTable(c)' <=> InTable(c)
  BY Zenon DEF InTable, SameManager

(* Nor one of the four vectors.                                            *)
LEMMA InVectorsStay ==
    ASSUME NEW c, SameManager, SameMain PROVE InVectors(c)' <=> InVectors(c)
  BY Zenon DEF InVectors, SameManager, SameMain

(* A step after which nothing new is owned only destroys what it let go.   *)
LEMMA SocketsStay ==
    ASSUME ObjectTypes, Sockets, Collect, created' = created, fd' = fd,
           \A c \in created : Owned(c)' => Owned(c)
    PROVE  Sockets' /\ freed' \subseteq created'
<1>1. \A c \in created : c \in freed' <=> c \in freed \/ ~Owned(c)'
  BY Zenon DEF Collect, ObjectTypes
<1>2. freed' \subseteq created'
  BY Zenon DEF Collect, ObjectTypes
<1>3. QED
  BY Zenon, <1>1, <1>2 DEF Sockets

(* The handlers keep their types while none is created.                    *)
LEMMA ObjectTypesStay ==
    ASSUME ObjectTypes, SameObjects, held' \subseteq created, idle' \subseteq Handler,
           freed' \subseteq created'
    PROVE  ObjectTypes'
  BY Zenon DEF ObjectTypes, SameObjects

(* So do the pollers and the queues.                                       *)
LEMMA LoopTypesStay == ASSUME LoopTypes, SamePollers, SameQueues PROVE LoopTypes'
  BY Zenon DEF LoopTypes, SamePollers, SameQueues

(* So do the vectors and the table.                                        *)
LEMMA BookTypesStay ==
    ASSUME BookTypes, SameManager, SameMain, created' = created PROVE BookTypes'
  BY Zenon DEF BookTypes, SameManager, SameMain

(* The maps stay right while nothing they mention changes.                 *)
LEMMA PollersStay == ASSUME Pollers, SamePollers, SameObjects PROVE Pollers'
  BY DEF Pollers, SamePollers, SameObjects

(* So do the books.                                                        *)
LEMMA BooksStay ==
    ASSUME Books, SameManager, SameMain, created' = created PROVE Books'
  BY Zenon DEF Books, Heard, HeardOnce, EndedOnce, InOrder, SameManager, SameMain

(* So does the table.                                                      *)
LEMMA TableStays == ASSUME Table, SameManager, created' = created, fd' = fd PROVE Table'
  BY Zenon DEF Table, SameManager

(* The queues stay as they are while a thread goes elsewhere.              *)
LEMMA EntriesStay ==
    ASSUME Entries, Once, SameQueues, SameObjects,
           \A l \in Loop : pc'[l] = "handoff" <=> pc[l] = "handoff",
           \A l \in Loop : pc[l] = "handoff" => cur'[l] = cur[l],
           \A l \in Loop : pc'[l] # "apply" => pc[l] # "apply"
    PROVE  Entries' /\ Once'
<1>1. \A l \in Loop : Waiting(l)' = Waiting(l)
  BY Zenon DEF Waiting, SameQueues
<1>2. \A l \in Loop : \A k \in DOMAIN changed'[l] : EntryOK(l, changed[l][k])'
  BY DEF Entries, EntryOK, SameQueues, SameObjects
<1>3. \A l \in Loop : \A k \in Waiting(l)' : EntryOK(l, temp[l][k])'
  BY <1>1 DEF Entries, EntryOK, SameQueues, SameObjects
<1>4. Entries'
  BY Zenon, <1>2, <1>3 DEF Entries, SameQueues, SameObjects
<1>5. OnceInChanged' /\ OnceInTemp' /\ NotInBoth'
  BY <1>1 DEF Once, OnceInChanged, OnceInTemp, NotInBoth, SameQueues
<1>6. NotQueuedYet'
  BY Zenon, <1>1 DEF Once, NotQueuedYet, SameQueues
<1>7. QED
  BY Zenon, <1>4, <1>5, <1>6 DEF Once

(* A step that moves no reference and touches no poller keeps them all.    *)
LEMMA QuietStays ==
    ASSUME ReactorInv, Collect, held' = held, idle' \subseteq Handler,
           SameObjects, SamePollers, SameQueues, SameManager, SameMain,
           \A l \in Loop : pc'[l] = "handoff" <=> pc[l] = "handoff",
           \A l \in Loop : pc[l] = "handoff" => cur'[l] = cur[l],
           \A l \in Loop : pc'[l] # "apply" => pc[l] # "apply"
    PROVE  /\ ObjectTypes' /\ LoopTypes' /\ BookTypes'
           /\ Sockets' /\ Pollers' /\ Entries' /\ Once' /\ Books' /\ Table'
<1>0. /\ ObjectTypes /\ LoopTypes /\ BookTypes
      /\ Sockets /\ Pollers /\ Entries /\ Once /\ Books /\ Table
  BY Zenon DEF ReactorInv, Types
<1>1. \A c \in created : Owned(c)' => Owned(c)
  <2> SUFFICES ASSUME NEW c \in created PROVE Owned(c)' => Owned(c)
    BY Zenon
  <2>1. InHandoff(c)' => InHandoff(c)
    BY Zenon DEF InHandoff
  <2>2. QED
    BY Zenon, <2>1, OwnedParts, InPollerStays, InQueueStays, InTableStays, InVectorsStay
<1>2. created' = created /\ fd' = fd
  BY Zenon DEF SameObjects
<1>3. Sockets' /\ freed' \subseteq created'
  BY Zenon, <1>0, <1>1, <1>2, SocketsStay
<1>4. ObjectTypes' /\ LoopTypes' /\ BookTypes'
  <2>1. held' \subseteq created
    BY Zenon, <1>0 DEF ObjectTypes
  <2>2. QED
    BY Zenon, <1>0, <1>2, <1>3, <2>1, ObjectTypesStay, LoopTypesStay, BookTypesStay
<1>5. Pollers' /\ Entries' /\ Once'
  BY Zenon, <1>0, PollersStay, EntriesStay
<1>6. Books' /\ Table'
  BY Zenon, <1>0, <1>2, BooksStay, TableStays
<1>7. QED
  BY Zenon, <1>3, <1>4, <1>5, <1>6


(* So do the raw pointers, if no loop gets new ones.                       *)
LEMMA PointersShrink ==
    ASSUME Pointers, Asked, requested' = requested,
           \A m \in Loop : \A c \in Handler : Mapped(m, c)' <=> Mapped(m, c),
           \A c \in requested : event_loop'[c] = event_loop[c],
           \A m \in Loop : fired'[m] \subseteq fired[m],
           \A m \in Loop : fired[m] \subseteq Handler,
           \A m \in Loop : cur[m] \in Conn \cup {None},
           requested \subseteq Conn,
           \A m \in Loop : pc'[m] = "onError" <=> pc[m] = "onError",
           \A m \in Loop : pc'[m] = "shutdown" => pc[m] = "shutdown",
           \A m \in Loop : pc'[m] \in {"onError", "shutdown"} => cur'[m] = cur[m],
           \A m \in Loop : pc'[m] \in {"poll", "swap", "apply", "exited"} =>
               pc[m] \in {"poll", "swap", "apply", "exited"} \/ fired'[m] = {}
    PROVE  Pointers' /\ Asked'
<1>1. \A l \in Loop : \A c \in fired'[l] : c # Acceptor => Mapped(l, c)' /\ c \notin requested'
  BY Zenon DEF Pointers
<1>2. \A l \in Loop : pc'[l] \in {"poll", "swap", "apply", "exited"} => fired'[l] = {}
  BY Zenon DEF Pointers
<1>3. ASSUME NEW l \in Loop, pc'[l] = "onError" PROVE Mapped(l, cur[l])'
  <2>1. cur'[l] = cur[l] /\ Mapped(l, cur[l]) /\ cur[l] \in requested
    BY Zenon, <1>3 DEF Pointers, Asked
  <2>2. cur[l] \in Handler
    BY Zenon, <2>1 DEF Handler
  <2>3. PICK c \in Handler : c = cur[l]
    BY Zenon, <2>2
  <2>4. Mapped(l, c)'
    BY Zenon, <2>1, <2>3
  <2>5. QED
    BY Zenon, <2>1, <2>3, <2>4 DEF Mapped
<1>4. Pointers'
  BY Zenon, <1>1, <1>2, <1>3 DEF Pointers
<1>5. \A l \in Loop : pc'[l] \in {"onError", "shutdown"} => cur'[l] \in requested'
  BY Zenon DEF Asked
<1>6. \A l \in Loop : \A c \in requested' : Mapped(l, c)' => pc'[l] = "onError" /\ cur'[l] = c
  BY DEF Asked, Handler
<1>7. \A c \in requested' : event_loop'[c] # 0
  BY Zenon DEF Asked
<1>8. QED
  BY Zenon, <1>4, <1>5, <1>6, <1>7 DEF Asked
(* The queues r are the queues q, with e at the end of the one of loop i.  *)
Longer(q, r, i, e) ==
    /\ r \in [Loop -> Seq(BOOLEAN \X Handler)]
    /\ \A m \in Loop : \A k \in DOMAIN r[m] :
          \/ k \in DOMAIN q[m] /\ r[m][k] = q[m][k]
          \/ m = i /\ k = Len(q[i]) + 1 /\ r[m][k] = e
    /\ \A m \in Loop : \A c \in Queued(r[m]) : c \in Queued(q[m]) \/ c = e[2]

(* What Append does.                                                       *)
LEMMA AppendEntry ==
    ASSUME NEW q \in [Loop -> Seq(BOOLEAN \X Handler)],
           NEW i \in Loop, NEW e \in BOOLEAN \X Handler
    PROVE  Longer(q, [q EXCEPT ![i] = Append(q[i], e)], i, e)
<1> DEFINE r == [q EXCEPT ![i] = Append(q[i], e)]
<1>1. q[i] \in Seq(BOOLEAN \X Handler) /\ r[i] = Append(q[i], e)
  BY Zenon
<1>2. /\ \A m \in Loop \ {i} : r[m] = q[m]
      /\ DOMAIN r = Loop /\ r = [m \in Loop |-> r[m]]
  BY Zenon
<1> HIDE DEF r
<1>3. /\ \A k \in DOMAIN r[i] : \/ k \in DOMAIN q[i] /\ r[i][k] = q[i][k]
                                \/ k = Len(q[i]) + 1 /\ r[i][k] = e
      /\ r[i] \in Seq(BOOLEAN \X Handler)
  BY <1>1
<1>4. /\ r \in [Loop -> Seq(BOOLEAN \X Handler)]
      /\ \A m \in Loop : \A k \in DOMAIN r[m] :
            \/ k \in DOMAIN q[m] /\ r[m][k] = q[m][k]
            \/ m = i /\ k = Len(q[i]) + 1 /\ r[m][k] = e
  BY Zenon, <1>2, <1>3
<1>5. ASSUME NEW m \in Loop, NEW c \in Queued(r[m]), c # e[2]
      PROVE  c \in Queued(q[m])
  <2>1. /\ q[m] \in Seq(BOOLEAN \X Handler) /\ r[m] \in Seq(BOOLEAN \X Handler)
    BY Zenon, <1>4
  <2>2. PICK k \in 1 .. Len(r[m]) : c = r[m][k][2]
    BY Zenon DEF Queued
  <2>3. k \in DOMAIN r[m]
    BY <2>1, <2>2
  <2>4. k \in DOMAIN q[m] /\ r[m][k] = q[m][k]
    BY Zenon, <1>4, <1>5, <2>2, <2>3
  <2>5. k \in 1 .. Len(q[m])
    BY <2>1, <2>4
  <2>6. QED
    BY Zenon, <2>2, <2>4, <2>5 DEF Queued
<1>6. Longer(q, r, i, e)
  BY Zenon, <1>4, <1>5 DEF Longer
<1>7. QED
  BY Zenon, <1>6 DEF r
-----------------------------------------------------------------------------
(* The invariant holds before the first connection.                        *)
LEMMA InitHolds == Init => ReactorInv
<1> SUFFICES ASSUME Init PROVE ReactorInv
  BY Zenon
<1>1. NLoops \in Nat \ {0} /\ 1 \in Loop
  BY LoopsAssumption DEF Loop
<1>2. ObjectTypes /\ ThreadTypes
  BY Zenon, <1>1 DEF Init, ObjectTypes, ThreadTypes, PcValues
<1>3. LoopTypes /\ BookTypes
  BY DEF Init, LoopTypes, BookTypes
<1>4. Sockets /\ Pollers /\ Table
  BY Zenon DEF Init, Sockets, Pollers, Table
<1>5. Entries /\ Once
  BY DEF Init, Entries, Once, OnceInChanged, OnceInTemp, NotInBoth, NotQueuedYet, Waiting
<1>6. Pointers /\ Asked
  BY Zenon DEF Init, Pointers, Asked
<1>7. Books
  BY DEF Init, Books, Heard, HeardOnce, EndedOnce, InOrder, Range, IsInjective
<1>8. QED
  BY Zenon, <1>2, <1>3, <1>4, <1>5, <1>6, <1>7 DEF ReactorInv, Types

(* Loop l goes on to p with the raw pointers to the handlers in set.       *)
Fires(l, p, set) ==
    /\ held' = held /\ idle' = idle /\ cur' = cur /\ terminal' = terminal /\ idx' = idx
    /\ SameObjects /\ SamePollers /\ SameQueues /\ SameManager /\ SameMain
    /\ pc' = [pc EXCEPT ![l] = p] /\ fired' = [fired EXCEPT ![l] = set]

(* PollOnce and CheckEventHandlerTimeOut find handlers in the map.         *)
LEMMA FiresKeeps ==
    ASSUME ReactorInv, Collect, NEW l \in Loop, NEW p \in {"dispatch", "expire"}, NEW set,
           Fires(l, p, set), pc[l] \in {"poll", "dispatch"},
           set \subseteq Handler, \A c \in set : c # Acceptor => Mapped(l, c)
    PROVE  ReactorInv'
<1>0. ObjectTypes /\ ThreadTypes /\ Pointers /\ Asked
  BY Zenon DEF ReactorInv, Types
<1>1. /\ SameObjects /\ SamePollers /\ SameQueues /\ SameManager /\ SameMain
      /\ held' = held /\ idle' \subseteq Handler
  BY Zenon, <1>0 DEF Fires, ObjectTypes
<1>2. /\ \A m \in Loop : pc'[m] = IF m = l THEN p ELSE pc[m]
      /\ \A m \in Loop : fired'[m] = IF m = l THEN set ELSE fired[m]
      /\ cur' = cur
  BY Zenon, <1>0 DEF Fires, ThreadTypes
<1>3. /\ ObjectTypes' /\ LoopTypes' /\ BookTypes'
      /\ Sockets' /\ Pollers' /\ Entries' /\ Once' /\ Books' /\ Table'
  BY Zenon, <1>1, <1>2, QuietStays
<1>4. ThreadTypes'
  BY Zenon, <1>0 DEF Fires, ThreadTypes, PcValues
<1>5. \A m \in Loop : \A c : Mapped(m, c)' <=> Mapped(m, c)
  BY Zenon, <1>1 DEF Mapped, SameObjects, SamePollers
<1>6. requested' = requested /\ event_loop' = event_loop
  BY Zenon, <1>1 DEF SameManager, SameObjects
<1>7. \A c \in set : c # Acceptor => c \notin requested
  BY Zenon, <1>0 DEF Asked
<1>8. Pointers'
  BY <1>0, <1>2, <1>5, <1>6, <1>7 DEF Pointers, Mapped
<1>9. Asked'
  BY <1>0, <1>2, <1>5, <1>6 DEF Asked, Mapped
<1>10. QED
  BY Zenon, <1>3, <1>4, <1>8, <1>9 DEF ReactorInv, Types

(* PollOnce fires handlers of the map.                                     *)
LEMMA PollKeeps ==
    ASSUME ReactorInv, Collect, NEW l \in Loop, Poll(l) PROVE ReactorInv'
<1>0. ThreadTypes /\ LoopTypes /\ Pollers
  BY Zenon DEF ReactorInv, Types
<1>1. PICK ready \in SUBSET watched[l], a \in SUBSET {Acceptor} :
          fired' = [fired EXCEPT ![l] = ({event_handlers[l][f] : f \in ready} \ {None}) \cup a]
  BY Zenon DEF Poll
<1> DEFINE set == ({event_handlers[l][f] : f \in ready} \ {None}) \cup a
<1>2. Fires(l, "dispatch", set) /\ pc[l] = "poll"
  BY Zenon, <1>1 DEF Poll, GoTo, Fires, SameObjects, SamePollers, SameQueues, SameManager, SameMain,
              objects, poller, queues, manager, main, history
<1>3. /\ set \subseteq Handler
      /\ \A c \in set : c # Acceptor => Mapped(l, c)
  BY <1>0 DEF LoopTypes, Pollers, Mapped, Handler
<1>4. QED
  BY Zenon, <1>2, <1>3, FiresKeeps

(* CheckEventHandlerTimeOut collects handlers of the map.                  *)
LEMMA CheckTimeOutKeeps ==
    ASSUME ReactorInv, Collect, NEW l \in Loop, CheckTimeOut(l) PROVE ReactorInv'
<1>0. ObjectTypes /\ ThreadTypes /\ LoopTypes /\ Pollers /\ Pointers /\ Asked
  BY Zenon DEF ReactorInv, Types
<1>1. /\ pc[l] = "dispatch" /\ fired[l] = {} /\ held' = held /\ idle' = idle /\ cur' = cur
      /\ SameObjects /\ SamePollers /\ SameQueues /\ SameManager /\ SameMain
      /\ terminal' = terminal /\ idx' = idx
  BY Zenon DEF CheckTimeOut, SameObjects, SamePollers, SameQueues, SameManager, SameMain,
         objects, poller, queues, manager, main, history
<1>2. CASE pc' = [pc EXCEPT ![l] = "swap"] /\ fired' = fired
  <2>1. /\ ObjectTypes' /\ LoopTypes' /\ BookTypes'
        /\ Sockets' /\ Pollers' /\ Entries' /\ Once' /\ Books' /\ Table'
    BY Zenon, <1>0, <1>1, <1>2, QuietStays DEF ThreadTypes, ObjectTypes
  <2>2. ThreadTypes'
    BY Zenon, <1>0, <1>1, <1>2 DEF ThreadTypes, PcValues
  <2>3. Pointers' /\ Asked'
    BY <1>0, <1>1, <1>2 DEF Pointers, Asked, Mapped, ThreadTypes,
                            SameObjects, SamePollers, SameManager
  <2>4. QED
    BY Zenon, <2>1, <2>2, <2>3 DEF ReactorInv, Types
<1>3. CASE /\ pc' = [pc EXCEPT ![l] = "expire"]
           /\ fired' = [fired EXCEPT ![l] =
                  idle \cap (Registered(l) \cup (IF l = 1 THEN {Acceptor} ELSE {}))]
  <2> DEFINE set == idle \cap (Registered(l) \cup (IF l = 1 THEN {Acceptor} ELSE {}))
  <2>1. Fires(l, "expire", set)
    BY Zenon, <1>1, <1>3 DEF Fires
  <2>2. /\ set \subseteq Handler
        /\ \A c \in set : c # Acceptor => Mapped(l, c)
    BY <1>0 DEF ObjectTypes, LoopTypes, Pollers, Mapped, Registered
  <2>3. QED
    BY Zenon, <1>1, <2>1, <2>2, FiresKeeps
<1>4. QED
  BY Zenon, <1>2, <1>3 DEF CheckTimeOut, GoTo

(* Loop l is back in its dispatch, in accept or out of Loop(); fewer raw   *)
(* pointers are left.                                                      *)
Returns(l, p) ==
    /\ held' = held /\ idx' = idx /\ idle' \subseteq Handler /\ terminal' \in [Loop -> BOOLEAN]
    /\ SameObjects /\ SamePollers /\ SameQueues /\ SameManager /\ SameMain
    /\ fired' \in [Loop -> SUBSET Handler] /\ \A m \in Loop : fired'[m] \subseteq fired[m]
    /\ pc' = [pc EXCEPT ![l] = p] /\ (p = "exited" => pc[l] = "poll")
    /\ pc[l] \in {"poll", "dispatch", "shutdown", "accept"}
    /\ cur' \in [Loop -> Conn \cup {None}] /\ \A m \in Loop \ {l} : cur'[m] = cur[m]

(* Such a step keeps the invariant.                                        *)
LEMMA ReturnsKeeps ==
    ASSUME ReactorInv, Collect, NEW l \in Loop, NEW p \in {"dispatch", "accept", "exited"},
           Returns(l, p)
    PROVE  ReactorInv'
<1>0. ThreadTypes /\ Pointers /\ Asked
  BY Zenon DEF ReactorInv, Types
<1>1. /\ SameObjects /\ SamePollers /\ SameQueues /\ SameManager /\ SameMain
      /\ held' = held /\ idle' \subseteq Handler
      /\ \A m \in Loop : fired'[m] \subseteq fired[m]
      /\ \A m \in Loop \ {l} : cur'[m] = cur[m]
      /\ pc[l] \in {"poll", "dispatch", "shutdown", "accept"}
      /\ p = "exited" => pc[l] = "poll"
  BY Zenon DEF Returns
<1>2. \A m \in Loop : pc'[m] = IF m = l THEN p ELSE pc[m]
  BY Zenon, <1>0 DEF Returns, ThreadTypes
<1>3. /\ ObjectTypes' /\ LoopTypes' /\ BookTypes'
      /\ Sockets' /\ Pollers' /\ Entries' /\ Once' /\ Books' /\ Table'
  BY Zenon, <1>1, <1>2, QuietStays
<1>4. ThreadTypes'
  BY Zenon, <1>0 DEF Returns, ThreadTypes, PcValues
<1>5. \A m \in Loop : \A c : Mapped(m, c)' <=> Mapped(m, c)
  BY Zenon, <1>1 DEF Mapped, SameObjects, SamePollers
<1>6. requested' = requested /\ event_loop' = event_loop
  BY Zenon, <1>1 DEF SameManager, SameObjects
<1>7. Pointers'
  BY <1>0, <1>1, <1>2, <1>5, <1>6 DEF Pointers, Mapped
<1>8. Asked'
  BY <1>0, <1>1, <1>2, <1>5, <1>6 DEF Asked, Mapped
<1>9. QED
  BY Zenon, <1>3, <1>4, <1>7, <1>8 DEF ReactorInv, Types

(* Six of the actions are such steps.                                      *)
LEMMA QuietKeeps ==
    ASSUME ReactorInv, Collect, NEW l \in Loop,
           \/ LoopExit(l) \/ HandleOk(l) \/ Shutdown(l) \/ AcceptBegin(l)
           \/ AcceptDone(l) \/ AcceptError(l)
    PROVE  ReactorInv'
<1>0. ObjectTypes /\ ThreadTypes
  BY Zenon DEF ReactorInv, Types
<1>1. /\ held' = held /\ idx' = idx
      /\ SameObjects /\ SamePollers /\ SameQueues /\ SameManager /\ SameMain
  BY Zenon, NoneAssumption
     DEF LoopExit, HandleOk, Shutdown, AcceptBegin, AcceptDone, AcceptError, OnError,
         SameObjects, SamePollers, SameQueues, SameManager, SameMain,
         objects, poller, queues, manager, main, history
<1>2. CASE LoopExit(l)
  <2>1. /\ pc[l] = "poll" /\ pc' = [pc EXCEPT ![l] = "exited"]
        /\ idle' = idle /\ fired' = fired /\ cur' = cur /\ terminal' = terminal
    BY Zenon, <1>2 DEF LoopExit, GoTo, objects
  <2>2. Returns(l, "exited")
    BY Zenon, <1>0, <1>1, <2>1 DEF Returns, ObjectTypes, ThreadTypes
  <2>3. QED
    BY Zenon, <2>2, ReturnsKeeps
<1>3. CASE HandleOk(l)
  <2>1. PICK c \in fired[l] : Served(l, c) /\ Touch(c)
    BY Zenon, <1>3 DEF HandleOk
  <2>2. /\ pc[l] = "dispatch" /\ pc' = [pc EXCEPT ![l] = "dispatch"]
        /\ cur' = cur /\ terminal' = terminal
    BY Zenon, <1>0, <1>3 DEF HandleOk, ThreadTypes
  <2>3. Returns(l, "dispatch")
    BY Zenon, <1>0, <1>1, <2>1, <2>2 DEF Returns, Served, Touch, ObjectTypes, ThreadTypes
  <2>4. QED
    BY Zenon, <2>3, ReturnsKeeps
<1>4. CASE Shutdown(l)
  <2>1. /\ pc[l] = "shutdown" /\ pc' = [pc EXCEPT ![l] = "dispatch"]
        /\ idle' = idle /\ fired' = fired /\ terminal' = terminal
        /\ cur' = [cur EXCEPT ![l] = None]
    BY Zenon, <1>4 DEF Shutdown, GoTo, objects
  <2>2. Returns(l, "dispatch")
    BY Zenon, <1>0, <1>1, <2>1 DEF Returns, ObjectTypes, ThreadTypes
  <2>3. QED
    BY Zenon, <2>2, ReturnsKeeps
<1>5. CASE AcceptBegin(l)
  <2>1. /\ pc[l] = "dispatch" /\ pc' = [pc EXCEPT ![l] = "accept"]
        /\ idle' = idle \ {Acceptor} /\ fired' = [fired EXCEPT ![l] = @ \ {Acceptor}]
        /\ terminal' = terminal /\ cur' = cur
    BY Zenon, <1>5 DEF AcceptBegin, Served, GoTo
  <2>2. Returns(l, "accept")
    BY Zenon, <1>0, <1>1, <2>1 DEF Returns, ObjectTypes, ThreadTypes
  <2>3. QED
    BY Zenon, <2>2, ReturnsKeeps
<1>6. CASE AcceptDone(l) \/ AcceptError(l)
  <2>1. /\ pc[l] = "accept" /\ pc' = [pc EXCEPT ![l] = "dispatch"]
        /\ idle' = idle /\ fired' = fired /\ cur' = cur
        /\ terminal' = terminal \/ terminal' = [m \in Loop |-> TRUE]
    BY Zenon, <1>6, NoneAssumption DEF AcceptDone, AcceptError, OnError, GoTo, objects
  <2>2. Returns(l, "dispatch")
    BY Zenon, <1>0, <1>1, <2>1 DEF Returns, ObjectTypes, ThreadTypes
  <2>3. QED
    BY Zenon, <2>2, ReturnsKeeps
<1>7. QED
  BY Zenon, <1>2, <1>3, <1>4, <1>5, <1>6

(* Time passes for a handler.                                              *)
LEMMA GoIdleKeeps ==
    ASSUME ReactorInv, Collect, NEW h \in Handler, GoIdle(h) PROVE ReactorInv'
<1>0. ObjectTypes /\ ThreadTypes /\ BookTypes /\ Pointers /\ Asked
  BY Zenon DEF ReactorInv, Types
<1>1. /\ held' = held /\ idle' \subseteq Handler
      /\ SameObjects /\ SamePollers /\ SameQueues /\ SameManager /\ SameMain
  BY Zenon, <1>0
     DEF GoIdle, ObjectTypes, SameObjects, SamePollers, SameQueues, SameManager, SameMain,
         loops, poller, queues, manager, main, history
<1>2. pc' = pc /\ fired' = fired /\ cur' = cur /\ terminal' = terminal /\ idx' = idx
  BY Zenon DEF GoIdle, loops
<1>3. /\ ObjectTypes' /\ LoopTypes' /\ BookTypes'
      /\ Sockets' /\ Pollers' /\ Entries' /\ Once' /\ Books' /\ Table'
  BY Zenon, <1>1, <1>2, QuietStays
<1>4. ThreadTypes'
  BY Zenon, <1>0, <1>2 DEF ThreadTypes
<1>5. /\ \A m \in Loop : \A c \in Handler : Mapped(m, c)' <=> Mapped(m, c)
      /\ requested' = requested /\ event_loop' = event_loop
  BY Zenon, <1>1 DEF Mapped, SameObjects, SamePollers, SameManager
<1>6. Pointers' /\ Asked'
  BY Zenon, <1>0, <1>2, <1>5, PointersShrink DEF ThreadTypes, ObjectTypes, BookTypes
<1>7. QED
  BY Zenon, <1>3, <1>4, <1>6 DEF ReactorInv, Types
-----------------------------------------------------------------------------
(* The threads go on as PointersShrink wants it.                           *)
NoNewPointers ==
    /\ \A m \in Loop : fired'[m] \subseteq fired[m]
    /\ \A m \in Loop : pc'[m] = "onError" <=> pc[m] = "onError"
    /\ \A m \in Loop : pc'[m] = "shutdown" => pc[m] = "shutdown"
    /\ \A m \in Loop : pc'[m] \in {"onError", "shutdown"} => cur'[m] = cur[m]
    /\ \A m \in Loop : pc'[m] \in {"poll", "swap", "apply", "exited"} =>
          pc[m] \in {"poll", "swap", "apply", "exited"} \/ fired'[m] = {}

(* A step that only works on the queues, and lets nothing new be owned.    *)
LEMMA QueueStepKeeps ==
    ASSUME ReactorInv, Collect, held' = held, idle' = idle, NoNewPointers,
           SameObjects, SamePollers, SameManager, SameMain,
           ThreadTypes', LoopTypes', Entries', Once',
           \A c \in created : Owned(c)' => Owned(c)
    PROVE  ReactorInv'
<1>0. /\ ObjectTypes /\ ThreadTypes /\ BookTypes /\ Sockets /\ Pollers
      /\ Pointers /\ Asked /\ Books /\ Table
  BY Zenon DEF ReactorInv, Types
<1>1. created' = created /\ fd' = fd /\ event_loop' = event_loop /\ requested' = requested
  BY Zenon DEF SameObjects, SameManager
<1>2. Sockets' /\ freed' \subseteq created'
  BY Zenon, <1>0, <1>1, SocketsStay
<1>3. ObjectTypes'
  <2>1. held' \subseteq created /\ idle' \subseteq Handler
    BY Zenon, <1>0 DEF ObjectTypes
  <2>2. QED
    BY Zenon, <1>0, <1>2, <2>1, ObjectTypesStay
<1>4. BookTypes' /\ Books' /\ Table' /\ Pollers'
  BY Zenon, <1>0, <1>1, BookTypesStay, BooksStay, TableStays, PollersStay
<1>5. \A m \in Loop : \A c \in Handler : Mapped(m, c)' <=> Mapped(m, c)
  BY Zenon DEF Mapped, SameObjects, SamePollers
<1>6. Pointers' /\ Asked'
  BY Zenon, <1>0, <1>1, <1>5, PointersShrink
     DEF NoNewPointers, ThreadTypes, ObjectTypes, BookTypes
<1>7. QED
  BY Zenon, <1>2, <1>3, <1>4, <1>6 DEF ReactorInv, Types

(* An entry that is right and adds nothing twice may join a queue.         *)
LEMMA EnqueueStays ==
    ASSUME Entries, Once, NEW i \in Loop, NEW e,
           Longer(changed, changed', i, e), temp' = temp, pos' = pos, SameObjects,
           EntryOK(i, e),
           \A c \in Handler : Adds(e, c) =>
               /\ \A m \in Loop : \A k \in DOMAIN changed[m] : ~Adds(changed[m][k], c)
               /\ \A m \in Loop : \A k \in Waiting(m) : ~Adds(temp[m][k], c),
           \A m \in Loop : pc'[m] = "handoff" =>
               pc[m] = "handoff" /\ cur'[m] = cur[m] /\ ~Adds(e, cur[m]),
           \A m \in Loop : pc'[m] # "apply" => pc[m] # "apply"
    PROVE  Entries' /\ Once'
<1>0. \A l \in Loop : Waiting(l)' = Waiting(l)
  BY Zenon DEF Waiting
<1>1. \A m \in Loop : \A k \in DOMAIN changed'[m] :
          \/ k \in DOMAIN changed[m] /\ changed'[m][k] = changed[m][k]
          \/ m = i /\ k = Len(changed[i]) + 1 /\ changed'[m][k] = e
  BY Zenon DEF Longer
<1>2. \A l \in Loop : \A k \in DOMAIN changed'[l] : EntryOK(l, changed[l][k])'
  BY <1>1 DEF Entries, EntryOK, SameObjects
<1>3. \A l \in Loop : \A k \in Waiting(l)' : EntryOK(l, temp[l][k])'
  BY <1>0 DEF Entries, EntryOK, SameObjects
<1>4. Entries'
  BY Zenon, <1>2, <1>3 DEF Entries, SameObjects
<1>5. OnceInChanged'
  BY <1>1 DEF Once, OnceInChanged
<1>6. OnceInTemp'
  BY <1>0 DEF Once, OnceInTemp
<1>7. NotInBoth'
  BY <1>0, <1>1 DEF Once, NotInBoth
<1>8. NotQueuedYet'
  BY <1>0, <1>1 DEF Once, NotQueuedYet
<1>9. QED
  BY Zenon, <1>4, <1>5, <1>6, <1>7, <1>8 DEF Once

(* RemoveHandlerLater for an idle handler of this loop.                    *)
LEMMA ExpireKeeps ==
    ASSUME ReactorInv, Collect, NEW l \in Loop, Expire(l) PROVE ReactorInv'
<1>0. /\ ObjectTypes /\ ThreadTypes /\ LoopTypes /\ BookTypes
      /\ Pollers /\ Entries /\ Once /\ Pointers
  BY Zenon DEF ReactorInv, Types
<1>1. /\ held' = held /\ idle' = idle /\ cur' = cur /\ terminal' = terminal /\ idx' = idx
      /\ SameObjects /\ SamePollers /\ SameManager /\ SameMain
      /\ temp' = temp /\ pos' = pos /\ pc[l] = "expire"
  BY Zenon DEF Expire, SameObjects, SamePollers, SameManager, SameMain,
         objects, poller, manager, main, history
<1>2. CASE fired[l] = {} /\ pc' = [pc EXCEPT ![l] = "swap"] /\ changed' = changed /\ fired' = fired
  <2>1. SameQueues
    BY Zenon, <1>1, <1>2 DEF SameQueues
  <2>2. \A m \in Loop : pc'[m] = IF m = l THEN "swap" ELSE pc[m]
    BY Zenon, <1>0, <1>2 DEF ThreadTypes
  <2>3. ThreadTypes' /\ NoNewPointers
    BY Zenon, <1>0, <1>1, <1>2 DEF ThreadTypes, PcValues, NoNewPointers
  <2>4. LoopTypes' /\ Entries' /\ Once'
    BY Zenon, <1>0, <1>1, <2>1, <2>2, LoopTypesStay, EntriesStay
  <2>5. \A c \in created : Owned(c)' => Owned(c)
    <3> SUFFICES ASSUME NEW c \in created PROVE Owned(c)' => Owned(c)
      BY Zenon
    <3>1. InHandoff(c)' => InHandoff(c)
      BY Zenon, <1>1, <2>2 DEF InHandoff
    <3>2. QED
      BY Zenon, <1>1, <2>1, <3>1, OwnedParts, InPollerStays, InQueueStays, InTableStays,
         InVectorsStay
  <2>6. QED
    BY Zenon, <1>1, <2>3, <2>4, <2>5, QueueStepKeeps
<1>3. ASSUME NEW h \in fired[l],
             changed' = [changed EXCEPT ![l] = Append(changed[l], <<FALSE, h>>)],
             fired' = [fired EXCEPT ![l] = @ \ {h}], pc' = pc
      PROVE  ReactorInv'
  <2> DEFINE e == <<FALSE, h>>
  <2>1. h \in Handler /\ e \in BOOLEAN \X Handler /\ e[2] = h
    BY Zenon, <1>0 DEF ThreadTypes
  <2>2. h # Acceptor => Mapped(l, h)
    BY Zenon, <1>0 DEF Pointers
  <2>3. /\ \A c \in Handler : ~Adds(e, c)
        /\ \A c \in Handler : Fails(e, c) => c = h
    BY Zenon DEF Adds, Fails
  <2>4. Longer(changed, changed', l, e)
    BY Zenon, <1>0, <1>3, <2>1, AppendEntry DEF LoopTypes
  <2>5. h # Acceptor => event_loop[h] = l /\ h \in created /\ fd[h] \in Fd
    <3>1. h # Acceptor => h \in created /\ fd[h] \in Fd /\ event_handlers[l][fd[h]] = h
      BY Zenon, <2>2 DEF Mapped, ReactorInv, Sockets
    <3>2. h # Acceptor => h # None
      BY Zenon, <2>1, NoneAssumption DEF Handler
    <3>3. QED
      BY <1>0, <3>1, <3>2 DEF Pollers
  <2>6. EntryOK(l, e)
    BY Zenon, <2>3, <2>5 DEF EntryOK
  <2> HIDE DEF e
  <2>7. \A m \in Loop : pc'[m] = "handoff" =>
            pc[m] = "handoff" /\ cur'[m] = cur[m] /\ ~Adds(e, cur[m])
    <3>1. \A m \in Loop : pc[m] = "handoff" => cur[m] \in Handler
      BY Zenon, <1>0 DEF Entries, ObjectTypes, Handler
    <3>2. QED
      BY Zenon, <1>1, <1>3, <2>3, <3>1
  <2>8. Entries' /\ Once'
    BY Zenon, <1>0, <1>1, <1>3, <2>3, <2>4, <2>6, <2>7, EnqueueStays
  <2>9. LoopTypes'
    BY Zenon, <1>0, <1>1, <2>4 DEF LoopTypes, SamePollers, Longer
  <2>10. ThreadTypes' /\ NoNewPointers
    BY Zenon, <1>0, <1>1, <1>3 DEF ThreadTypes, NoNewPointers
  <2>11. \A c \in created : Owned(c)' => Owned(c)
    <3> SUFFICES ASSUME NEW c \in created PROVE Owned(c)' => Owned(c)
      BY Zenon
    <3>1. InHandoff(c)' => InHandoff(c)
      BY Zenon, <1>1, <1>3 DEF InHandoff
    <3>2. InQueue(c)' => InQueue(c) \/ c = h
      BY Zenon, <1>1, <2>1, <2>4 DEF InQueue, Longer
    <3>3. c = h => InPoller(c)
      BY Zenon, <1>0, <2>2, <2>5, NoneAssumption DEF Mapped, InPoller, ObjectTypes
    <3>4. QED
      BY Zenon, <1>1, <3>1, <3>2, <3>3, OwnedParts, InPollerStays, InTableStays, InVectorsStay
  <2>12. QED
    BY Zenon, <1>1, <2>8, <2>9, <2>10, <2>11, QueueStepKeeps
<1>4. QED
  BY Zenon, <1>2, <1>3 DEF Expire, GoTo
-----------------------------------------------------------------------------
(* The swap moves every entry of changed_handler_ to temp_queue.           *)
LEMMA SwapKeeps ==
    ASSUME ReactorInv, Collect, NEW l \in Loop, Swap(l) PROVE ReactorInv'
<1>0. ObjectTypes /\ ThreadTypes /\ LoopTypes /\ Entries /\ Once /\ Pointers
  BY Zenon DEF ReactorInv, Types
<1>1. /\ held' = held /\ idle' = idle /\ cur' = cur /\ terminal' = terminal /\ idx' = idx
      /\ SameObjects /\ SamePollers /\ SameManager /\ SameMain
      /\ fired' = fired /\ pos' = pos /\ pc[l] = "swap" /\ pc' = [pc EXCEPT ![l] = "apply"]
      /\ temp' = [temp EXCEPT ![l] = changed[l]]
      /\ changed' = [changed EXCEPT ![l] = <<>>]
  BY Zenon DEF Swap, GoTo, SameObjects, SamePollers, SameManager, SameMain,
         objects, poller, manager, main, history
<1>2. /\ \A m \in Loop : pc'[m] = IF m = l THEN "apply" ELSE pc[m]
      /\ \A m \in Loop : temp'[m] = IF m = l THEN changed[l] ELSE temp[m]
      /\ \A m \in Loop : changed'[m] = IF m = l THEN <<>> ELSE changed[m]
  BY Zenon, <1>0, <1>1 DEF ThreadTypes, LoopTypes
<1>3. temp[l] = <<>> /\ pos[l] = 0
  BY Zenon, <1>0, <1>1 DEF Entries
<1>4. \A m \in Loop : Waiting(m)' = IF m = l THEN DOMAIN changed[l] ELSE Waiting(m)
  BY <1>0, <1>1, <1>2, <1>3 DEF Waiting, LoopTypes
<1>5. \A m \in Loop : \A k \in DOMAIN changed'[m] :
          m # l /\ k \in DOMAIN changed[m] /\ changed'[m][k] = changed[m][k]
  BY <1>2
<1>6. \A m \in Loop : \A k \in Waiting(m)' :
          \/ m = l /\ k \in DOMAIN changed[l] /\ temp'[m][k] = changed[l][k]
          \/ m # l /\ k \in Waiting(m) /\ temp'[m][k] = temp[m][k]
  BY Zenon, <1>2, <1>4
<1>7. \A m \in Loop : \A k \in DOMAIN changed'[m] : EntryOK(m, changed[m][k])'
  BY <1>0, <1>1, <1>5 DEF Entries, EntryOK, SameObjects
<1>8. \A m \in Loop : \A k \in Waiting(m)' : EntryOK(m, temp[m][k])'
  BY <1>0, <1>1, <1>6 DEF Entries, EntryOK, SameObjects
<1>9. Entries'
  BY <1>0, <1>1, <1>2, <1>7, <1>8 DEF Entries, SameObjects
<1>10. OnceInChanged'
  BY <1>0, <1>5 DEF Once, OnceInChanged
<1>11. OnceInTemp'
  BY <1>0, <1>6 DEF Once, OnceInChanged, OnceInTemp, NotInBoth
<1>12. NotInBoth'
  BY <1>0, <1>5, <1>6 DEF Once, OnceInChanged, NotInBoth
<1>13. NotQueuedYet'
  BY <1>0, <1>1, <1>2, <1>5, <1>6 DEF Once, NotQueuedYet
<1>14. LoopTypes'
  BY SMTT(20), <1>0, <1>1, <1>2, <1>3 DEF LoopTypes, SamePollers
<1>15. ThreadTypes' /\ NoNewPointers
  BY Zenon, <1>0, <1>1 DEF ThreadTypes, PcValues, NoNewPointers
<1>16. \A c \in created : Owned(c)' => Owned(c)
  <2> SUFFICES ASSUME NEW c \in created PROVE Owned(c)' => Owned(c)
    BY Zenon
  <2>1. InHandoff(c)' => InHandoff(c)
    BY <1>1, <1>2 DEF InHandoff
  <2>2. InQueue(c)' => InQueue(c)
    <3>1. Queued(<<>>) = {}
      BY DEF Queued
    <3>2. QED
      BY Zenon, <1>2, <3>1 DEF InQueue
  <2>3. QED
    BY Zenon, <1>1, <2>1, <2>2, OwnedParts, InPollerStays, InTableStays, InVectorsStay
<1>17. QED
  BY Zenon, <1>1, <1>9, <1>10, <1>11, <1>12, <1>13, <1>14, <1>15, <1>16, QueueStepKeeps DEF Once

(* temp_queue is destroyed when all its entries are done.                  *)
LEMMA ApplyDoneKeeps ==
    ASSUME ReactorInv, Collect, NEW l \in Loop, ApplyDone(l) PROVE ReactorInv'
<1>0. ObjectTypes /\ ThreadTypes /\ LoopTypes /\ Entries /\ Once /\ Pointers
  BY Zenon DEF ReactorInv, Types
<1>1. /\ held' = held /\ idle' = idle /\ cur' = cur /\ terminal' = terminal /\ idx' = idx
      /\ SameObjects /\ SamePollers /\ SameManager /\ SameMain
      /\ fired' = fired /\ changed' = changed /\ pc[l] = "apply"
      /\ pc' = [pc EXCEPT ![l] = "poll"]
      /\ temp' = [temp EXCEPT ![l] = <<>>] /\ pos' = [pos EXCEPT ![l] = 0]
  BY Zenon DEF ApplyDone, GoTo, SameObjects, SamePollers, SameManager, SameMain,
         objects, poller, manager, main, history
<1>2. /\ \A m \in Loop : pc'[m] = IF m = l THEN "poll" ELSE pc[m]
      /\ \A m \in Loop : temp'[m] = IF m = l THEN <<>> ELSE temp[m]
      /\ \A m \in Loop : pos'[m] = IF m = l THEN 0 ELSE pos[m]
  BY Zenon, <1>0, <1>1 DEF ThreadTypes, LoopTypes
<1>3. \A m \in Loop : Waiting(m)' = IF m = l THEN {} ELSE Waiting(m)
  BY <1>2 DEF Waiting
<1>4. \A m \in Loop : \A k \in Waiting(m)' :
          m # l /\ k \in Waiting(m) /\ temp'[m][k] = temp[m][k]
  BY Zenon, <1>2, <1>3
<1>5. ASSUME NEW m \in Loop, NEW k \in DOMAIN changed'[m] PROVE EntryOK(m, changed[m][k])'
  <2>1. EntryOK(m, changed[m][k]) /\ changed'[m][k] = changed[m][k]
    BY Zenon, <1>0, <1>1 DEF Entries
  <2>2. QED
    BY Zenon, <1>1, <2>1 DEF EntryOK, SameObjects
<1>6. ASSUME NEW m \in Loop, NEW k \in Waiting(m)' PROVE EntryOK(m, temp[m][k])'
  <2>1. EntryOK(m, temp[m][k]) /\ temp'[m][k] = temp[m][k]
    BY Zenon, <1>0, <1>4 DEF Entries
  <2>2. QED
    BY Zenon, <1>1, <2>1 DEF EntryOK, SameObjects
<1>7. Entries'
  BY SMTT(20), <1>0, <1>1, <1>2, <1>5, <1>6 DEF Entries, SameObjects
<1>8. OnceInChanged' /\ OnceInTemp' /\ NotInBoth'
  BY SMTT(20), <1>0, <1>1, <1>4 DEF Once, OnceInChanged, OnceInTemp, NotInBoth
<1>9. NotQueuedYet'
  BY SMTT(20), <1>0, <1>1, <1>2, <1>4 DEF Once, NotQueuedYet
<1>10. LoopTypes'
  BY <1>0, <1>1, <1>2 DEF LoopTypes, SamePollers
<1>11. ThreadTypes' /\ NoNewPointers
  BY Zenon, <1>0, <1>1 DEF ThreadTypes, PcValues, NoNewPointers
<1>12. \A c \in created : Owned(c)' => Owned(c)
  <2> SUFFICES ASSUME NEW c \in created PROVE Owned(c)' => Owned(c)
    BY Zenon
  <2>1. InHandoff(c)' => InHandoff(c)
    BY <1>1, <1>2 DEF InHandoff
  <2>2. InQueue(c)' => InQueue(c)
    <3>1. Queued(<<>>) = {}
      BY DEF Queued
    <3>2. QED
      BY Zenon, <1>1, <1>2, <3>1 DEF InQueue
  <2>3. QED
    BY Zenon, <1>1, <2>1, <2>2, OwnedParts, InPollerStays, InTableStays, InVectorsStay
<1>13. QED
  BY Zenon, <1>1, <1>7, <1>8, <1>9, <1>10, <1>11, <1>12, QueueStepKeeps DEF Once

(* The acceptor gives the new connection to the next loop.                 *)
LEMMA HandoffKeeps ==
    ASSUME ReactorInv, Collect, NEW l \in Loop, Handoff(l) PROVE ReactorInv'
<1>0. ObjectTypes /\ ThreadTypes /\ LoopTypes /\ Entries /\ Once /\ Pointers
  BY Zenon DEF ReactorInv, Types
<1> DEFINE e == <<TRUE, cur[l]>>
<1>1. /\ held' = held /\ idle' = idle /\ terminal' = terminal /\ fired' = fired
      /\ SameObjects /\ SamePollers /\ SameManager /\ SameMain
      /\ temp' = temp /\ pos' = pos /\ pc[l] = "handoff"
      /\ pc' = [pc EXCEPT ![l] = "accept"] /\ cur' = [cur EXCEPT ![l] = None]
      /\ changed' = [changed EXCEPT ![idx] = Append(changed[idx], e)]
      /\ idx' = NextLoop(idx)
  BY Zenon DEF Handoff, GoTo, SameObjects, SamePollers, SameManager, SameMain,
         objects, poller, manager, main, history
<1>2. cur[l] \in created /\ cur[l] \in Handler /\ event_loop[cur[l]] = 0
  BY Zenon, <1>0, <1>1 DEF Entries, ObjectTypes, Handler
<1>3. e \in BOOLEAN \X Handler /\ e[2] = cur[l] /\ idx \in Loop
  BY Zenon, <1>0, <1>2 DEF ThreadTypes
<1>4. /\ \A c : Adds(e, c) => c = cur[l]
      /\ \A c \in Handler : ~Fails(e, c)
  BY Zenon DEF Adds, Fails
<1>5. Longer(changed, changed', idx, e)
  BY Zenon, <1>0, <1>1, <1>3, AppendEntry DEF LoopTypes
<1>6. EntryOK(idx, e)
  BY Zenon, <1>2, <1>4 DEF EntryOK
<1> HIDE DEF e
<1>7. /\ \A m \in Loop : pc'[m] = IF m = l THEN "accept" ELSE pc[m]
      /\ \A m \in Loop : cur'[m] = IF m = l THEN None ELSE cur[m]
  BY Zenon, <1>0, <1>1 DEF ThreadTypes
<1>8. \A c \in Handler : Adds(e, c) =>
          /\ \A m \in Loop : \A k \in DOMAIN changed[m] : ~Adds(changed[m][k], c)
          /\ \A m \in Loop : \A k \in Waiting(m) : ~Adds(temp[m][k], c)
  <2>1. /\ \A m \in Loop : \A k \in DOMAIN changed[m] : ~Adds(changed[m][k], cur[l])
        /\ \A m \in Loop : \A k \in Waiting(m) : ~Adds(temp[m][k], cur[l])
    BY Zenon, <1>0, <1>1 DEF Once, NotQueuedYet
  <2>2. QED
    BY Zenon, <1>4, <2>1
<1>9. \A m \in Loop : pc'[m] = "handoff" =>
          pc[m] = "handoff" /\ cur'[m] = cur[m] /\ ~Adds(e, cur[m])
  BY SMTT(20), <1>0, <1>1, <1>4, <1>7 DEF Once, NotQueuedYet
<1>10. Entries' /\ Once'
  <2>1. \A m \in Loop : pc'[m] # "apply" => pc[m] # "apply"
    BY Zenon, <1>1, <1>7
  <2>2. temp' = temp /\ pos' = pos /\ SameObjects /\ Entries /\ Once /\ idx \in Loop
    BY Zenon, <1>0, <1>1, <1>3
  <2>3. QED
    BY Zenon, <1>5, <1>6, <1>8, <1>9, <2>1, <2>2, EnqueueStays
<1>11. LoopTypes'
  BY Zenon, <1>0, <1>1, <1>5 DEF LoopTypes, SamePollers, Longer
<1>12. idx' \in Loop
  BY <1>1, <1>3, LoopsAssumption DEF NextLoop, Loop
<1>13. ThreadTypes' /\ NoNewPointers
  BY Zenon, <1>0, <1>1, <1>12 DEF ThreadTypes, PcValues, NoNewPointers
<1>14. \A c \in created : Owned(c)' => Owned(c)
  <2> SUFFICES ASSUME NEW c \in created PROVE Owned(c)' => Owned(c)
    BY Zenon
  <2>1. InHandoff(c)' => InHandoff(c)
    BY Zenon, <1>7 DEF InHandoff
  <2>2. InQueue(c)' => InQueue(c) \/ InHandoff(c)
    BY Zenon, <1>1, <1>3, <1>5 DEF InQueue, InHandoff, Longer
  <2>3. QED
    BY Zenon, <1>1, <2>1, <2>2, OwnedParts, InPollerStays, InTableStays, InVectorsStay
<1>15. QED
  BY Zenon, <1>1, <1>10, <1>11, <1>13, <1>14, QueueStepKeeps
-----------------------------------------------------------------------------
(* A step after which nothing new is owned, from its effect on the rest.   *)
LEMMA StepKeeps ==
    ASSUME ReactorInv, Collect, created' = created, fd' = fd,
           held' \subseteq created, idle' \subseteq Handler,
           event_loop' \in [Conn -> Loop \cup {0}],
           \A c \in Conn \ created : event_loop'[c] = 0,
           ThreadTypes', LoopTypes', BookTypes', Pollers', Entries', Once',
           Pointers', Asked', Books', Table',
           \A c \in created : Owned(c)' => Owned(c)
    PROVE  ReactorInv'
<1>1. ObjectTypes /\ Sockets
  BY Zenon DEF ReactorInv, Types
<1>2. Sockets' /\ freed' \subseteq created'
  BY Zenon, <1>1, SocketsStay
<1>3. ObjectTypes'
  BY Zenon, <1>1, <1>2 DEF ObjectTypes
<1>4. QED
  BY Zenon, <1>2, <1>3 DEF ReactorInv, Types

(* What RemoveEventHandler leaves.                                         *)
Unmapped(l, c) ==
    /\ event_handlers' \in [Loop -> [Fd -> Conn \cup {None}]]
    /\ watched' \in [Loop -> SUBSET Fd]
    /\ Pollers'
    /\ \A d \in created : InPoller(d)' => InPoller(d)
    /\ \A m \in Loop : \A d \in created :
          Mapped(m, d)' <=> Mapped(m, d) /\ (m # l \/ fd[d] # fd[c])

(* RemoveEventHandler does that.                                           *)
LEMMA RemoveEventHandlerUnmaps ==
    ASSUME ReactorInv, NEW l \in Loop, NEW c \in created, event_loop[c] = l,
           SameObjects, RemoveEventHandler(c)
    PROVE  Unmapped(l, c)
<1>0. ObjectTypes /\ LoopTypes /\ Sockets /\ Pollers
  BY Zenon DEF ReactorInv, Types
<1>1. /\ created \subseteq Conn /\ None \notin created
      /\ \A d \in created : fd[d] \in Fd
      /\ created' = created /\ fd' = fd /\ event_loop' = event_loop
  BY Zenon, <1>0, NoneAssumption DEF ObjectTypes, Sockets, SameObjects
<1> DEFINE g == fd[c]
<1>2. /\ event_handlers' = [event_handlers EXCEPT ![l] = [event_handlers[l] EXCEPT ![g] = None]]
      /\ watched' = [watched EXCEPT ![l] = watched[l] \ {g}]
  BY Zenon DEF RemoveEventHandler
<1>3. g \in Fd
  BY Zenon, <1>1
<1> HIDE DEF g
<1>4. /\ event_handlers' \in [Loop -> [Fd -> Conn \cup {None}]]
      /\ watched' \in [Loop -> SUBSET Fd]
  BY Zenon, <1>0, <1>2, <1>3 DEF LoopTypes
<1>5. \A m \in Loop : \A f \in Fd :
          event_handlers'[m][f] = IF m = l /\ f = g THEN None ELSE event_handlers[m][f]
  BY Zenon, <1>0, <1>2, <1>3 DEF LoopTypes
<1>6. \A m \in Loop : \A f \in Fd : f \in watched'[m] <=> f \in watched[m] /\ ~(m = l /\ f = g)
  BY Zenon, <1>0, <1>2 DEF LoopTypes
<1>7. Pollers'
  BY SMTT(20), <1>0, <1>1, <1>5, <1>6 DEF Pollers
<1>8. \A d \in created : InPoller(d)' => InPoller(d)
  BY SMTT(20), <1>1, <1>5 DEF InPoller
<1>9. \A m \in Loop : \A d \in created :
          Mapped(m, d)' <=> Mapped(m, d) /\ (m # l \/ fd[d] # g)
  BY <1>1, <1>5 DEF Mapped
<1>10. QED
  BY Zenon, <1>4, <1>7, <1>8, <1>9 DEF Unmapped, g

(* A handler in the map of a loop was added to this loop.                  *)
LEMMA MappedHere ==
    ASSUME ReactorInv, NEW l \in Loop, NEW c, Mapped(l, c)
    PROVE  c \in created /\ c \in Conn /\ fd[c] \in Fd /\ event_loop[c] = l /\ c # Acceptor
<1>1. c \in created /\ c \in Conn /\ c # None /\ c # Acceptor /\ fd[c] \in Fd
  BY Zenon, NoneAssumption DEF Mapped, ReactorInv, Types, ObjectTypes, Sockets
<1>2. event_loop[c] = l
  BY <1>1 DEF Mapped, ReactorInv, Pollers
<1>3. QED
  BY Zenon, <1>1, <1>2

(* A step of a loop that takes its handler c out of the map.               *)
RemovesIts(l, c) ==
    /\ held' = held /\ idle' \subseteq Handler /\ terminal' = terminal /\ idx' = idx
    /\ SameObjects /\ SameQueues /\ SameManager /\ SameMain /\ cur' = cur
    /\ RemoveEventHandler(c)

(* Such a step keeps all but what is said of the raw pointers.             *)
LEMMA RemovesItsStays ==
    ASSUME ReactorInv, Collect, NEW l \in Loop, NEW c, Mapped(l, c), RemovesIts(l, c),
           ThreadTypes', Pointers', Asked',
           \A m \in Loop : pc'[m] = "handoff" <=> pc[m] = "handoff",
           \A m \in Loop : pc'[m] # "apply" => pc[m] # "apply"
    PROVE  ReactorInv'
<1>0. /\ ObjectTypes /\ LoopTypes /\ BookTypes /\ Entries /\ Once /\ Books /\ Table
  BY Zenon DEF ReactorInv, Types
<1>1. /\ held' = held /\ idle' \subseteq Handler /\ cur' = cur
      /\ SameObjects /\ SameQueues /\ SameManager /\ SameMain
      /\ RemoveEventHandler(c)
      /\ created' = created /\ fd' = fd /\ event_loop' = event_loop
  BY Zenon DEF RemovesIts, SameObjects
<1>2. Unmapped(l, c)
  BY Zenon, <1>1, MappedHere, RemoveEventHandlerUnmaps
<1>3. Pollers' /\ LoopTypes'
  BY Zenon, <1>0, <1>1, <1>2 DEF Unmapped, LoopTypes, SameQueues
<1>4. Entries' /\ Once'
  BY Zenon, <1>0, <1>1, EntriesStay
<1>5. BookTypes' /\ Books' /\ Table'
  BY Zenon, <1>0, <1>1, BookTypesStay, BooksStay, TableStays
<1>6. \A d \in created : Owned(d)' => Owned(d)
  <2> SUFFICES ASSUME NEW d \in created PROVE Owned(d)' => Owned(d)
    BY Zenon
  <2>1. InHandoff(d)' => InHandoff(d)
    BY Zenon, <1>1 DEF InHandoff
  <2>2. InPoller(d)' => InPoller(d)
    BY Zenon, <1>2 DEF Unmapped
  <2>3. QED
    BY Zenon, <1>1, <2>1, <2>2, OwnedParts, InQueueStays, InTableStays, InVectorsStay
<1>7. /\ held' \subseteq created /\ event_loop' \in [Conn -> Loop \cup {0}]
      /\ \A d \in Conn \ created : event_loop'[d] = 0
  BY Zenon, <1>0, <1>1 DEF ObjectTypes
<1>8. QED
  BY Zenon, <1>1, <1>3, <1>4, <1>5, <1>6, <1>7, StepKeeps

(* OnRead failed: the handler leaves the map and nothing else.             *)
LEMMA ReadErrorKeeps ==
    ASSUME ReactorInv, Collect, NEW l \in Loop, ReadError(l) PROVE ReactorInv'
<1>0. ObjectTypes /\ ThreadTypes /\ BookTypes /\ Pointers /\ Asked
  BY Zenon DEF ReactorInv, Types
<1>1. PICK c \in fired[l] \ {Acceptor} : Served(l, c) /\ idle' = idle \ {c} /\ OnError(c)
  BY Zenon DEF ReadError
<1>2. Mapped(l, c) /\ c \notin requested
  BY Zenon, <1>0 DEF Pointers
<1>3. /\ held' = held /\ idx' = idx /\ cur' = cur /\ pc' = pc /\ pc[l] = "dispatch"
      /\ SameObjects /\ SameQueues /\ SameManager /\ SameMain
  BY Zenon DEF ReadError, SameObjects, SameQueues, SameManager, SameMain,
         queues, manager, main, history
<1>4. RemoveEventHandler(c) /\ terminal' = terminal
  BY Zenon, <1>1, <1>2, MappedHere DEF OnError
<1>5. idle' \subseteq Handler
  BY Zenon, <1>0, <1>1 DEF ObjectTypes
<1>6. RemovesIts(l, c)
  BY Zenon, <1>3, <1>4, <1>5 DEF RemovesIts
<1>7. /\ created' = created /\ fd' = fd /\ event_loop' = event_loop /\ requested' = requested
      /\ Unmapped(l, c)
  BY Zenon, <1>2, <1>3, <1>4, MappedHere, RemoveEventHandlerUnmaps DEF SameObjects, SameManager
<1>8. \A m \in Loop : fired'[m] = IF m = l THEN fired[l] \ {c} ELSE fired[m]
  BY Zenon, <1>0, <1>1 DEF Served, ThreadTypes
<1>9. ThreadTypes'
  BY Zenon, <1>0, <1>1, <1>3, <1>4 DEF ThreadTypes, Served
<1>10. ASSUME NEW m \in Loop, NEW d \in fired'[m], d # Acceptor
       PROVE  Mapped(m, d)' /\ d \notin requested'
  <2>1. Mapped(m, d) /\ d \notin requested /\ (m = l => d # c)
    BY Zenon, <1>0, <1>8, <1>10 DEF Pointers
  <2>2. m = l => fd[d] # fd[c]
    BY Zenon, <1>2, <2>1 DEF Mapped
  <2>3. d \in created
    BY Zenon, <2>1 DEF Mapped
  <2>4. QED
    BY Zenon, <1>7, <2>1, <2>2, <2>3 DEF Unmapped
<1>11. ASSUME NEW m \in Loop, pc'[m] = "onError" PROVE Mapped(m, cur[m])'
  <2>1. m # l /\ Mapped(m, cur[m]) /\ cur[m] \in created
    BY Zenon, <1>0, <1>3, <1>11 DEF Pointers, Mapped
  <2>2. \A d \in created : Mapped(m, d)' <=> Mapped(m, d)
    BY Zenon, <1>7, <2>1 DEF Unmapped
  <2>3. QED
    BY Zenon, <1>3, <2>1, <2>2 DEF Mapped
<1>12. \A m \in Loop : pc'[m] \in {"poll", "swap", "apply", "exited"} => fired'[m] = {}
  BY Zenon, <1>0, <1>3, <1>8 DEF Pointers
<1>13. Pointers'
  BY Zenon, <1>10, <1>11, <1>12 DEF Pointers
<1>14. \A m \in Loop : \A d \in requested' : Mapped(m, d)' => pc'[m] = "onError" /\ cur'[m] = d
  BY Zenon, <1>0, <1>3, <1>7 DEF Asked, Unmapped, BookTypes
<1>15. Asked'
  BY Zenon, <1>0, <1>3, <1>7, <1>14 DEF Asked
<1>16. QED
  BY Zenon, <1>2, <1>3, <1>6, <1>9, <1>13, <1>15, RemovesItsStays

(* OnError after RemoveConn: now the requested handler leaves the map.     *)
LEMMA WriteErrorOnErrorKeeps ==
    ASSUME ReactorInv, Collect, NEW l \in Loop, WriteErrorOnError(l) PROVE ReactorInv'
<1>0. ObjectTypes /\ ThreadTypes /\ BookTypes /\ Pointers /\ Asked
  BY Zenon DEF ReactorInv, Types
<1>1. /\ pc[l] = "onError" /\ pc' = [pc EXCEPT ![l] = "shutdown"] /\ OnError(cur[l])
      /\ held' = held /\ idle' = idle /\ idx' = idx /\ cur' = cur /\ fired' = fired
      /\ SameObjects /\ SameQueues /\ SameManager /\ SameMain
  BY Zenon DEF WriteErrorOnError, GoTo, SameObjects, SameQueues, SameManager, SameMain,
         objects, queues, manager, main, history
<1> DEFINE c == cur[l]
<1>2. Mapped(l, c) /\ c \in requested
  BY Zenon, <1>0, <1>1 DEF Pointers, Asked
<1>3. OnError(c)
  BY Zenon, <1>1
<1> HIDE DEF c
<1>4. RemoveEventHandler(c) /\ terminal' = terminal
  BY Zenon, <1>2, <1>3, MappedHere DEF OnError
<1>5. RemovesIts(l, c)
  BY Zenon, <1>0, <1>1, <1>4 DEF RemovesIts, ObjectTypes
<1>6. /\ created' = created /\ fd' = fd /\ event_loop' = event_loop /\ requested' = requested
      /\ Unmapped(l, c)
  BY Zenon, <1>1, <1>2, <1>4, MappedHere, RemoveEventHandlerUnmaps DEF SameObjects, SameManager
<1>7. \A m \in Loop : pc'[m] = IF m = l THEN "shutdown" ELSE pc[m]
  BY Zenon, <1>0, <1>1 DEF ThreadTypes
<1>8. ThreadTypes'
  BY Zenon, <1>0, <1>1, <1>4 DEF ThreadTypes, PcValues
<1>9. ASSUME NEW m \in Loop, NEW d \in fired'[m], d # Acceptor
      PROVE  Mapped(m, d)' /\ d \notin requested'
  <2>1. Mapped(m, d) /\ d \notin requested /\ d # c
    BY Zenon, <1>0, <1>1, <1>2, <1>9 DEF Pointers
  <2>2. m = l => fd[d] # fd[c]
    BY Zenon, <1>2, <2>1 DEF Mapped
  <2>3. d \in created
    BY Zenon, <2>1 DEF Mapped
  <2>4. QED
    BY Zenon, <1>6, <2>1, <2>2, <2>3 DEF Unmapped
<1>10. ASSUME NEW m \in Loop, pc'[m] = "onError" PROVE Mapped(m, cur[m])'
  <2>1. m # l /\ Mapped(m, cur[m]) /\ cur[m] \in created
    BY Zenon, <1>0, <1>7, <1>10 DEF Pointers, Mapped
  <2>2. \A d \in created : Mapped(m, d)' <=> Mapped(m, d)
    BY Zenon, <1>6, <2>1 DEF Unmapped
  <2>3. QED
    BY Zenon, <1>1, <2>1, <2>2 DEF Mapped
<1>11. \A m \in Loop : pc'[m] \in {"poll", "swap", "apply", "exited"} => fired'[m] = {}
  BY <1>0, <1>1, <1>7 DEF Pointers
<1>12. Pointers'
  BY Zenon, <1>9, <1>10, <1>11 DEF Pointers
<1>13. ASSUME NEW m \in Loop, NEW d \in requested', Mapped(m, d)'
       PROVE  pc'[m] = "onError" /\ cur'[m] = d
  <2>1. d \in created /\ Mapped(m, d) /\ (m # l \/ fd[d] # fd[c])
    BY Zenon, <1>0, <1>6, <1>13 DEF Unmapped, BookTypes
  <2>2. pc[m] = "onError" /\ cur[m] = d
    BY Zenon, <1>0, <1>6, <2>1 DEF Asked
  <2>3. m # l
    BY Zenon, <2>1, <2>2 DEF c
  <2>4. QED
    BY Zenon, <1>1, <1>7, <2>2, <2>3
<1>14. \A m \in Loop : pc'[m] \in {"onError", "shutdown"} => cur'[m] \in requested'
  BY Zenon, <1>0, <1>1, <1>6, <1>7 DEF Asked
<1>15. Asked'
  BY Zenon, <1>0, <1>6, <1>13, <1>14 DEF Asked
<1>16. \A m \in Loop : /\ pc'[m] = "handoff" <=> pc[m] = "handoff"
                       /\ pc'[m] # "apply" => pc[m] # "apply"
  BY <1>1, <1>7
<1>17. QED
  BY Zenon, <1>2, <1>5, <1>8, <1>12, <1>15, <1>16, RemovesItsStays
-----------------------------------------------------------------------------
(* The entry of temp_queue that is next.                                   *)
NextEntry(l) == temp[l][pos[l] + 1]

(* Doing it keeps the others right, also if its handler gets a loop.       *)
LEMMA AdvanceStays ==
    ASSUME ReactorInv, NEW l \in Loop, pos[l] < Len(temp[l]), pc[l] = "apply",
           changed' = changed, temp' = temp, pos' = [pos EXCEPT ![l] = @ + 1],
           pc' = pc, cur' = cur, created' = created,
           \A d \in created : event_loop'[d] = event_loop[d] \/ Adds(NextEntry(l), d)
    PROVE  /\ Entries' /\ Once'
           /\ pos' \in [Loop -> Nat] /\ \A m \in Loop : pos'[m] <= Len(temp'[m])
<1>0. ObjectTypes /\ LoopTypes /\ Entries /\ Once
  BY Zenon DEF ReactorInv, Types
<1> DEFINE k0 == pos[l] + 1
<1>1. /\ \A m \in Loop : pos'[m] = IF m = l THEN k0 ELSE pos[m]
      /\ \A m \in Loop : pos[m] \in Nat /\ Len(temp[m]) \in Nat /\ pos[m] <= Len(temp[m])
  BY <1>0 DEF LoopTypes
<1>2. k0 \in Waiting(l) /\ NextEntry(l) = temp[l][k0]
  BY <1>1 DEF Waiting, NextEntry
<1>3. pos' \in [Loop -> Nat] /\ \A m \in Loop : pos'[m] <= Len(temp'[m])
  BY <1>0, <1>1 DEF LoopTypes
<1>4. \A m \in Loop : \A k \in Waiting(m)' : k \in Waiting(m) /\ (m # l \/ k # k0)
  BY <1>1 DEF Waiting
<1> HIDE DEF k0
<1>5. 0 \notin Loop
  BY DEF Loop
<1>6. \A d \in Handler : Adds(temp[l][k0], d) => event_loop[d] = 0
  BY <1>0, <1>2 DEF Entries, EntryOK
<1>7. \A d \in created : event_loop'[d] = event_loop[d] \/ Adds(temp[l][k0], d)
  BY Zenon, <1>2
<1>8. \A m \in Loop : \A k \in DOMAIN changed'[m] : EntryOK(m, changed[m][k])'
  <2> SUFFICES ASSUME NEW m \in Loop, NEW k \in DOMAIN changed[m]
               PROVE  EntryOK(m, changed[m][k])'
    BY Zenon
  <2>1. EntryOK(m, changed[m][k])
    BY Zenon, <1>0 DEF Entries
  <2>2. \A d \in Handler : Adds(changed[m][k], d) => ~Adds(temp[l][k0], d)
    BY Zenon, <1>0, <1>2 DEF Once, NotInBoth
  <2>3. QED
    BY Zenon, <1>5, <1>6, <1>7, <2>1, <2>2 DEF EntryOK
<1>9. \A m \in Loop : \A k \in Waiting(m)' : EntryOK(m, temp[m][k])'
  <2> SUFFICES ASSUME NEW m \in Loop, NEW k \in Waiting(m)'
               PROVE  EntryOK(m, temp[m][k])'
    BY Zenon
  <2>1. EntryOK(m, temp[m][k])
    BY Zenon, <1>0, <1>4 DEF Entries
  <2>2. \A d \in Handler : Adds(temp[m][k], d) => ~Adds(temp[l][k0], d)
    BY Zenon, <1>0, <1>2, <1>4 DEF Once, OnceInTemp
  <2>3. QED
    BY Zenon, <1>5, <1>6, <1>7, <2>1, <2>2 DEF EntryOK
<1>10. \A m \in Loop : pc'[m] = "handoff" => cur'[m] \in created' /\ event_loop'[cur'[m]] = 0
  BY Zenon, <1>0, <1>2, <1>7 DEF Entries, Once, NotQueuedYet
<1>11. \A m \in Loop : pc'[m] # "apply" => temp'[m] = <<>> /\ pos'[m] = 0
  BY Zenon, <1>0, <1>1 DEF Entries
<1>12. Entries'
  BY Zenon, <1>8, <1>9, <1>10, <1>11 DEF Entries
<1>13. OnceInChanged' /\ OnceInTemp' /\ NotInBoth'
  <2>1. OnceInChanged'
    BY <1>0, <1>4 DEF Once, OnceInChanged
  <2>2. OnceInTemp'
    BY Zenon, <1>0, <1>4 DEF Once, OnceInTemp
  <2>3. NotInBoth'
    BY Zenon, <1>0, <1>4 DEF Once, NotInBoth
  <2>4. QED
    BY Zenon, <2>1, <2>2, <2>3
<1>14. NotQueuedYet'
  BY Zenon, <1>0, <1>4 DEF Once, NotQueuedYet
<1>15. QED
  BY Zenon, <1>3, <1>12, <1>13, <1>14 DEF Once

(* The loop is in temp_queue: no raw pointer, no RemoveConn of its own.    *)
LEMMA PointersWhileApplying ==
    ASSUME ReactorInv, NEW l \in Loop, pc[l] = "apply",
           pc' = pc, fired' = fired, cur' = cur, requested' = requested,
           created' = created, fd' = fd,
           \A m \in Loop \ {l} : event_handlers'[m] = event_handlers[m],
           \A d \in requested : Mapped(l, d)' => Mapped(l, d),
           \A d \in requested : event_loop'[d] # 0
    PROVE  Pointers' /\ Asked'
<1>0. Pointers /\ Asked
  BY Zenon DEF ReactorInv
<1>1. \A m \in Loop \ {l} : \A d : Mapped(m, d)' <=> Mapped(m, d)
  BY Zenon DEF Mapped
<1>2. fired[l] = {}
  BY Zenon, <1>0 DEF Pointers
<1>3. \A m \in Loop : \A c \in fired'[m] : c # Acceptor => Mapped(m, c)' /\ c \notin requested'
  BY Zenon, <1>0, <1>1, <1>2 DEF Pointers
<1>4. \A m \in Loop : pc'[m] = "onError" => Mapped(m, cur[m])'
  BY Zenon, <1>0 DEF Pointers, Mapped
<1>5. \A m \in Loop : \A c \in requested' : Mapped(m, c)' => pc'[m] = "onError" /\ cur'[m] = c
  BY Zenon, <1>0, <1>1 DEF Asked
<1>6. QED
  BY Zenon, <1>0, <1>3, <1>4, <1>5 DEF Pointers, Asked

(* Two owned handlers never have one descriptor: what a loop has under the *)
(* descriptor of a handler that waits in its queue is that handler.        *)
LEMMA QueuedHasItsDescriptor ==
    ASSUME ReactorInv, NEW l \in Loop, NEW c \in created, InQueue(c),
           event_handlers[l][fd[c]] # None
    PROVE  event_handlers[l][fd[c]] = c /\ event_loop[c] = l
<1>0. fd[c] \in Fd /\ Sockets /\ Pollers
  BY Zenon DEF ReactorInv, Sockets
<1> DEFINE d == event_handlers[l][fd[c]]
<1>1. d \in created /\ fd[d] = fd[c] /\ event_loop[d] = l
  BY <1>0 DEF Pollers
<1>2. InPoller(d)
  BY Zenon, <1>0 DEF InPoller
<1> HIDE DEF d
<1>3. Owned(c) /\ Owned(d)
  BY Zenon, <1>2, OwnedParts
<1>4. d = c
  BY Zenon, <1>0, <1>1, <1>3 DEF Sockets
<1>5. QED
  BY Zenon, <1>1, <1>4 DEF d
(* What every entry leaves alone.                                          *)
LEMMA ApplyFrame ==
    ASSUME ReactorInv, NEW l \in Loop, Apply(l)
    PROVE  /\ pc[l] = "apply" /\ pos[l] < Len(temp[l]) /\ pos' = [pos EXCEPT ![l] = @ + 1]
           /\ created' = created /\ fd' = fd /\ idle' = idle /\ held' = held
           /\ pc' = pc /\ fired' = fired /\ cur' = cur /\ changed' = changed /\ temp' = temp
           /\ idx' = idx /\ SameManager /\ SameMain /\ requested' = requested
           /\ NextEntry(l) \in BOOLEAN \X Handler
           /\ \/ /\ Adds(NextEntry(l), NextEntry(l)[2])
                 /\ AddEventHandler(l, NextEntry(l)[2]) /\ terminal' = terminal
              \/ /\ Fails(NextEntry(l), NextEntry(l)[2])
                 /\ OnError(NextEntry(l)[2]) /\ event_loop' = event_loop
           /\ EntryOK(l, NextEntry(l))
           /\ NextEntry(l)[2] \in Queued(temp[l])
<1>0. LoopTypes /\ Entries
  BY Zenon DEF ReactorInv, Types
<1>1. /\ pc[l] = "apply" /\ pos[l] < Len(temp[l]) /\ pos' = [pos EXCEPT ![l] = @ + 1]
      /\ created' = created /\ fd' = fd /\ idle' = idle /\ held' = held
      /\ pc' = pc /\ fired' = fired /\ cur' = cur /\ changed' = changed /\ temp' = temp
      /\ idx' = idx /\ SameManager /\ SameMain /\ requested' = requested
  BY Zenon DEF Apply, SameManager, SameMain, manager, main, history
<1>2. /\ temp[l] \in Seq(BOOLEAN \X Handler) /\ pos[l] \in Nat /\ pos'[l] = pos[l] + 1
      /\ pos[l] + 1 \in 1 .. Len(temp[l])
  BY <1>0, <1>1 DEF LoopTypes
<1>3. NextEntry(l) \in BOOLEAN \X Handler
  BY <1>2 DEF NextEntry
<1>4. PICK b \in BOOLEAN, h \in Handler : NextEntry(l) = <<b, h>>
  BY <1>3
<1>5. \/ NextEntry(l)[1] /\ AddEventHandler(l, NextEntry(l)[2]) /\ terminal' = terminal
      \/ ~NextEntry(l)[1] /\ OnError(NextEntry(l)[2]) /\ event_loop' = event_loop
  BY Zenon, <1>2 DEF Apply, NextEntry
<1>6. \/ /\ Adds(NextEntry(l), NextEntry(l)[2])
         /\ AddEventHandler(l, NextEntry(l)[2]) /\ terminal' = terminal
      \/ /\ Fails(NextEntry(l), NextEntry(l)[2])
         /\ OnError(NextEntry(l)[2]) /\ event_loop' = event_loop
  <2>1. NextEntry(l)[1] = b /\ NextEntry(l)[2] = h
    BY <1>4
  <2>2. CASE b
    BY Zenon, <1>4, <1>5, <2>1, <2>2 DEF Adds
  <2>3. CASE ~b
    BY Zenon, <1>4, <1>5, <2>1, <2>3 DEF Fails
  <2>4. QED
    BY Zenon, <2>2, <2>3
<1>7. EntryOK(l, NextEntry(l))
  BY <1>0, <1>1, <1>2 DEF Entries, Waiting, NextEntry
<1>8. NextEntry(l)[2] \in Queued(temp[l])
  BY Zenon, <1>2 DEF Queued, NextEntry
<1>9. QED
  BY Zenon, <1>1, <1>3, <1>6, <1>7, <1>8

(* Entries are added to the map of this loop, or leave it.                 *)
LEMMA ApplyKeeps ==
    ASSUME ReactorInv, Collect, NEW l \in Loop, Apply(l) PROVE ReactorInv'
<1>0. /\ ObjectTypes /\ ThreadTypes /\ LoopTypes /\ BookTypes
      /\ Sockets /\ Pollers /\ Asked /\ Books /\ Table
  BY Zenon DEF ReactorInv, Types
<1> DEFINE c == NextEntry(l)[2]
<1>1. /\ pc[l] = "apply" /\ pos[l] < Len(temp[l]) /\ pos' = [pos EXCEPT ![l] = @ + 1]
      /\ created' = created /\ fd' = fd /\ idle' = idle /\ held' = held
      /\ pc' = pc /\ fired' = fired /\ cur' = cur /\ changed' = changed /\ temp' = temp
      /\ idx' = idx /\ SameManager /\ SameMain /\ requested' = requested
      /\ c \in Handler /\ EntryOK(l, NextEntry(l)) /\ c \in Queued(temp[l])
  BY Zenon, ApplyFrame
<1> HIDE DEF c
<1>2. BookTypes' /\ Books' /\ Table'
  BY Zenon, <1>0, <1>1, BookTypesStay, BooksStay, TableStays
<1>3. InQueue(c)
  BY Zenon, <1>1 DEF InQueue
<1>4. /\ held' \subseteq created /\ idle' \subseteq Handler /\ created \subseteq Conn
      /\ requested \subseteq created /\ 0 \notin Loop
      /\ \A d \in created : fd[d] \in Fd /\ d # None
  BY <1>0, <1>1, NoneAssumption DEF ObjectTypes, BookTypes, Sockets, Loop
<1>5. ASSUME NEW d \in created, InPoller(d)' => InPoller(d) \/ d = c
      PROVE  Owned(d)' => Owned(d)
  <2>1. InQueue(d)' <=> InQueue(d)
    BY Zenon, <1>1 DEF InQueue
  <2>2. InHandoff(d)' <=> InHandoff(d)
    BY Zenon, <1>1 DEF InHandoff
  <2>3. QED
    BY Zenon, <1>1, <1>3, <1>5, <2>1, <2>2, OwnedParts, InTableStays, InVectorsStay
<1>6. CASE Adds(NextEntry(l), c) /\ AddEventHandler(l, c) /\ terminal' = terminal
  <2>1. c \in created /\ event_loop[c] = 0 /\ c \in Conn /\ fd[c] \in Fd
    BY Zenon, <1>1, <1>4, <1>6 DEF EntryOK
  <2>2. event_handlers[l][fd[c]] = None
    BY <1>3, <1>4, <2>1, QueuedHasItsDescriptor
  <2>3. fd[c] \notin watched[l]
    BY Zenon, <1>0, <2>1, <2>2 DEF Pollers
  <2> DEFINE g == fd[c]
  <2>4. PICK v \in {c, None} :
            /\ event_handlers' =
                   [event_handlers EXCEPT ![l] = [event_handlers[l] EXCEPT ![g] = v]]
            /\ watched' = IF v = c THEN [watched EXCEPT ![l] = watched[l] \cup {g}] ELSE watched
    BY Zenon, <1>4, <1>6, <2>1 DEF AddEventHandler
  <2>5. event_loop' = [event_loop EXCEPT ![c] = l]
    BY Zenon, <1>6 DEF AddEventHandler
  <2>6. g \in Fd /\ c # None
    BY Zenon, <1>4, <2>1
  <2>7. /\ \A d \in created : fd[d] = g <=> fd[d] = fd[c]
        /\ event_handlers[l][g] = None /\ g \notin watched[l] /\ fd[c] = g
    BY Zenon, <2>2, <2>3
  <2> HIDE DEF g
  <2>8. /\ event_handlers' \in [Loop -> [Fd -> Conn \cup {None}]]
        /\ watched' \in [Loop -> SUBSET Fd]
    BY Zenon, <1>0, <2>1, <2>4, <2>6 DEF LoopTypes
  <2>9. \A m \in Loop : \A f \in Fd :
            event_handlers'[m][f] = IF m = l /\ f = g THEN v ELSE event_handlers[m][f]
    BY Zenon, <1>0, <2>4, <2>6 DEF LoopTypes
  <2>10. \A m \in Loop : \A f \in Fd :
            f \in watched'[m] <=> f \in watched[m] \/ (m = l /\ f = g /\ v = c)
    BY Zenon, <1>0, <2>4 DEF LoopTypes
  <2>11. /\ event_loop' \in [Conn -> Loop \cup {0}]
         /\ \A d \in Conn \ created : event_loop'[d] = 0
         /\ \A d \in Conn : event_loop'[d] = IF d = c THEN l ELSE event_loop[d]
    BY Zenon, <1>0, <2>1, <2>5 DEF ObjectTypes
  <2>12. ASSUME NEW m \in Loop, NEW f \in Fd
         PROVE  /\ f \in watched'[m] <=> event_handlers'[m][f] # None
                /\ event_handlers'[m][f] # None =>
                      /\ event_handlers'[m][f] \in created
                      /\ fd[event_handlers'[m][f]] = f
                      /\ event_loop'[event_handlers'[m][f]] = m
    <3>1. CASE m = l /\ f = g
      BY <2>1, <2>4, <2>6, <2>7, <2>9, <2>10, <2>11, <3>1
    <3>2. CASE ~(m = l /\ f = g)
      <4>1. /\ event_handlers'[m][f] = event_handlers[m][f]
            /\ f \in watched'[m] <=> f \in watched[m]
        BY Zenon, <2>9, <2>10, <3>2
      <4>2. event_handlers[m][f] # None =>
                /\ event_handlers[m][f] \in created /\ fd[event_handlers[m][f]] = f
                /\ event_loop[event_handlers[m][f]] = m /\ event_handlers[m][f] # c
        BY SMTT(20), <1>0, <1>4, <2>1 DEF Pollers
      <4>3. f \in watched[m] <=> event_handlers[m][f] # None
        BY Zenon, <1>0 DEF Pollers
      <4>4. QED
        BY Zenon, <1>4, <2>11, <4>1, <4>2, <4>3
    <3>3. QED
      BY Zenon, <3>1, <3>2
  <2>13. Pollers'
    BY ZenonT(40), <1>1, <2>12 DEF Pollers
  <2>14. \A d \in created : event_loop'[d] = event_loop[d] \/ Adds(NextEntry(l), d)
    BY Zenon, <1>4, <1>6, <2>11
  <2>15. /\ Entries' /\ Once'
         /\ pos' \in [Loop -> Nat] /\ \A m \in Loop : pos'[m] <= Len(temp'[m])
    BY Zenon, <1>1, <2>14, AdvanceStays
  <2>16. LoopTypes'
    BY Zenon, <1>0, <1>1, <2>8, <2>15 DEF LoopTypes
  <2>17. ThreadTypes'
    BY Zenon, <1>0, <1>1, <1>6 DEF ThreadTypes
  <2>18. c \notin requested /\ \A d \in requested : event_loop[d] # 0
    BY Zenon, <1>0, <2>1 DEF Asked
  <2>19. \A m \in Loop \ {l} : event_handlers'[m] = event_handlers[m]
    BY Zenon, <1>0, <2>4 DEF LoopTypes
  <2>20. \A d \in requested : Mapped(l, d)' => Mapped(l, d)
    BY <1>1, <1>4, <2>4, <2>9, <2>18 DEF Mapped
  <2>21. \A d \in requested : event_loop'[d] # 0
    BY Zenon, <1>4, <2>11, <2>18
  <2>22. Pointers' /\ Asked'
    BY Zenon, <1>1, <2>19, <2>20, <2>21, PointersWhileApplying
  <2>23. \A d \in created : InPoller(d)' => InPoller(d) \/ d = c
    BY <1>4, <2>4, <2>9 DEF InPoller
  <2>24. \A d \in created : Owned(d)' => Owned(d)
    BY Zenon, <1>5, <2>23
  <2>25. QED
    BY Zenon, <1>1, <1>2, <1>4, <2>11, <2>13, <2>15, <2>16, <2>17, <2>22, <2>24, StepKeeps
<1>7. CASE Fails(NextEntry(l), c) /\ OnError(c) /\ event_loop' = event_loop
  <2>1. c = Acceptor \/ (c \in created /\ event_loop[c] = l)
    BY Zenon, <1>1, <1>7 DEF EntryOK
  <2>2. /\ Entries' /\ Once'
        /\ pos' \in [Loop -> Nat] /\ \A m \in Loop : pos'[m] <= Len(temp'[m])
    BY Zenon, <1>1, <1>7, AdvanceStays
  <2>3. SameObjects
    BY Zenon, <1>1, <1>7 DEF SameObjects
  <2>4. /\ event_loop' \in [Conn -> Loop \cup {0}] /\ \A d \in Conn \ created : event_loop'[d] = 0
        /\ \A d \in requested : event_loop'[d] # 0
    BY Zenon, <1>0, <1>7 DEF ObjectTypes, Asked
  <2>5. CASE c = Acceptor
    <3>1. SamePollers /\ terminal' = [m \in Loop |-> TRUE]
      BY Zenon, <1>7, <2>5, NoneAssumption DEF OnError, SamePollers, poller
    <3>2. LoopTypes' /\ ThreadTypes'
      BY Zenon, <1>0, <1>1, <2>2, <3>1 DEF LoopTypes, ThreadTypes, SamePollers
    <3>3. Pollers'
      BY Zenon, <1>0, <2>3, <3>1, PollersStay
    <3>4. Pointers' /\ Asked'
      <4>1. /\ \A m \in Loop \ {l} : event_handlers'[m] = event_handlers[m]
            /\ \A d \in requested : Mapped(l, d)' => Mapped(l, d)
        BY Zenon, <1>1, <3>1 DEF SamePollers, Mapped
      <4>2. QED
        BY Zenon, <1>1, <2>4, <4>1, PointersWhileApplying
    <3>5. \A d \in created : Owned(d)' => Owned(d)
      BY Zenon, <1>5, <3>1, InPollerStays
    <3>6. QED
      BY Zenon, <1>1, <1>2, <1>4, <2>2, <2>4, <3>2, <3>3, <3>4, <3>5, StepKeeps
  <2>6. CASE c # Acceptor
    <3>1. c \in created /\ event_loop[c] = l /\ RemoveEventHandler(c) /\ terminal' = terminal
      BY Zenon, <1>7, <2>1, <2>6 DEF OnError
    <3>2. Unmapped(l, c)
      BY Zenon, <2>3, <3>1, RemoveEventHandlerUnmaps
    <3>3. LoopTypes' /\ ThreadTypes' /\ Pollers'
      BY Zenon, <1>0, <1>1, <2>2, <3>1, <3>2 DEF LoopTypes, ThreadTypes, Unmapped
    <3>4. \A m \in Loop \ {l} : event_handlers'[m] = event_handlers[m]
      BY Zenon, <1>0, <3>1 DEF RemoveEventHandler, LoopTypes
    <3>5. \A d \in requested : Mapped(l, d)' => Mapped(l, d)
      BY Zenon, <1>4, <3>2 DEF Unmapped
    <3>6. Pointers' /\ Asked'
      BY Zenon, <1>1, <2>4, <3>4, <3>5, PointersWhileApplying
    <3>7. \A d \in created : Owned(d)' => Owned(d)
      BY Zenon, <1>5, <3>2 DEF Unmapped
    <3>8. QED
      BY Zenon, <1>1, <1>2, <1>4, <2>2, <2>4, <3>3, <3>6, <3>7, StepKeeps
  <2>7. QED
    BY Zenon, <2>5, <2>6
<1>8. QED
  BY Zenon, <1>6, <1>7, ApplyFrame DEF c
-----------------------------------------------------------------------------
(* What Append and \o do to the range of a vector and to its being without *)
(* duplicates.                                                             *)
LEMMA AppendRange ==
    ASSUME NEW S, NEW s \in Seq(S), NEW x
    PROVE  /\ Range(Append(s, x)) = Range(s) \cup {x}
           /\ IsInjective(s) /\ x \notin Range(s) => IsInjective(Append(s, x))
<1>1. /\ DOMAIN s = 1 .. Len(s) /\ DOMAIN Append(s, x) = 1 .. Len(s) + 1 /\ Len(s) \in Nat
      /\ \A k \in 1 .. Len(s) : Append(s, x)[k] = s[k]
      /\ Append(s, x)[Len(s) + 1] = x
  OBVIOUS
<1> DEFINE t == Append(s, x)
<1>2. DOMAIN t = DOMAIN s \cup {Len(s) + 1} /\ Len(s) + 1 \notin DOMAIN s
  BY <1>1
<1>3. \A k \in DOMAIN s : t[k] = s[k]
  BY Zenon, <1>1
<1>4. t[Len(s) + 1] = x
  BY Zenon, <1>1
<1> HIDE DEF t
<1>5. Range(t) = Range(s) \cup {x}
  BY <1>2, <1>3, <1>4 DEF Range
<1>6. IsInjective(s) /\ x \notin Range(s) => IsInjective(t)
  BY Zenon, <1>2, <1>3, <1>4 DEF IsInjective, Range
<1>7. QED
  BY Zenon, <1>5, <1>6 DEF t

(* The same for two vectors put together.                                  *)
LEMMA ConcatRange ==
    ASSUME NEW S, NEW s \in Seq(S), NEW t \in Seq(S)
    PROVE  /\ Range(s \o t) = Range(s) \cup Range(t) /\ s \o t \in Seq(S)
           /\ IsInjective(s) /\ IsInjective(t) /\ (\A x \in Range(t) : x \notin Range(s))
                  => IsInjective(s \o t)
<1> DEFINE u == s \o t
           n == Len(s)
<1>1. /\ n \in Nat /\ Len(t) \in Nat /\ u \in Seq(S) /\ DOMAIN u = 1 .. n + Len(t)
      /\ DOMAIN s = 1 .. n /\ DOMAIN t = 1 .. Len(t)
      /\ \A k \in 1 .. n + Len(t) : u[k] = IF k <= n THEN s[k] ELSE t[k - n]
  OBVIOUS
<1> HIDE DEF u, n
<1>2. \A k \in DOMAIN u : \/ k \in DOMAIN s /\ u[k] = s[k]
                          \/ k - n \in DOMAIN t /\ k > n /\ u[k] = t[k - n]
  BY SMTT(20), <1>1
<1>3. /\ \A k \in DOMAIN s : k \in DOMAIN u /\ u[k] = s[k]
      /\ \A k \in DOMAIN t : n + k \in DOMAIN u /\ u[n + k] = t[k]
  BY SMTT(20), <1>1
<1>4. Range(u) \subseteq Range(s) \cup Range(t)
  BY Zenon, <1>2 DEF Range
<1>5. Range(s) \subseteq Range(u) /\ Range(t) \subseteq Range(u)
  BY Zenon, <1>3 DEF Range
<1>6. ASSUME IsInjective(s), IsInjective(t), \A x \in Range(t) : x \notin Range(s),
             NEW j \in DOMAIN u, NEW k \in DOMAIN u, u[j] = u[k]
      PROVE  j = k
  <2>1. CASE j \in DOMAIN s /\ u[j] = s[j] /\ k \in DOMAIN s /\ u[k] = s[k]
    BY Zenon, <1>6, <2>1 DEF IsInjective
  <2>2. CASE j \in DOMAIN s /\ u[j] = s[j] /\ k - n \in DOMAIN t /\ u[k] = t[k - n]
    BY Zenon, <1>6, <2>2 DEF Range
  <2>3. CASE k \in DOMAIN s /\ u[k] = s[k] /\ j - n \in DOMAIN t /\ u[j] = t[j - n]
    BY Zenon, <1>6, <2>3 DEF Range
  <2>4. CASE j - n \in DOMAIN t /\ u[j] = t[j - n] /\ k - n \in DOMAIN t /\ u[k] = t[k - n]
    <3>1. j - n = k - n
      BY Zenon, <1>6, <2>4 DEF IsInjective
    <3>2. QED
      BY <1>1, <3>1
  <2>5. QED
    BY Zenon, <1>2, <2>1, <2>2, <2>3, <2>4
<1>7. IsInjective(s) /\ IsInjective(t) /\ (\A x \in Range(t) : x \notin Range(s)) => IsInjective(u)
  BY Zenon, <1>6 DEF IsInjective
<1>8. QED
  BY Zenon, <1>1, <1>4, <1>5, <1>7 DEF u

(* A cleared vector.                                                       *)
LEMMA EmptyRange == Range(<<>>) = {} /\ IsInjective(<<>>)
  BY DEF Range, IsInjective

(* What a vector holds has the type of its elements.                       *)
LEMMA RangeOfSeq ==
    ASSUME NEW S, NEW s \in Seq(S) PROVE Range(s) \subseteq S
  BY DEF Range

(* A vector of handlers is one of more handlers.                           *)
LEMMA SeqGrows ==
    ASSUME NEW S, NEW T, S \subseteq T, NEW s \in Seq(S) PROVE s \in Seq(T)
  OBVIOUS
-----------------------------------------------------------------------------
(* The main thread: nothing of the loops changes.                          *)
SameLoops ==
    /\ pc' = pc /\ fired' = fired /\ cur' = cur /\ terminal' = terminal /\ idx' = idx
    /\ SamePollers /\ SameQueues

(* A step of the main thread or the application keeps the loops' part.     *)
LEMMA MainStepKeeps ==
    ASSUME ReactorInv, Collect, SameObjects, SameLoops, idle' = idle, held' \subseteq created,
           requested' = requested, BookTypes', Books', Table',
           \A c \in created :
               c \in held' \/ InTable(c)' \/ InVectors(c)' => c \in held \/ InTable(c) \/ InVectors(c)
    PROVE  ReactorInv'
<1>0. /\ ObjectTypes /\ ThreadTypes /\ LoopTypes /\ BookTypes /\ Pollers
      /\ Entries /\ Once /\ Pointers /\ Asked
  BY Zenon DEF ReactorInv, Types
<1>1. /\ pc' = pc /\ fired' = fired /\ cur' = cur /\ terminal' = terminal /\ idx' = idx
      /\ SamePollers /\ SameQueues
      /\ created' = created /\ fd' = fd /\ event_loop' = event_loop
  BY Zenon DEF SameLoops, SameObjects
<1>2. ThreadTypes' /\ LoopTypes' /\ Pollers'
  BY Zenon, <1>0, <1>1, LoopTypesStay, PollersStay DEF ThreadTypes
<1>3. Entries' /\ Once'
  BY Zenon, <1>0, <1>1, EntriesStay
<1>4. \A m \in Loop : \A c \in Handler : Mapped(m, c)' <=> Mapped(m, c)
  BY Zenon, <1>1 DEF Mapped, SamePollers
<1>5. Pointers' /\ Asked'
  BY Zenon, <1>0, <1>1, <1>4, PointersShrink DEF ThreadTypes, ObjectTypes, BookTypes
<1>6. \A c \in created : Owned(c)' => Owned(c)
  <2> SUFFICES ASSUME NEW c \in created PROVE Owned(c)' => Owned(c)
    BY Zenon
  <2>1. InHandoff(c)' <=> InHandoff(c)
    BY Zenon, <1>1 DEF InHandoff
  <2>2. QED
    BY Zenon, <1>1, <2>1, OwnedParts, InPollerStays, InQueueStays
<1>7. /\ idle' \subseteq Handler /\ event_loop' \in [Conn -> Loop \cup {0}]
      /\ \A d \in Conn \ created : event_loop'[d] = 0
  BY Zenon, <1>0, <1>1 DEF ObjectTypes
<1>8. QED
  BY Zenon, <1>1, <1>2, <1>3, <1>5, <1>6, <1>7, StepKeeps

(* The application drops a reference.                                      *)
LEMMA ReleaseKeeps ==
    ASSUME ReactorInv, Collect, NEW c \in Conn, Release(c) PROVE ReactorInv'
<1>0. ObjectTypes /\ BookTypes /\ Books /\ Table
  BY Zenon DEF ReactorInv, Types
<1>1. /\ SameObjects /\ SameLoops /\ SameManager /\ SameMain /\ idle' = idle
      /\ held' = held \ {c} /\ requested' = requested /\ created' = created /\ fd' = fd
  BY Zenon DEF Release, SameObjects, SameLoops, SamePollers, SameQueues, SameManager, SameMain,
         loops, poller, queues, manager, main, history
<1>2. BookTypes' /\ Books' /\ Table'
  BY Zenon, <1>0, <1>1, BookTypesStay, BooksStay, TableStays
<1>3. \A d \in created :
          d \in held' \/ InTable(d)' \/ InVectors(d)' => d \in held \/ InTable(d) \/ InVectors(d)
  BY Zenon, <1>1, InTableStays, InVectorsStay
<1>4. held' \subseteq created
  BY Zenon, <1>0, <1>1 DEF ObjectTypes
<1>5. QED
  BY Zenon, <1>1, <1>2, <1>3, <1>4, MainStepKeeps

(* The callbacks pass the connections that Update took to the application. *)
LEMMA CallbacksKeeps ==
    ASSUME ReactorInv, Collect, Callbacks PROVE ReactorInv'
<1>0. ObjectTypes /\ BookTypes /\ Heard /\ HeardOnce /\ EndedOnce /\ InOrder /\ Table
  BY Zenon DEF ReactorInv, Types, Books
<1>1. PICK kept \in SUBSET Range(add_set) : held' = held \cup kept
  BY Zenon DEF Callbacks
<1>2. /\ SameObjects /\ SameLoops /\ SameManager /\ idle' = idle
      /\ requested' = requested /\ created' = created /\ fd' = fd
      /\ add_handler' = add_handler /\ remove_handler' = remove_handler
      /\ handlers' = handlers /\ late' = late
  BY Zenon DEF Callbacks, SameObjects, SameLoops, SamePollers, SameQueues, SameManager,
         loops, poller, queues, manager, history
<1>3. /\ mpc' = "run" /\ add_set' = <<>> /\ remove_set' = <<>>
      /\ announced' = announced \o add_set /\ dismissed' = dismissed \o remove_set
  BY Zenon DEF Callbacks
<1>4. /\ add_set \in Seq(created) /\ remove_set \in Seq(created)
      /\ announced \in Seq(created) /\ dismissed \in Seq(created)
  BY Zenon, <1>0 DEF BookTypes
<1>5. /\ announced' \in Seq(created) /\ Range(announced') = Range(announced) \cup Range(add_set)
      /\ dismissed' \in Seq(created) /\ Range(dismissed') = Range(dismissed) \cup Range(remove_set)
  BY <1>3, <1>4, ConcatRange
<1>6. IsInjective(announced') /\ IsInjective(dismissed')
  <2>1. IsInjective(announced')
    BY Zenon, <1>0, <1>3, <1>4, ConcatRange DEF HeardOnce
  <2>2. IsInjective(dismissed')
    BY Zenon, <1>0, <1>3, <1>4, ConcatRange DEF EndedOnce
  <2>3. QED
    BY Zenon, <2>1, <2>2
<1>7. Range(add_set') = {} /\ Range(remove_set') = {} /\ IsInjective(add_set') /\ IsInjective(remove_set')
  BY Zenon, <1>3, EmptyRange
<1>8. BookTypes'
  BY <1>0, <1>2, <1>3, <1>5 DEF BookTypes
<1>9. Heard'
  BY Zenon, <1>0, <1>2, <1>5, <1>7 DEF Heard
<1>10. HeardOnce'
  BY Zenon, <1>0, <1>2, <1>5, <1>6, <1>7 DEF HeardOnce
<1>11. EndedOnce'
  BY Zenon, <1>0, <1>2, <1>5, <1>6, <1>7 DEF EndedOnce
<1>12. InOrder'
  BY Zenon, <1>0, <1>3, <1>5, <1>7 DEF InOrder
<1>13. Table'
  BY Zenon, <1>0, <1>2, TableStays
<1>14. held' \subseteq created
  BY Zenon, <1>0, <1>1, <1>4, RangeOfSeq DEF ObjectTypes
<1>15. \A d \in created :
          d \in held' \/ InTable(d)' \/ InVectors(d)' => d \in held \/ InTable(d) \/ InVectors(d)
  BY Zenon, <1>1, <1>2, <1>7, InTableStays DEF InVectors
<1>16. QED
  BY Zenon, <1>2, <1>8, <1>9, <1>10, <1>11, <1>12, <1>13, <1>14, <1>15, MainStepKeeps DEF Books

(* A vector keeps its handlers alive, so no two of them have a descriptor  *)
(* in common, nor one of them and a handler of the table.                  *)
LEMMA VectorDescriptors ==
    ASSUME ReactorInv
    PROVE  /\ \A c \in Range(add_handler) : c \in created /\ fd[c] \in Fd
           /\ \A c, d \in Range(add_handler) : fd[c] = fd[d] => c = d
           /\ \A c \in Range(add_handler) : \A f \in Fd : handlers[f] # None /\ fd[c] = f => handlers[f] = c
<1>0. BookTypes /\ Sockets /\ Table
  BY Zenon DEF ReactorInv, Types
<1>1. \A c \in Range(add_handler) : c \in created /\ fd[c] \in Fd /\ Owned(c)
  <2>1. \A c \in Range(add_handler) : c \in created
    BY Zenon, <1>0, RangeOfSeq DEF BookTypes
  <2>2. \A c \in Range(add_handler) : Owned(c)
    BY Zenon, OwnedParts DEF InVectors
  <2>3. QED
    BY Zenon, <1>0, <2>1, <2>2 DEF Sockets
<1>2. \A f \in Fd : handlers[f] # None =>
          handlers[f] \in created /\ fd[handlers[f]] = f /\ Owned(handlers[f])
  <2> SUFFICES ASSUME NEW f \in Fd, handlers[f] # None
               PROVE  handlers[f] \in created /\ fd[handlers[f]] = f /\ Owned(handlers[f])
    BY Zenon
  <2>1. InTable(handlers[f])
    BY Zenon DEF InTable
  <2>2. Owned(handlers[f])
    BY Zenon, <2>1, OwnedParts
  <2>3. QED
    BY Zenon, <1>0, <2>2 DEF Table
<1>3. QED
  BY Zenon, <1>0, <1>1, <1>2 DEF Sockets

(* Update empties both queues of ConnManager into the main thread's.       *)
LEMMA UpdateKeeps ==
    ASSUME ReactorInv, Collect, Update PROVE ReactorInv'
<1>0. ObjectTypes /\ BookTypes /\ Heard /\ HeardOnce /\ EndedOnce /\ InOrder /\ Table
  BY Zenon DEF ReactorInv, Types, Books
<1>1. /\ SameObjects /\ SameLoops /\ idle' = idle /\ held' = held
      /\ requested' = requested /\ late' = late /\ created' = created /\ fd' = fd
      /\ announced' = announced /\ dismissed' = dismissed
  BY Zenon DEF Update, SameObjects, SameLoops, SamePollers, SameQueues,
         objects, loops, poller, queues, history
<1>2. /\ mpc = "run" /\ mpc' = "callbacks" /\ add_handler' = <<>> /\ remove_handler' = <<>>
      /\ add_set' = add_handler /\ remove_set' = remove_handler
      /\ handlers' = AddHandler(handlers, Range(add_handler))
  BY Zenon DEF Update
<1>3. /\ add_set = <<>> /\ remove_set = <<>> /\ Range(add_set) = {} /\ Range(remove_set) = {}
  BY Zenon, <1>0, <1>2, EmptyRange DEF InOrder
<1>4. /\ Range(add_handler') = {} /\ Range(remove_handler') = {}
      /\ IsInjective(add_handler') /\ IsInjective(remove_handler')
  BY Zenon, <1>2, EmptyRange
<1> DEFINE A == Range(add_handler)
<1>5. /\ \A c \in A : c \in created /\ fd[c] \in Fd
      /\ \A c, d \in A : fd[c] = fd[d] => c = d
      /\ \A c \in A : \A f \in Fd : handlers[f] # None /\ fd[c] = f => handlers[f] = c
  BY Zenon, VectorDescriptors
<1>6. handlers' = [f \in Fd |-> IF \E c \in A : fd[c] = f THEN CHOOSE c \in A : fd[c] = f
                                                        ELSE handlers[f]]
  BY Zenon, <1>2 DEF AddHandler
<1> HIDE DEF A
<1>7. \A f \in Fd : \/ handlers'[f] \in A /\ fd[handlers'[f]] = f
                    \/ handlers'[f] = handlers[f] /\ \A c \in A : fd[c] # f
  BY Zenon, <1>6
<1>8. \A c \in A : handlers'[fd[c]] = c
  BY Zenon, <1>5, <1>7
<1>9. handlers' \in [Fd -> Conn \cup {None}]
  <2>1. \A f \in Fd : handlers'[f] \in Conn \cup {None}
    BY Zenon, <1>0, <1>5, <1>7 DEF BookTypes, ObjectTypes
  <2>2. QED
    BY Zenon, <1>6, <2>1
<1>10. BookTypes'
  BY <1>0, <1>1, <1>2, <1>9 DEF BookTypes
<1>11. Heard'
  BY Zenon, <1>0, <1>1, <1>2, <1>3, <1>4 DEF Heard
<1>12. HeardOnce' /\ EndedOnce'
  BY Zenon, <1>0, <1>1, <1>2, <1>3, <1>4 DEF HeardOnce, EndedOnce
<1>13. InOrder'
  <2>1. \A c \in Range(remove_handler) : c \in A \/ c \in Range(announced)
    BY Zenon, <1>0, <1>3 DEF Heard, BookTypes, A
  <2>2. QED
    BY Zenon, <1>0, <1>1, <1>2, <2>1 DEF InOrder, A
<1>14. \A c \in A : c \in requested => c \in late
  BY Zenon, <1>0 DEF Table, A
<1>15. \A f \in Fd : handlers'[f] # None => handlers'[f] \in created /\ fd[handlers'[f]] = f
  BY Zenon, <1>0, <1>5, <1>7 DEF Table
<1>16. \A f \in Fd : handlers'[f] \in requested => handlers'[f] \in late
  BY Zenon, <1>0, <1>7, <1>14 DEF Table
<1>17. \A c \in created : c \notin requested \/ c \in late => handlers'[fd[c]] = c
  <2> SUFFICES ASSUME NEW c \in created, c \notin requested \/ c \in late, c \notin A
               PROVE  handlers'[fd[c]] = c
    BY Zenon, <1>8
  <2>1. handlers[fd[c]] = c
    BY Zenon, <1>0 DEF Table, A
  <2>2. fd[c] \in Fd /\ c # None
    BY Zenon, <1>0, NoneAssumption DEF ReactorInv, Sockets, ObjectTypes
  <2>3. \A d \in A : fd[d] # fd[c]
    BY <1>5, <2>1, <2>2
  <2>4. QED
    BY Zenon, <1>7, <2>1, <2>2, <2>3
<1>18. Table'
  BY Zenon, <1>1, <1>4, <1>15, <1>16, <1>17 DEF Table
<1>19. ASSUME NEW d \in created, d \in held' \/ InTable(d)' \/ InVectors(d)'
       PROVE  d \in held \/ InTable(d) \/ InVectors(d)
  <2>1. InTable(d)' => InTable(d) \/ d \in A
    BY Zenon, <1>7 DEF InTable
  <2>2. InVectors(d)' => InVectors(d)
    BY Zenon, <1>2, <1>4 DEF InVectors
  <2>3. d \in A => InVectors(d)
    BY Zenon DEF InVectors, A
  <2>4. QED
    BY Zenon, <1>1, <1>19, <2>1, <2>2, <2>3
<1>20. held' \subseteq created
  BY Zenon, <1>0, <1>1 DEF ObjectTypes
<1>21. QED
  BY Zenon, <1>1, <1>10, <1>11, <1>12, <1>13, <1>18, <1>19, <1>20, MainStepKeeps DEF Books
-----------------------------------------------------------------------------
(* RemoveConn: the entry of the table goes, the request is queued.         *)
LEMMA WriteErrorBooks ==
    ASSUME ReactorInv, NEW l \in Loop, NEW c, Mapped(l, c), c \notin requested,
           RemoveConn(c), SameMain, created' = created, fd' = fd,
           requested' = requested \cup {c},
           late' = IF c \in Range(add_handler) THEN late \cup {c} ELSE late
    PROVE  /\ BookTypes' /\ Books' /\ Table'
           /\ \A d \in created : InTable(d)' \/ InVectors(d)' => InTable(d) \/ InVectors(d) \/ d = c
<1>0. /\ ObjectTypes /\ BookTypes /\ Sockets /\ Heard /\ HeardOnce /\ EndedOnce /\ InOrder /\ Table
  BY Zenon DEF ReactorInv, Types, Books
<1>1. /\ mpc' = mpc /\ add_set' = add_set /\ remove_set' = remove_set
      /\ announced' = announced /\ dismissed' = dismissed /\ add_handler' = add_handler
      /\ remove_handler' = Append(remove_handler, c)
      /\ handlers' = [handlers EXCEPT ![fd[c]] = None]
  BY Zenon DEF SameMain, RemoveConn
<1>2. c \in created /\ c \in Conn /\ fd[c] \in Fd /\ event_loop[c] = l /\ c # Acceptor
  BY Zenon, MappedHere
<1>3. /\ handlers' \in [Fd -> Conn \cup {None}]
      /\ \A f \in Fd : handlers'[f] = IF f = fd[c] THEN None ELSE handlers[f]
  BY Zenon, <1>0, <1>1, <1>2 DEF BookTypes
<1>4. remove_handler \in Seq(created) /\ remove_handler' \in Seq(created)
  BY SMTT(20), <1>0, <1>1, <1>2 DEF BookTypes
<1>5. /\ Range(remove_handler') = Range(remove_handler) \cup {c}
      /\ c \notin Range(remove_handler) /\ c \notin Range(remove_set) /\ c \notin Range(dismissed)
      /\ IsInjective(remove_handler')
  <2>1. c \notin Range(remove_handler) /\ c \notin Range(remove_set) /\ c \notin Range(dismissed)
    BY Zenon, <1>0 DEF Heard
  <2>2. IsInjective(remove_handler)
    BY Zenon, <1>0 DEF EndedOnce
  <2>3. QED
    BY Zenon, <1>1, <1>4, <2>1, <2>2, AppendRange
<1>6. late \subseteq requested /\ c \notin late /\ late' \subseteq requested' /\ late \subseteq late'
      /\ (c \in late' => c \in Range(add_handler)) /\ (c \in Range(add_handler) => c \in late')
  BY Zenon, <1>0 DEF BookTypes
<1>7. BookTypes'
  BY Zenon, <1>0, <1>1, <1>2, <1>3, <1>4, <1>6 DEF BookTypes
<1>8. Heard'
  BY Zenon, <1>0, <1>1, <1>5 DEF Heard
<1>9. HeardOnce' /\ EndedOnce' /\ InOrder'
  BY Zenon, <1>0, <1>1, <1>5 DEF HeardOnce, EndedOnce, InOrder
<1>10. \A f \in Fd : handlers'[f] # None => handlers'[f] \in created /\ fd[handlers'[f]] = f
  BY Zenon, <1>0, <1>3 DEF Table
<1>11. \A f \in Fd : handlers'[f] \in requested' => handlers'[f] \in late'
  BY SMTT(20), <1>0, <1>2, <1>3, <1>6, <1>10, NoneAssumption DEF Table, BookTypes, ObjectTypes
<1>12. \A d \in Range(add_handler') : d \in requested' => d \in late'
  BY Zenon, <1>0, <1>1, <1>6 DEF Table
<1>13. ASSUME NEW d \in created, d \notin requested' \/ d \in late'
       PROVE  d \in Range(add_handler) \/ handlers'[fd[d]] = d
  <2>1. CASE d = c
    BY Zenon, <1>6, <1>13, <2>1
  <2>2. CASE d # c
    <3>1. d \in Range(add_handler) \/ handlers[fd[d]] = d
      BY Zenon, <1>0, <1>13, <2>2 DEF Table
    <3>2. fd[d] \in Fd
      BY Zenon, <1>0 DEF Sockets
    <3>3. handlers[fd[d]] = d => fd[d] # fd[c]
      <4>1. handlers[fd[d]] = d => Owned(d)
        BY Zenon, <3>2, OwnedParts DEF InTable
      <4>2. Owned(c)
        BY Zenon, <1>2, OwnedParts DEF InPoller, Mapped
      <4>3. QED
        BY Zenon, <1>0, <1>2, <2>2, <4>1, <4>2 DEF Sockets
    <3>4. QED
      BY Zenon, <1>3, <3>1, <3>2, <3>3
  <2>3. QED
    BY Zenon, <2>1, <2>2
<1>14. Table'
  BY Zenon, <1>1, <1>10, <1>11, <1>12, <1>13 DEF Table
<1>15. \A d \in created : InTable(d)' \/ InVectors(d)' => InTable(d) \/ InVectors(d) \/ d = c
  <2>1. \A d \in created : InTable(d)' => InTable(d)
    BY Zenon, <1>0, <1>3, NoneAssumption DEF InTable, ObjectTypes
  <2>2. \A d \in created : InVectors(d)' => InVectors(d) \/ d = c
    BY Zenon, <1>1, <1>5 DEF InVectors
  <2>3. QED
    BY Zenon, <2>1, <2>2
<1>16. QED
  BY Zenon, <1>7, <1>8, <1>9, <1>14, <1>15 DEF Books

(* A failed write marks the handler and leaves it to OnError.              *)
LEMMA WriteErrorKeeps ==
    ASSUME ReactorInv, Collect, NEW l \in Loop, WriteError(l) PROVE ReactorInv'
<1>0. /\ ObjectTypes /\ ThreadTypes /\ LoopTypes /\ BookTypes
      /\ Pollers /\ Entries /\ Once /\ Pointers /\ Asked
  BY Zenon DEF ReactorInv, Types
<1>1. PICK c \in fired[l] \ {Acceptor} :
          /\ Served(l, c) /\ Touch(c) /\ RemoveConn(c)
          /\ cur' = [cur EXCEPT ![l] = c]
          /\ requested' = requested \cup {c}
          /\ late' = IF c \in Range(add_handler) THEN late \cup {c} ELSE late
  BY Zenon DEF WriteError
<1>2. Mapped(l, c) /\ c \notin requested
  BY Zenon, <1>0 DEF Pointers
<1>3. c \in created /\ c \in Conn /\ fd[c] \in Fd /\ event_loop[c] = l /\ c # Acceptor
  BY Zenon, <1>2, MappedHere
<1>4. /\ held' = held /\ idx' = idx /\ terminal' = terminal /\ pc[l] = "dispatch"
      /\ pc' = [pc EXCEPT ![l] = "onError"]
      /\ SameObjects /\ SamePollers /\ SameQueues /\ SameMain
      /\ created' = created /\ fd' = fd /\ event_loop' = event_loop
  BY Zenon DEF WriteError, GoTo, SameObjects, SamePollers, SameQueues, SameMain,
         poller, queues, main
<1>5. /\ BookTypes' /\ Books' /\ Table'
      /\ \A d \in created : InTable(d)' \/ InVectors(d)' => InTable(d) \/ InVectors(d) \/ d = c
  BY Zenon, <1>1, <1>2, <1>4, WriteErrorBooks
<1>6. /\ \A m \in Loop : pc'[m] = IF m = l THEN "onError" ELSE pc[m]
      /\ \A m \in Loop : cur'[m] = IF m = l THEN c ELSE cur[m]
      /\ \A m \in Loop : fired'[m] = IF m = l THEN fired[l] \ {c} ELSE fired[m]
  BY Zenon, <1>0, <1>1, <1>4 DEF ThreadTypes, Served
<1>7. LoopTypes' /\ Pollers'
  BY Zenon, <1>0, <1>4, LoopTypesStay, PollersStay
<1>8. Entries' /\ Once'
  <2>1. /\ \A m \in Loop : pc'[m] = "handoff" <=> pc[m] = "handoff"
        /\ \A m \in Loop : pc[m] = "handoff" => cur'[m] = cur[m]
        /\ \A m \in Loop : pc'[m] # "apply" => pc[m] # "apply"
    BY SMTT(20), <1>4, <1>6
  <2>2. QED
    BY Zenon, <1>0, <1>4, <2>1, EntriesStay
<1>9. ThreadTypes'
  BY Zenon, <1>0, <1>1, <1>3, <1>4 DEF ThreadTypes, PcValues, Served
<1>10. \A m \in Loop : \A d : Mapped(m, d)' <=> Mapped(m, d)
  BY Zenon, <1>4 DEF Mapped, SamePollers
<1>11. \A m \in Loop : Mapped(m, c) => m = l
  BY Zenon, <1>3, MappedHere
<1>12. \A m \in Loop : \A d \in fired'[m] : d # Acceptor => Mapped(m, d)' /\ d \notin requested'
  <2> SUFFICES ASSUME NEW m \in Loop, NEW d \in fired'[m], d # Acceptor
               PROVE  Mapped(m, d)' /\ d \notin requested'
    BY Zenon
  <2>1. Mapped(m, d) /\ d \notin requested /\ (m = l => d # c)
    BY Zenon, <1>0, <1>6 DEF Pointers
  <2>2. d # c
    BY Zenon, <1>11, <2>1
  <2>3. QED
    BY Zenon, <1>1, <1>10, <2>1, <2>2
<1>13. \A m \in Loop : pc'[m] \in {"poll", "swap", "apply", "exited"} => fired'[m] = {}
  BY Zenon, <1>0, <1>6 DEF Pointers
<1>14. ASSUME NEW m \in Loop, pc'[m] = "onError" PROVE Mapped(m, cur[m])'
  <2>1. CASE m = l
    BY Zenon, <1>2, <1>4, <1>6, <2>1 DEF Mapped, SamePollers
  <2>2. CASE m # l
    <3>1. pc[m] = "onError" /\ cur'[m] = cur[m]
      BY Zenon, <1>6, <1>14, <2>2
    <3>2. Mapped(m, cur[m])
      BY Zenon, <1>0, <3>1 DEF Pointers
    <3>3. QED
      BY Zenon, <1>4, <3>1, <3>2 DEF Mapped, SamePollers
  <2>3. QED
    BY Zenon, <2>1, <2>2
<1>15. Pointers'
  BY Zenon, <1>12, <1>13, <1>14 DEF Pointers
<1>16. \A m \in Loop : pc'[m] \in {"onError", "shutdown"} => cur'[m] \in requested'
  BY SMTT(20), <1>0, <1>1, <1>6 DEF Asked
<1>17. \A m \in Loop : \A d \in requested' : Mapped(m, d)' => pc'[m] = "onError" /\ cur'[m] = d
  <2> SUFFICES ASSUME NEW m \in Loop, NEW d \in requested', Mapped(m, d)'
               PROVE  pc'[m] = "onError" /\ cur'[m] = d
    BY Zenon
  <2>1. Mapped(m, d)
    BY Zenon, <1>10
  <2>2. CASE d = c
    BY Zenon, <1>6, <1>11, <2>1, <2>2
  <2>3. CASE d # c
    <3>1. pc[m] = "onError" /\ cur[m] = d
      BY Zenon, <1>0, <1>1, <2>1, <2>3 DEF Asked
    <3>2. QED
      BY Zenon, <1>4, <1>6, <3>1
  <2>4. QED
    BY Zenon, <2>2, <2>3
<1>18. \A d \in requested' : event_loop'[d] # 0
  <2>1. l # 0
    BY DEF Loop
  <2>2. QED
    BY Zenon, <1>0, <1>1, <1>3, <1>4, <2>1 DEF Asked
<1>19. Asked'
  BY Zenon, <1>16, <1>17, <1>18 DEF Asked
<1>20. ASSUME NEW d \in created PROVE Owned(d)' => Owned(d)
  <2>1. InHandoff(d)' => InHandoff(d)
    BY Zenon, <1>6 DEF InHandoff
  <2>2. InPoller(c)
    BY Zenon, <1>2, <1>3 DEF InPoller, Mapped
  <2>3. QED
    BY Zenon, <1>4, <1>5, <2>1, <2>2, OwnedParts, InPollerStays, InQueueStays
<1>21. /\ held' \subseteq created /\ idle' \subseteq Handler
       /\ event_loop' \in [Conn -> Loop \cup {0}]
       /\ \A d \in Conn \ created : event_loop'[d] = 0
  BY Zenon, <1>0, <1>1, <1>4 DEF ObjectTypes, Touch
<1>22. QED
  BY Zenon, <1>4, <1>5, <1>7, <1>8, <1>9, <1>15, <1>19, <1>20, <1>21, StepKeeps
-----------------------------------------------------------------------------
(* The pollers and the queues know nothing of a connection that is new.    *)
LEMMA NewConnStays ==
    ASSUME Pollers, Entries, Once, SamePollers, SameQueues, event_loop' = event_loop,
           NEW l \in Loop, NEW c \in Conn, c \notin created, c # None,
           created' = created \cup {c}, event_loop[c] = 0, fd'[c] \in Fd,
           \A d \in created : fd'[d] = fd[d],
           pc[l] = "accept",
           \A m \in Loop : pc'[m] = IF m = l THEN "handoff" ELSE pc[m],
           \A m \in Loop : cur'[m] = IF m = l THEN c ELSE cur[m]
    PROVE  /\ Pollers' /\ Entries' /\ Once'
           /\ \A m \in Loop : \A d \in Handler : Mapped(m, d)' <=> Mapped(m, d)
<1>1. Pollers'
  <2>1. event_handlers' = event_handlers /\ watched' = watched
    BY Zenon DEF SamePollers
  <2>2. ASSUME NEW m \in Loop, NEW f \in Fd
        PROVE  /\ f \in watched'[m] <=> event_handlers'[m][f] # None
               /\ event_handlers'[m][f] # None =>
                     /\ event_handlers'[m][f] \in created'
                     /\ fd'[event_handlers'[m][f]] = f
                     /\ event_loop'[event_handlers'[m][f]] = m
    <3>1. PICK h : h = event_handlers[m][f]
      BY Zenon
    <3>2. /\ f \in watched[m] <=> h # None
          /\ h # None => h \in created /\ fd[h] = f /\ event_loop[h] = m
      <4>1. /\ f \in watched[m] <=> event_handlers[m][f] # None
            /\ event_handlers[m][f] # None =>
                  /\ event_handlers[m][f] \in created
                  /\ fd[event_handlers[m][f]] = f
                  /\ event_loop[event_handlers[m][f]] = m
        BY Zenon DEF Pollers
      <4>2. QED
        BY Zenon, <3>1, <4>1
    <3>3. h # None => h \in created' /\ fd'[h] = f /\ event_loop'[h] = m
      BY Zenon, <3>2
    <3>4. QED
      BY Zenon, <2>1, <3>1, <3>2, <3>3
  <2>3. QED
    BY Zenon, <2>2 DEF Pollers
<1>2. /\ \A m \in Loop : Waiting(m)' = Waiting(m)
      /\ changed' = changed /\ temp' = temp /\ pos' = pos
  BY Zenon DEF Waiting, SameQueues
<1>3. ASSUME NEW m \in Loop, NEW k \in DOMAIN changed'[m] PROVE EntryOK(m, changed[m][k])'
  <2>1. EntryOK(m, changed[m][k]) /\ changed'[m][k] = changed[m][k]
    BY Zenon, <1>2 DEF Entries
  <2>2. QED
    BY Zenon, <2>1 DEF EntryOK
<1>4. ASSUME NEW m \in Loop, NEW k \in Waiting(m)' PROVE EntryOK(m, temp[m][k])'
  <2>1. EntryOK(m, temp[m][k]) /\ temp'[m][k] = temp[m][k]
    BY Zenon, <1>2 DEF Entries
  <2>2. QED
    BY Zenon, <2>1 DEF EntryOK
<1>5. \A m \in Loop : pc[m] = "handoff" => cur[m] \in created /\ event_loop[cur[m]] = 0
  BY Zenon DEF Entries
<1>6. \A m \in Loop : pc'[m] = "handoff" => cur'[m] \in created' /\ event_loop'[cur'[m]] = 0
  BY Zenon, <1>5
<1>7. \A m \in Loop : pc'[m] # "apply" => temp'[m] = <<>> /\ pos'[m] = 0
  BY Zenon, <1>2 DEF Entries
<1>8. Entries'
  BY Zenon, <1>3, <1>4, <1>6, <1>7 DEF Entries
<1>9. OnceInChanged' /\ OnceInTemp' /\ NotInBoth'
  <2>1. OnceInChanged'
    BY SMTT(20), <1>2 DEF Once, OnceInChanged
  <2>2. OnceInTemp'
    BY SMTT(20), <1>2 DEF Once, OnceInTemp
  <2>3. NotInBoth'
    BY SMTT(20), <1>2 DEF Once, NotInBoth
  <2>4. QED
    BY Zenon, <2>1, <2>2, <2>3
<1>10. /\ \A m \in Loop : \A k \in DOMAIN changed[m] : ~Adds(changed[m][k], c)
       /\ \A m \in Loop : \A k \in Waiting(m) : ~Adds(temp[m][k], c)
  BY Zenon DEF Entries, EntryOK, Handler
<1>11. NotQueuedYet'
  <2> SUFFICES ASSUME NEW n \in Loop, pc'[n] = "handoff"
               PROVE  /\ \A m \in Loop : pc'[m] = "handoff" /\ cur'[m] = cur'[n] => m = n
                      /\ \A m \in Loop : \A k \in DOMAIN changed[m] : ~Adds(changed[m][k], cur'[n])
                      /\ \A m \in Loop : \A k \in Waiting(m) : ~Adds(temp[m][k], cur'[n])
    BY Zenon, <1>2 DEF NotQueuedYet
  <2>1. CASE n = l
    BY Zenon, <1>5, <1>10, <2>1
  <2>2. CASE n # l
    <3>1. pc[n] = "handoff" /\ cur'[n] = cur[n] /\ cur[n] # c
      BY Zenon, <1>5, <2>2
    <3>2. QED
      BY Zenon, <3>1 DEF Once, NotQueuedYet
  <2>3. QED
    BY Zenon, <2>1, <2>2
<1>12. ASSUME NEW m \in Loop, NEW d \in Handler PROVE Mapped(m, d)' <=> Mapped(m, d)
  <2>1. d \in created => (Mapped(m, d)' <=> Mapped(m, d))
    BY Zenon DEF Mapped, SamePollers
  <2>2. ~Mapped(m, c)'
    BY DEF Mapped, SamePollers, Pollers
  <2>3. QED
    BY Zenon, <2>1, <2>2 DEF Mapped
<1>13. QED
  BY Zenon, <1>1, <1>8, <1>9, <1>11, <1>12 DEF Once

(* The kernel gives the new connection a descriptor that no handler uses.  *)
LEMMA AcceptKeeps ==
    ASSUME ReactorInv, Collect, NEW l \in Loop, Accept(l) PROVE ReactorInv'
<1>0. /\ ObjectTypes /\ ThreadTypes /\ LoopTypes /\ BookTypes /\ Sockets /\ Pollers
      /\ Entries /\ Once /\ Pointers /\ Asked /\ Heard /\ HeardOnce /\ EndedOnce /\ InOrder /\ Table
  BY Zenon DEF ReactorInv, Types, Books
<1>1. PICK c \in Conn \ created, f \in Fd \ InUse :
          /\ created' = created \cup {c}
          /\ fd' = [fd EXCEPT ![c] = f]
          /\ add_handler' = Append(add_handler, c)
          /\ cur' = [cur EXCEPT ![l] = c]
  BY Zenon DEF Accept
<1>2. /\ pc[l] = "accept" /\ pc' = [pc EXCEPT ![l] = "handoff"]
      /\ event_loop' = event_loop /\ idle' = idle /\ held' = held /\ fired' = fired
      /\ SamePollers /\ SameQueues /\ SameMain /\ terminal' = terminal /\ idx' = idx
      /\ handlers' = handlers /\ remove_handler' = remove_handler
      /\ requested' = requested /\ late' = late
  BY Zenon DEF Accept, GoTo, SamePollers, SameQueues, SameMain, poller, queues, main, history
<1>3. /\ created \subseteq Conn /\ c \notin requested /\ requested \subseteq created
      /\ c # Acceptor /\ c # None /\ event_loop[c] = 0
      /\ fd' \in [Conn -> Fd \cup {0}] /\ fd'[c] = f
      /\ \A d \in created : fd'[d] = fd[d] /\ d # c
  BY Zenon, <1>0, <1>1, NoneAssumption DEF ObjectTypes, BookTypes
<1>4. /\ \A m \in Loop : pc'[m] = IF m = l THEN "handoff" ELSE pc[m]
      /\ \A m \in Loop : cur'[m] = IF m = l THEN c ELSE cur[m]
  BY Zenon, <1>0, <1>1, <1>2 DEF ThreadTypes
<1>5. /\ Range(add_handler') = Range(add_handler) \cup {c}
      /\ c \notin Range(add_handler) /\ c \notin Range(add_set) /\ c \notin Range(announced)
      /\ IsInjective(add_handler') /\ add_handler' \in Seq(created')
  <2>1. /\ add_handler \in Seq(created) /\ add_set \in Seq(created) /\ announced \in Seq(created)
    BY Zenon, <1>0 DEF BookTypes
  <2>2. c \notin Range(add_handler) /\ c \notin Range(add_set) /\ c \notin Range(announced)
    BY Zenon, <1>1, <2>1, RangeOfSeq
  <2>3. add_handler \in Seq(created') /\ c \in created'
    BY Zenon, <1>1, <2>1, SeqGrows
  <2>4. add_handler' \in Seq(created')
    BY <1>1, <2>3
  <2>5. IsInjective(add_handler)
    BY Zenon, <1>0 DEF HeardOnce
  <2>6. QED
    BY Zenon, <1>1, <2>1, <2>2, <2>4, <2>5, AppendRange
<1>6. BookTypes'
  <2>1. /\ remove_handler' \in Seq(created') /\ add_set' \in Seq(created')
        /\ remove_set' \in Seq(created') /\ announced' \in Seq(created')
        /\ dismissed' \in Seq(created')
    BY Zenon, <1>0, <1>1, <1>2, SeqGrows DEF BookTypes, SameMain
  <2>2. QED
    BY Zenon, <1>0, <1>1, <1>2, <1>5, <2>1 DEF BookTypes, SameMain
<1>7. Heard'
  BY Zenon, <1>0, <1>1, <1>2, <1>5 DEF Heard, SameMain
<1>8. HeardOnce' /\ EndedOnce' /\ InOrder'
  BY Zenon, <1>0, <1>2, <1>5 DEF HeardOnce, EndedOnce, InOrder, SameMain
<1>9. Table'
  <2>1. \A g \in Fd : handlers'[g] # None => handlers'[g] \in created' /\ fd'[handlers'[g]] = g
    BY Zenon, <1>0, <1>1, <1>2, <1>3 DEF Table
  <2>2. \A d \in Range(add_handler') : d \in requested' => d \in late'
    BY Zenon, <1>0, <1>2, <1>3, <1>5 DEF Table
  <2>3. \A d \in created' : d \notin requested' \/ d \in late' =>
            d \in Range(add_handler') \/ handlers'[fd'[d]] = d
    BY Zenon, <1>0, <1>1, <1>2, <1>3, <1>5 DEF Table
  <2>4. QED
    BY Zenon, <1>0, <1>2, <2>1, <2>2, <2>3 DEF Table
<1>10. ASSUME NEW d \in created PROVE Owned(d)' => Owned(d)
  <2>1. InHandoff(d)' => InHandoff(d)
    BY Zenon, <1>3, <1>4 DEF InHandoff
  <2>2. InTable(d)' => InTable(d)
    BY Zenon, <1>2 DEF InTable
  <2>3. InVectors(d)' => InVectors(d)
    BY Zenon, <1>2, <1>3, <1>5 DEF InVectors, SameMain
  <2>4. QED
    BY Zenon, <1>2, <2>1, <2>2, <2>3, OwnedParts, InPollerStays, InQueueStays
<1>11. Owned(c)'
  BY Zenon, <1>5, OwnedParts DEF InVectors
<1>12. /\ freed' \subseteq created' /\ c \notin freed'
       /\ \A d \in created : d \in freed' <=> ~Owned(d)'
  <2>1. \A d : d \in freed' <=> d \in freed \/ (d \in created' /\ ~Owned(d)')
    BY Zenon DEF Collect
  <2>2. c \notin freed /\ freed \subseteq created
    BY Zenon, <1>0, <1>1 DEF ObjectTypes
  <2>3. \A d \in created : d \in freed => ~Owned(d)'
    BY Zenon, <1>0, <1>10 DEF Sockets
  <2>4. QED
    BY Zenon, <1>1, <1>11, <2>1, <2>2, <2>3
<1>13. \A d \in created : Owned(d)' => fd[d] # f
  BY Zenon, <1>0, <1>1, <1>10 DEF Sockets, InUse, Alive
<1>14. Sockets'
  <2>1. \A d \in created' : fd'[d] \in Fd
    BY Zenon, <1>0, <1>1, <1>3 DEF Sockets
  <2>2. \A d \in created' : d \in freed' <=> ~Owned(d)'
    BY Zenon, <1>1, <1>11, <1>12
  <2>3. ASSUME NEW d \in created', NEW b \in created', Owned(d)', Owned(b)', fd'[d] = fd'[b]
        PROVE  d = b
    <3>1. CASE d = c \/ b = c
      BY Zenon, <1>1, <1>3, <1>13, <2>3, <3>1
    <3>2. CASE d # c /\ b # c
      <4>1. d \in created /\ b \in created /\ Owned(d) /\ Owned(b) /\ fd[d] = fd[b]
        BY Zenon, <1>1, <1>3, <1>10, <2>3, <3>2
      <4>2. QED
        BY Zenon, <1>0, <4>1 DEF Sockets
    <3>3. QED
      BY Zenon, <3>1, <3>2
  <2>4. QED
    BY Zenon, <2>1, <2>2, <2>3 DEF Sockets
<1>15. ObjectTypes'
  BY Zenon, <1>0, <1>1, <1>2, <1>3, <1>12 DEF ObjectTypes
<1>16. ThreadTypes' /\ LoopTypes'
  BY Zenon, <1>0, <1>1, <1>2, LoopTypesStay DEF ThreadTypes, PcValues
<1>17. Pollers' /\ Entries' /\ Once'
  BY Zenon, <1>0, <1>1, <1>2, <1>3, <1>4, NewConnStays
<1>18. \A m \in Loop : \A d \in Handler : Mapped(m, d)' <=> Mapped(m, d)
  BY Zenon, <1>0, <1>1, <1>2, <1>3, <1>4, NewConnStays
<1>19. Pointers' /\ Asked'
  <2>1. /\ \A m \in Loop : pc'[m] = "onError" <=> pc[m] = "onError"
        /\ \A m \in Loop : pc'[m] = "shutdown" => pc[m] = "shutdown"
        /\ \A m \in Loop : pc'[m] \in {"onError", "shutdown"} => cur'[m] = cur[m]
        /\ \A m \in Loop : pc'[m] \in {"poll", "swap", "apply", "exited"} =>
               pc[m] \in {"poll", "swap", "apply", "exited"}
    <3>1. pc[l] = "accept"
      BY Zenon, <1>2
    <3>2. QED
      BY Zenon, <1>4, <3>1
  <2>2. /\ \A m \in Loop : fired[m] \subseteq Handler
        /\ \A m \in Loop : cur[m] \in Conn \cup {None}
        /\ requested \subseteq Conn
    BY Zenon, <1>0, <1>3 DEF ThreadTypes
  <2>3. requested' = requested /\ fired' = fired /\ event_loop' = event_loop
    BY Zenon, <1>2
  <2>4. QED
    BY Zenon, <1>0, <1>18, <2>1, <2>2, <2>3, PointersShrink
<1>20. QED
  BY Zenon, <1>6, <1>7, <1>8, <1>9, <1>14, <1>15, <1>16, <1>17, <1>19
     DEF ReactorInv, Types, Books
-----------------------------------------------------------------------------
(* Nothing changes.                                                        *)
LEMMA StutterKeeps ==
    ASSUME ReactorInv, UNCHANGED vars PROVE ReactorInv'
<1>0. /\ ObjectTypes /\ ThreadTypes /\ LoopTypes /\ BookTypes /\ Sockets /\ Pollers
      /\ Entries /\ Once /\ Pointers /\ Asked /\ Books /\ Table
  BY Zenon DEF ReactorInv, Types
<1>1. /\ SameObjects /\ SamePollers /\ SameQueues /\ SameManager /\ SameMain
      /\ held' = held /\ idle' = idle /\ freed' = freed
      /\ pc' = pc /\ fired' = fired /\ cur' = cur /\ terminal' = terminal /\ idx' = idx
  BY Zenon DEF vars, objects, loops, poller, queues, manager, main, history,
         SameObjects, SamePollers, SameQueues, SameManager, SameMain
<1>2. created' = created /\ fd' = fd /\ event_loop' = event_loop /\ requested' = requested
  BY Zenon, <1>1 DEF SameObjects, SameManager
<1>3. ObjectTypes' /\ ThreadTypes' /\ LoopTypes' /\ BookTypes'
  BY Zenon, <1>0, <1>1, <1>2, LoopTypesStay, BookTypesStay DEF ObjectTypes, ThreadTypes
<1>4. \A c \in created : Owned(c)' <=> Owned(c)
  <2> SUFFICES ASSUME NEW c \in created PROVE Owned(c)' <=> Owned(c)
    BY Zenon
  <2>1. InHandoff(c)' <=> InHandoff(c)
    BY Zenon, <1>1 DEF InHandoff
  <2>2. QED
    BY Zenon, <1>1, <2>1, OwnedParts, InPollerStays, InQueueStays, InTableStays, InVectorsStay
<1>5. Sockets'
  BY Zenon, <1>0, <1>1, <1>2, <1>4 DEF Sockets
<1>6. Pollers' /\ Entries' /\ Once' /\ Books' /\ Table'
  BY Zenon, <1>0, <1>1, <1>2, PollersStay, EntriesStay, BooksStay, TableStays
<1>7. \A m \in Loop : \A c \in Handler : Mapped(m, c)' <=> Mapped(m, c)
  BY Zenon, <1>1, <1>2 DEF Mapped, SamePollers
<1>8. Pointers' /\ Asked'
  BY Zenon, <1>0, <1>1, <1>2, <1>7, PointersShrink DEF ThreadTypes, ObjectTypes, BookTypes
<1>9. QED
  BY Zenon, <1>3, <1>5, <1>6, <1>8 DEF ReactorInv, Types

(* The invariant holds in every state of the program.                      *)
THEOREM ReactorInvariance == Spec => []ReactorInv
<1>1. Init => ReactorInv
  BY Zenon, InitHolds
<1>2. ReactorInv /\ [Next]_vars => ReactorInv'
  <2> SUFFICES ASSUME ReactorInv, [Next]_vars PROVE ReactorInv'
    BY Zenon
  <2>1. CASE UNCHANGED vars
    BY Zenon, <2>1, StutterKeeps
  <2>2. ASSUME Collect, NEW l \in Loop, LoopStep(l) PROVE ReactorInv'
    BY Zenon, <2>2, PollKeeps, CheckTimeOutKeeps, ExpireKeeps, SwapKeeps, ApplyKeeps,
       ApplyDoneKeeps, QuietKeeps, ReadErrorKeeps, WriteErrorKeeps, WriteErrorOnErrorKeeps,
       AcceptKeeps, HandoffKeeps DEF LoopStep
  <2>3. ASSUME Collect, MainStep PROVE ReactorInv'
    BY Zenon, <2>3, UpdateKeeps, CallbacksKeeps DEF MainStep
  <2>4. QED
    BY Zenon, <2>1, <2>2, <2>3, ReleaseKeeps, GoIdleKeeps DEF Next
<1>3. QED
  BY <1>1, <1>2, PTL DEF Spec
-----------------------------------------------------------------------------
(* A handler is alive as long as it is in some map.                        *)
LEMMA MappedIsAlive ==
    ASSUME ReactorInv, NEW l \in Loop, NEW c, Mapped(l, c)
    PROVE  c \in Registered(l) /\ c \in Alive
<1>1. c \in created /\ c \in Conn /\ fd[c] \in Fd
  BY Zenon, MappedHere
<1>2. Owned(c)
  BY Zenon, <1>1, OwnedParts DEF InPoller, Mapped
<1>3. QED
  BY Zenon, <1>1, <1>2, NoneAssumption DEF ReactorInv, Sockets, Alive, Registered, Mapped

(* An event of a descriptor reaches the one live connection that owns it,  *)
(* on one thread, for any number of loops and however descriptors are      *)
(* reused.                                                                 *)
THEOREM EventsReachTheirOwnerAlways == Spec => []EventsReachTheirOwner
<1>1. ReactorInv => EventsReachTheirOwner
  <2> SUFFICES ASSUME ReactorInv PROVE EventsReachTheirOwner
    BY Zenon
  <2>0. ObjectTypes /\ ThreadTypes /\ LoopTypes /\ BookTypes /\ Pollers
    BY Zenon DEF ReactorInv, Types
  <2>1. TypeOK
    <3>1. \A l \in Loop : Range(changed[l]) \cup Range(temp[l]) \subseteq BOOLEAN \X Handler
      BY Zenon, <2>0, RangeOfSeq DEF LoopTypes
    <3>2. \A s \in {add_handler, remove_handler, add_set, remove_set, announced, dismissed} :
              Range(s) \subseteq created
      BY Zenon, <2>0, RangeOfSeq DEF BookTypes
    <3>3. \A l \in Loop : pos[l] \in 0 .. Len(temp[l])
      BY <2>0 DEF LoopTypes
    <3>4. QED
      BY Zenon, <2>0, <3>1, <3>2, <3>3 DEF TypeOK, ObjectTypes, ThreadTypes, LoopTypes, BookTypes
  <2>2. ASSUME NEW l \in Loop, NEW f \in watched[l]
        PROVE  /\ event_handlers[l][f] \in Alive
               /\ fd[event_handlers[l][f]] = f /\ event_loop[event_handlers[l][f]] = l
    <3>1. f \in Fd /\ event_handlers[l][f] # None
      BY Zenon, <2>0 DEF LoopTypes, Pollers
    <3>2. Mapped(l, event_handlers[l][f]) /\ fd[event_handlers[l][f]] = f
      BY Zenon, <2>0, <3>1 DEF Pollers, Mapped
    <3>3. QED
      BY Zenon, <3>2, MappedHere, MappedIsAlive
  <2>3. ASSUME NEW l \in Loop, NEW m \in Loop, NEW f \in watched[l], f \in watched[m]
        PROVE  l = m
    <3> DEFINE c == event_handlers[l][f]
               d == event_handlers[m][f]
    <3>1. /\ c \in Alive /\ d \in Alive /\ fd[c] = f /\ fd[d] = f
          /\ event_loop[c] = l /\ event_loop[d] = m
      BY Zenon, <2>2, <2>3
    <3> HIDE DEF c, d
    <3>2. c = d
      BY Zenon, <3>1 DEF ReactorInv, Sockets, Alive
    <3>3. QED
      BY Zenon, <3>1, <3>2
  <2>4. QED
    BY Zenon, <2>1, <2>2, <2>3 DEF EventsReachTheirOwner
<1>2. QED
  BY <1>1, ReactorInvariance, PTL

(* A raw pointer of fired_handler_ is never used after the handler is      *)
(* gone, nor is the one that OnError gets after RemoveConn.                *)
THEOREM FiredHandlersAreAliveAlways == Spec => []FiredHandlersAreAlive
<1>1. ReactorInv => FiredHandlersAreAlive
  <2> SUFFICES ASSUME ReactorInv, NEW l \in Loop
               PROVE  /\ fired[l] \ {Acceptor} \subseteq Registered(l) \cap Alive
                      /\ pc[l] = "onError" => cur[l] \in Registered(l) \cap Alive
    BY Zenon DEF FiredHandlersAreAlive
  <2>1. \A c \in fired[l] \ {Acceptor} : Mapped(l, c)
    BY Zenon DEF ReactorInv, Pointers
  <2>2. pc[l] = "onError" => Mapped(l, cur[l])
    BY Zenon DEF ReactorInv, Pointers
  <2>3. QED
    BY Zenon, <2>1, <2>2, MappedIsAlive
<1>2. QED
  BY <1>1, ReactorInvariance, PTL

(* Only a whole Update of the main thread can free the handler between its *)
(* OnError and its Shutdown.                                               *)
THEOREM ShutdownOutlivedOnlyByUpdateAlways == Spec => []ShutdownOutlivedOnlyByUpdate
<1>1. ReactorInv => ShutdownOutlivedOnlyByUpdate
  <2> SUFFICES ASSUME ReactorInv, NEW l \in Loop, pc[l] = "shutdown", cur[l] \in freed
               PROVE  cur[l] \in Range(dismissed)
    BY Zenon DEF ShutdownOutlivedOnlyByUpdate
  <2>1. cur[l] \in requested /\ cur[l] \in created
    BY Zenon DEF ReactorInv, Types, Asked, BookTypes
  <2>2. ~Owned(cur[l])
    BY Zenon, <2>1 DEF ReactorInv, Sockets
  <2>3. ~InVectors(cur[l])
    BY Zenon, <2>2, OwnedParts
  <2>4. QED
    BY Zenon, <2>1, <2>3 DEF ReactorInv, Books, Heard, InVectors
<1>2. QED
  BY <1>1, ReactorInvariance, PTL

(* The application hears of a connection's start and end once each, and in *)
(* that order.                                                             *)
THEOREM AnnouncedBeforeDismissedAlways == Spec => []AnnouncedBeforeDismissed
<1>1. ReactorInv => AnnouncedBeforeDismissed
  BY Zenon DEF ReactorInv, Books, HeardOnce, EndedOnce, InOrder, AnnouncedBeforeDismissed
<1>2. QED
  BY <1>1, ReactorInvariance, PTL

(* ConnManager's table is stale only for a RemoveConn that overtook the    *)
(* Update of its AddConn.                                                  *)
THEOREM StaleEntryOnlyIfLateAlways == Spec => []StaleEntryOnlyIfLate
<1>1. ReactorInv => StaleEntryOnlyIfLate
  BY Zenon DEF ReactorInv, Table, StaleEntryOnlyIfLate
<1>2. QED
  BY <1>1, ReactorInvariance, PTL

(* Without a failed write a connection is never destroyed, nor its         *)
(* descriptor closed.                                                      *)
THEOREM ClosedOnlyAfterWriteErrorAlways == Spec => []ClosedOnlyAfterWriteError
<1>1. ReactorInv => ClosedOnlyAfterWriteError
  <2> SUFFICES ASSUME ReactorInv, NEW c \in freed PROVE c \in requested \ late
    BY Zenon DEF ClosedOnlyAfterWriteError
  <2>1. c \in created /\ ~Owned(c) /\ fd[c] \in Fd
    BY Zenon DEF ReactorInv, Types, ObjectTypes, Sockets
  <2>2. ~InVectors(c) /\ ~InTable(c)
    BY Zenon, <2>1, OwnedParts
  <2>3. c \notin Range(add_handler) /\ handlers[fd[c]] # c
    BY Zenon, <2>1, <2>2 DEF InVectors, InTable
  <2>4. QED
    BY Zenon, <2>1, <2>3 DEF ReactorInv, Table
<1>2. QED
  BY <1>1, ReactorInvariance, PTL
=============================================================================
