----------------------------- MODULE PollPoller -----------------------------
(***************************************************************************)
(* The poll(2) poller (net/poll_poller.cc).  The descriptors are kept in a *)
(* dense array pollfds_; a handler remembers its place in it (poll_idx_)   *)
(* so that removing it is one swap with the last entry.  revents is part   *)
(* of the entry: it moves with it, and a poll(2) that fails leaves it as   *)
(* it was.                                                                 *)
(*                                                                         *)
(* fd gives each handler its descriptor: the handlers alive at one time    *)
(* have different ones (see Reactor).                                      *)
(***************************************************************************)
EXTENDS Integers, Sequences, FiniteSets

CONSTANTS Handler, Fd, fd, None

ASSUME FdAssumption ==
    /\ fd \in [Handler -> Fd]
    /\ \A g, h \in Handler : fd[g] = fd[h] => g = h
ASSUME NoneAssumption == None \notin Handler

VARIABLES
    event_handlers,   \* Poller::event_handlers_
    pollfds,          \* pollfds_, entries with the descriptor and revents # 0
    index,            \* EventHandler::poll_idx_
    fired,            \* fired_handler of the last PollOnce
    reported          \* history: ready in the last poll(2) that worked, and not
                      \* removed since

poll_vars == <<event_handlers, pollfds, index, fired, reported>>

Entry == [fd : Fd, ready : BOOLEAN]

PollInit ==
    /\ event_handlers = [f \in Fd |-> None]
    /\ pollfds = <<>>
    /\ index = [h \in Handler |-> -1]
    /\ fired = {}
    /\ reported = {}

AddEventHandler(h) ==
    /\ event_handlers[fd[h]] = None
    /\ event_handlers' = [event_handlers EXCEPT ![fd[h]] = h]
    /\ pollfds' = Append(pollfds, [fd |-> fd[h], ready |-> FALSE])
    /\ index' = [index EXCEPT ![h] = Len(pollfds') - 1]
    /\ UNCHANGED <<fired, reported>>

(* pollfds_ without the entry at place i: the last entry takes the place.  *)
Bug_RemoveShifts(i) ==
    [k \in 1 .. Len(pollfds) - 1 |-> IF k < i + 1 THEN pollfds[k] ELSE pollfds[k + 1]]
Bug_RemoveKeepsEvents(i) ==
    [k \in 1 .. Len(pollfds) - 1 |->
        IF k = i + 1
        THEN [pollfds[Len(pollfds)] EXCEPT !.ready = pollfds[k].ready]
        ELSE pollfds[k]]
SwapRemoved(i) ==
    [k \in 1 .. Len(pollfds) - 1 |->
        IF k = i + 1 THEN pollfds[Len(pollfds)] ELSE pollfds[k]]

(* poll_idx_ of the handler moved to place i, and of the one removed.      *)
Reindexed(h, i) ==
    IF i # Len(pollfds) - 1
    THEN [index EXCEPT ![event_handlers[pollfds[Len(pollfds)].fd]] = i, ![h] = -1]
    ELSE [index EXCEPT ![h] = -1]

RemoveEventHandler(h) ==
    /\ event_handlers' = [event_handlers EXCEPT ![fd[h]] = None]
    /\ \/ index[h] < 0 /\ UNCHANGED <<pollfds, index>>
       \/ /\ index[h] >= 0
          /\ pollfds' = SwapRemoved(index[h])
          /\ index' = Reindexed(h, index[h])
    /\ reported' = reported \ {h}
    /\ UNCHANGED fired

(* The loop over pollfds_: handlers with revents, until num are found.     *)
Bug_FiredOneLess(entries, num) ==
    {event_handlers[entries[k].fd] :
        k \in {j \in 1 .. Len(entries) :
                 entries[j].ready /\
                 Cardinality({i \in 1 .. j : entries[i].ready}) < num}} \ {None}
Fired(entries, num) ==
    {event_handlers[entries[k].fd] :
        k \in {j \in 1 .. Len(entries) :
                 entries[j].ready /\
                 (num >= 0 => Cardinality({i \in 1 .. j : entries[i].ready}) <= num)}} \ {None}

(* poll(2) writes revents of every entry and returns how many are set.     *)
PollOnce(ready) ==
    /\ pollfds' = [k \in 1 .. Len(pollfds) |->
                     [fd |-> pollfds[k].fd, ready |-> pollfds[k].fd \in ready]]
    /\ fired' = Fired(pollfds', Cardinality({k \in 1 .. Len(pollfds) : pollfds'[k].ready}))
    /\ reported' = {h \in Handler : event_handlers[fd[h]] = h /\ fd[h] \in ready}
    /\ UNCHANGED <<event_handlers, index>>

(* poll(2) fails, as with EINTR: num is -1 and revents are the old ones.   *)
PollFails ==
    /\ fired' = Fired(pollfds, -1)
    /\ UNCHANGED <<event_handlers, pollfds, index, reported>>

PollNext ==
    \/ \E h \in Handler : AddEventHandler(h) \/ RemoveEventHandler(h)
    \/ \E ready \in SUBSET Fd : PollOnce(ready)
    \/ PollFails

PollSpec == PollInit /\ [][PollNext]_poll_vars
-----------------------------------------------------------------------------
(* Type correctness: poll_idx_ is -1 or a place in pollfds_.               *)
PollTypeOK ==
    /\ event_handlers \in [Fd -> Handler \cup {None}]
    /\ pollfds \in Seq(Entry)
    /\ index \in [Handler -> Int]
    /\ \A h \in Handler : index[h] \in -1 .. Len(pollfds) - 1
    /\ fired \subseteq Handler
    /\ reported \subseteq Handler

(* The array, the map and the handlers' indices describe the same set:     *)
(* entry k belongs to the registered handler whose poll_idx_ is k, and     *)
(* every registered handler has an entry.  This is what makes the          *)
(* swap-with-last of RemoveEventHandler drop the right descriptor, and the *)
(* GetEventHandler(...)->set_index in it never a null dereference.         *)
IndexAgrees ==
    /\ \A k \in 1 .. Len(pollfds) :
          /\ event_handlers[pollfds[k].fd] # None
          /\ fd[event_handlers[pollfds[k].fd]] = pollfds[k].fd
          /\ index[event_handlers[pollfds[k].fd]] = k - 1
    /\ \A h \in Handler :
          /\ event_handlers[fd[h]] = h => index[h] >= 0
          /\ index[h] >= 0 => event_handlers[fd[h]] = h /\ pollfds[index[h] + 1].fd = fd[h]

(* revents never passes from one handler to another and never gets lost,   *)
(* however the entries are swapped about and handlers added in between: it *)
(* is set exactly for the registered handlers that the last working        *)
(* poll(2) reported.                                                       *)
EventsStayWithHandler ==
    /\ \A k \in 1 .. Len(pollfds) :
          pollfds[k].ready <=> event_handlers[pollfds[k].fd] \in reported
    /\ \A h \in reported : event_handlers[fd[h]] = h

(* PollOnce fires exactly the handlers that poll(2) reported ready (the    *)
(* early exit on num loses none); when poll(2) fails, those of the last    *)
(* poll that worked, once more.                                            *)
PollReportsAll ==
    [][ (\E ready \in SUBSET Fd : PollOnce(ready)) \/ PollFails => fired' = reported' ]_poll_vars
=============================================================================
