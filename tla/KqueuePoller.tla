---------------------------- MODULE KqueuePoller ----------------------------
(***************************************************************************)
(* The poller of BSD and macOS (net/kqueue_poller.cc) and the loop over    *)
(* what it fired.  The kernel keeps one knote per descriptor and filter    *)
(* and reports each as an event of its own.  A handler is known by its     *)
(* descriptor; interest is what its events() asks for.                     *)
(***************************************************************************)
EXTENDS Integers, FiniteSets

CONSTANTS
    Handler,      \* descriptors of handlers
    interest,     \* per handler: a subset of Filters
    InitSize      \* SocketConfig::kInitEventSize

Filters == {"read", "write"}

VARIABLES
    registered,   \* event_handlers_
    knotes,       \* the kernel's: pairs of handler and filter
    capacity,     \* events_.size()
    revents,      \* EventHandler::revents_, a subset of Filters
    fired_events  \* fired_handler, once per event, not handled yet

kqueue_vars == <<registered, knotes, capacity, revents, fired_events>>

Init ==
    /\ registered = {} /\ knotes = {} /\ fired_events = {}
    /\ capacity = InitSize
    /\ revents = [h \in Handler |-> {}]

KnotesOf(h) == {h} \X interest[h]

(* One EV_ADD, where it is asked for; if it fails, RemoveEventHandler.     *)
AddFilter(k, h, filter, failing) ==
    IF filter \notin interest[h] THEN k
    ELSE IF filter \in failing THEN k \ KnotesOf(h) ELSE k \cup {<<h, filter>>}

(* A failed read filter does not keep the write filter from being added.   *)
(* A descriptor that comes back belongs to a new handler.                  *)
AddEventHandler(h, failing) ==
    /\ fired_events = {} /\ h \notin registered
    /\ registered' = IF failing \cap interest[h] = {} THEN registered \cup {h} ELSE registered
    /\ knotes' = AddFilter(AddFilter(knotes, h, "read", failing), h, "write", failing)
    /\ capacity' = IF h >= capacity THEN 2 * capacity ELSE capacity
    /\ revents' = [revents EXCEPT ![h] = {}]
    /\ UNCHANGED fired_events

RemoveEventHandler(h) ==
    /\ registered' = registered \ {h}
    /\ knotes' = knotes \ KnotesOf(h)

(* Between polls: a change from the queue of the loop, or a timeout.       *)
Remove(h) ==
    /\ fired_events = {}
    /\ RemoveEventHandler(h)
    /\ UNCHANGED <<capacity, revents, fired_events>>

(* The events whose descriptor has a handler; at most capacity come back.  *)
Fired(ready) == {e \in ready : e[1] \in registered}

(* EVFILT_READ is -1 and EVFILT_WRITE -2: both have bits in common with    *)
(* each of the two, so the mask of either event has both bits.             *)
Mask == Filters

PollOnce(ready) ==
    /\ fired_events = {}
    /\ ready \subseteq knotes /\ Cardinality(ready) <= capacity
    /\ fired_events' = Fired(ready)
    /\ revents' = [h \in Handler |->
                     IF \E e \in Fired(ready) : e[1] = h THEN Mask ELSE revents[h]]
    /\ UNCHANGED <<registered, knotes, capacity>>

(* IoLoop calls HandleEvent for each.  OnRead and OnWrite are called for   *)
(* what revents_ and events_ have in common; an error in one of them       *)
(* removes the handler and leaves revents_ as it is.                       *)
Bug_HandledStays(e, error) ==
    /\ e \in fired_events
    /\ error => revents[e[1]] \cap interest[e[1]] # {}
    /\ IF error THEN RemoveEventHandler(e[1]) ELSE UNCHANGED <<registered, knotes>>
    /\ UNCHANGED <<capacity, revents, fired_events>>
HandleEvent(e, error) ==
    /\ e \in fired_events
    /\ error => revents[e[1]] \cap interest[e[1]] # {}
    /\ fired_events' = fired_events \ {e}
    /\ \/ error /\ RemoveEventHandler(e[1]) /\ UNCHANGED revents
       \/ ~error /\ revents' = [revents EXCEPT ![e[1]] = {}] /\ UNCHANGED <<registered, knotes>>
    /\ UNCHANGED capacity

Next ==
    \/ \E h \in Handler : Remove(h) \/ \E failing \in SUBSET Filters : AddEventHandler(h, failing)
    \/ \E ready \in SUBSET (Handler \X Filters) : PollOnce(ready)
    \/ \E e \in fired_events, error \in BOOLEAN : HandleEvent(e, error)

Spec == Init /\ [][Next]_kqueue_vars
-----------------------------------------------------------------------------
(* A registered handler has all its filters in the kernel, whichever of    *)
(* the kevent(2) calls fail, so none waits for events that cannot come.    *)
(* (The reverse fails: a knote added after a failed one has no handler.)   *)
RegisteredIsWatched == \A h \in registered : KnotesOf(h) \subseteq knotes

(* fired_handler points to a handler that is no longer registered only if  *)
(* that handler has two filters: its first event removed it, its second is *)
(* still to come, relies on another owner to keep the handler alive, and   *)
(* since revents_ was left will call OnRead and OnWrite once more.         *)
StaleFireNeedsTwoFilters ==
    \A e \in fired_events : e[1] \notin registered => interest[e[1]] = Filters
                                                   /\ revents[e[1]] = Filters

(* How far the kernel's knotes and the fired events follow the handlers.   *)
KnotesFollowHandlers == RegisteredIsWatched /\ StaleFireNeedsTwoFilters
=============================================================================
