------------------------------ MODULE Reactor ------------------------------
(***************************************************************************)
(* The life of a connection in green_turtle/net: TcpAcceptor accepts it on *)
(* one IO thread, ConnManager records it for the main thread, IoLoop adds  *)
(* it to the epoll set of another IO thread, EventHandler::HandleEvent     *)
(* serves it there and takes it down when reading, writing or idling       *)
(* fails.                                                                  *)
(*                                                                         *)
(* A handler is owned by shared_ptr: by the poller's map, the loops'       *)
(* queues, ConnManager's table and queues, and the application.  It is     *)
(* destroyed, and its descriptor closed, in the very step that drops the   *)
(* last of them; the IO threads use raw pointers to it in between.  The    *)
(* kernel may give a closed descriptor to the next connection.             *)
(*                                                                         *)
(* Each step of a thread is what it does under one lock, or on data that   *)
(* only this thread touches.  Bytes are not modelled: reading and writing  *)
(* succeed or fail.                                                        *)
(***************************************************************************)
EXTENDS Integers, Sequences, Functions

CONSTANTS
    Conn,       \* the handlers that the acceptor's creator will return
    Fd,         \* the descriptors the kernel can give to accepted sockets
    NLoops,     \* EventLoop::thread_count_
    Acceptor,   \* the listening handler, in the poller of loop 1
    None

ASSUME LoopsAssumption == NLoops \in Nat \ {0}
ASSUME NoneAssumption == None \notin Conn /\ Acceptor \notin Conn

Loop == 1 .. NLoops
Handler == Conn \cup {Acceptor}

VARIABLES
    (* the handlers *)
    created, freed,    \* constructed so far, destroyed so far
    fd,                \* EventHandler::fd_
    event_loop,        \* EventHandler::event_loop_
    idle,              \* the handlers with no readable event for kSocketRecvTimeOut
    held,              \* the handlers to which the application keeps a shared_ptr
    (* the IO loops *)
    pc, fired, cur,    \* where Loop() is, fired_handler_, the handler in HandleEvent
    event_handlers,    \* Poller::event_handlers_, per loop a map from descriptors
    watched,           \* the descriptors in the loop's epoll set
    changed, temp,     \* changed_handler_ and temp_queue: <<add, handler>> pairs
    pos,               \* how many entries of temp_queue are done
    terminal,          \* terminal_
    idx,               \* TcpAcceptor::idx_
    (* ConnManager and the main thread *)
    handlers, add_handler, remove_handler,
    mpc, add_set, remove_set,
    (* history *)
    announced, dismissed,   \* the connections passed to the add and remove callback
    requested, late         \* those passed to RemoveConn, before Update saw the AddConn

objects == <<created, fd, event_loop, idle, held>>
poller == <<event_handlers, watched>>
queues == <<changed, temp, pos>>
loops == <<pc, fired, cur, poller, queues, terminal, idx>>
manager == <<handlers, add_handler, remove_handler>>
main == <<mpc, add_set, remove_set, announced, dismissed>>
history == <<requested, late>>
vars == <<objects, freed, loops, manager, main, history>>
-----------------------------------------------------------------------------
Queued(q) == {q[k][2] : k \in 1 .. Len(q)}

(* Whether some shared_ptr to c exists.                                    *)
Owned(c) ==
    \/ c \in held
    \/ \E l \in Loop : \/ \E f \in Fd : event_handlers[l][f] = c
                       \/ c \in Queued(changed[l]) \cup Queued(temp[l])
                       \/ pc[l] = "handoff" /\ cur[l] = c
    \/ \E f \in Fd : handlers[f] = c
    \/ c \in UNION {Range(s) : s \in {add_handler, remove_handler, add_set, remove_set}}

Alive == created \ freed
InUse == {fd[c] : c \in Alive}
Registered(l) == {event_handlers[l][f] : f \in Fd} \ {None}

Init ==
    /\ created = {} /\ freed = {} /\ idle = {} /\ held = {}
    /\ fd = [c \in Conn |-> 0] /\ event_loop = [c \in Conn |-> 0]
    /\ pc = [l \in Loop |-> "poll"] /\ fired = [l \in Loop |-> {}]
    /\ cur = [l \in Loop |-> None]
    /\ event_handlers = [l \in Loop |-> [f \in Fd |-> None]]
    /\ watched = [l \in Loop |-> {}]
    /\ changed = [l \in Loop |-> <<>>] /\ temp = [l \in Loop |-> <<>>]
    /\ pos = [l \in Loop |-> 0]
    /\ terminal = [l \in Loop |-> FALSE] /\ idx = 1
    /\ handlers = [f \in Fd |-> None]
    /\ add_handler = <<>> /\ remove_handler = <<>>
    /\ mpc = "run" /\ add_set = <<>> /\ remove_set = <<>>
    /\ announced = <<>> /\ dismissed = <<>>
    /\ requested = {} /\ late = {}
-----------------------------------------------------------------------------
(* IoLoop::Loop                                                            *)

GoTo(l, p) == pc' = [pc EXCEPT ![l] = p]

(* PollOnce: any of the watched descriptors may be ready; an event for a   *)
(* descriptor without a handler is dropped.                                *)
Poll(l) ==
    /\ pc[l] = "poll" /\ ~terminal[l]
    /\ \E ready \in SUBSET watched[l], a \in SUBSET {Acceptor} :
          /\ a # {} => l = 1
          /\ fired' = [fired EXCEPT ![l] =
                          ({event_handlers[l][f] : f \in ready} \ {None}) \cup a]
    /\ GoTo(l, "dispatch")
    /\ UNCHANGED <<objects, cur, poller, queues, terminal, idx, manager, main, history>>

LoopExit(l) ==
    /\ pc[l] = "poll" /\ terminal[l]
    /\ GoTo(l, "exited")
    /\ UNCHANGED <<objects, fired, cur, poller, queues, terminal, idx, manager, main, history>>

(* All events served.  Once a second CheckEventHandlerTimeOut collects the *)
(* idle handlers.                                                          *)
CheckTimeOut(l) ==
    /\ pc[l] = "dispatch" /\ fired[l] = {}
    /\ \/ GoTo(l, "swap") /\ UNCHANGED fired
       \/ /\ GoTo(l, "expire")
          /\ fired' = [fired EXCEPT ![l] =
                 idle \cap (Registered(l) \cup (IF l = 1 THEN {Acceptor} ELSE {}))]
    /\ UNCHANGED <<objects, cur, poller, queues, terminal, idx, manager, main, history>>

(* RemoveHandlerLater for each of them.                                    *)
Expire(l) ==
    /\ pc[l] = "expire"
    /\ \/ \E h \in fired[l] :
             /\ changed' = [changed EXCEPT ![l] = Append(@, <<FALSE, h>>)]
             /\ fired' = [fired EXCEPT ![l] = @ \ {h}]
             /\ UNCHANGED pc
       \/ /\ fired[l] = {}
          /\ GoTo(l, "swap")
          /\ UNCHANGED <<changed, fired>>
    /\ UNCHANGED <<objects, cur, poller, temp, pos, terminal, idx, manager, main, history>>

Swap(l) ==
    /\ pc[l] = "swap"
    /\ temp' = [temp EXCEPT ![l] = changed[l]]
    /\ changed' = [changed EXCEPT ![l] = <<>>]
    /\ GoTo(l, "apply")
    /\ UNCHANGED <<objects, fired, cur, poller, pos, terminal, idx, manager, main, history>>

(* Poller::RemoveEventHandler with EPOLL_CTL_DEL, called by OnError of a   *)
(* connection on the loop that event_loop_ names.                          *)
Bug_RemoveLazy(c) ==
    /\ event_handlers' = [event_handlers EXCEPT ![event_loop[c]][fd[c]] = None]
    /\ UNCHANGED watched
RemoveEventHandler(c) ==
    /\ event_handlers' = [event_handlers EXCEPT ![event_loop[c]][fd[c]] = None]
    /\ watched' = [watched EXCEPT ![event_loop[c]] = @ \ {fd[c]}]

(* OnError: a connection leaves its poller, an acceptor stops every loop.  *)
OnError(h) ==
    \/ h \in Conn /\ RemoveEventHandler(h) /\ UNCHANGED terminal
    \/ /\ h = Acceptor
       /\ terminal' = [l \in Loop |-> TRUE]
       /\ UNCHANGED poller

(* AddEventHandler: SetEventHandler and EPOLL_CTL_ADD, undone if it fails. *)
AddEventHandler(l, c) ==
    /\ event_loop' = [event_loop EXCEPT ![c] = l]
    /\ \/ /\ event_handlers' = [event_handlers EXCEPT ![l][fd[c]] = c]
          /\ watched' = [watched EXCEPT ![l] = @ \cup {fd[c]}]
       \/ /\ event_handlers' = [event_handlers EXCEPT ![l][fd[c]] = None]
          /\ UNCHANGED watched

(* The entries of temp_queue in order: add the handler, or let it fail.    *)
Apply(l) ==
    /\ pc[l] = "apply" /\ pos[l] < Len(temp[l])
    /\ pos' = [pos EXCEPT ![l] = @ + 1]
    /\ LET h == temp[l][pos[l] + 1][2] IN
       \/ temp[l][pos'[l]][1] /\ AddEventHandler(l, h) /\ UNCHANGED terminal
       \/ ~temp[l][pos'[l]][1] /\ OnError(h) /\ UNCHANGED event_loop
    /\ UNCHANGED <<created, fd, idle, held, pc, fired, cur, changed, temp, idx>>
    /\ UNCHANGED <<manager, main, history>>

(* temp_queue and its references go at the end of the iteration.           *)
ApplyDone(l) ==
    /\ pc[l] = "apply" /\ pos[l] = Len(temp[l])
    /\ temp' = [temp EXCEPT ![l] = <<>>]
    /\ pos' = [pos EXCEPT ![l] = 0]
    /\ GoTo(l, "poll")
    /\ UNCHANGED <<objects, fired, cur, poller, changed, terminal, idx, manager, main, history>>
-----------------------------------------------------------------------------
(* EventHandler::HandleEvent, the next of fired_handler_.                  *)

Bug_ServedKeeps(l, h) == h \in fired[l] /\ UNCHANGED fired
Served(l, h) == fired' = [fired EXCEPT ![l] = @ \ {h}]

(* A readable event refreshes last_active_time_; a writeable one does not. *)
Touch(h) == idle' \in {idle, idle \ {h}}

HandleOk(l) ==
    /\ pc[l] = "dispatch"
    /\ \E c \in fired[l] \ {Acceptor} : Served(l, c) /\ Touch(c)
    /\ UNCHANGED <<created, fd, event_loop, held, pc, cur, poller, queues, terminal, idx>>
    /\ UNCHANGED <<manager, main, history>>

(* OnRead returned kErr: OnError, and HandleEvent returns.                 *)
ReadError(l) ==
    /\ pc[l] = "dispatch"
    /\ \E c \in fired[l] \ {Acceptor} :
          Served(l, c) /\ idle' = idle \ {c} /\ OnError(c)
    /\ UNCHANGED <<created, fd, event_loop, held, pc, cur, queues, idx, manager, main, history>>

(* ConnManager::RemoveConn                                                 *)
Bug_RemoveConnKeepsEntry(c) ==
    /\ remove_handler' = Append(remove_handler, c)
    /\ UNCHANGED <<handlers, add_handler>>
Bug_RemoveConnForgets(c) ==
    /\ handlers' = [handlers EXCEPT ![fd[c]] = None]
    /\ UNCHANGED <<add_handler, remove_handler>>
RemoveConn(c) ==
    /\ remove_handler' = Append(remove_handler, c)
    /\ handlers' = [handlers EXCEPT ![fd[c]] = None]
    /\ UNCHANGED add_handler

(* OnWrite returned kErr: RemoveConn, then OnError, then Shutdown.         *)
WriteError(l) ==
    /\ pc[l] = "dispatch"
    /\ \E c \in fired[l] \ {Acceptor} :
          /\ Served(l, c) /\ Touch(c) /\ RemoveConn(c)
          /\ cur' = [cur EXCEPT ![l] = c]
          /\ requested' = requested \cup {c}
          /\ late' = IF c \in Range(add_handler) THEN late \cup {c} ELSE late
    /\ GoTo(l, "onError")
    /\ UNCHANGED <<created, fd, event_loop, held, poller, queues, terminal, idx, main>>

WriteErrorOnError(l) ==
    /\ pc[l] = "onError"
    /\ OnError(cur[l])
    /\ GoTo(l, "shutdown")
    /\ UNCHANGED <<objects, fired, cur, queues, idx, manager, main, history>>

(* OnWrite again and shutdown(2), on a handler that may be gone.           *)
Shutdown(l) ==
    /\ pc[l] = "shutdown"
    /\ cur' = [cur EXCEPT ![l] = None]
    /\ GoTo(l, "dispatch")
    /\ UNCHANGED <<objects, fired, poller, queues, terminal, idx, manager, main, history>>
-----------------------------------------------------------------------------
(* TcpAcceptor::OnRead                                                     *)

AcceptBegin(l) ==
    /\ pc[l] = "dispatch" /\ Acceptor \in fired[l]
    /\ idle' = idle \ {Acceptor}
    /\ Served(l, Acceptor)
    /\ GoTo(l, "accept")
    /\ UNCHANGED <<created, fd, event_loop, held, cur, poller, queues, terminal, idx>>
    /\ UNCHANGED <<manager, main, history>>

(* accept(2) gives the lowest free descriptor; creator and                 *)
(* AddToConnManager follow.                                                *)
Accept(l) ==
    /\ pc[l] = "accept"
    /\ \E c \in Conn \ created, f \in Fd \ InUse :
          /\ \A g \in Fd \ InUse : f <= g
          /\ created' = created \cup {c}
          /\ fd' = [fd EXCEPT ![c] = f]
          /\ add_handler' = Append(add_handler, c)
          /\ cur' = [cur EXCEPT ![l] = c]
    /\ GoTo(l, "handoff")
    /\ UNCHANGED <<event_loop, idle, held, fired, poller, queues, terminal, idx>>
    /\ UNCHANGED <<handlers, remove_handler, main, history>>

(* The round robin over loops_.                                            *)
NextLoop(i) == IF i + 1 > NLoops THEN 1 ELSE i + 1

(* AddHandlerLater on the next loop.                                       *)
Handoff(l) ==
    /\ pc[l] = "handoff"
    /\ changed' = [changed EXCEPT ![idx] = Append(@, <<TRUE, cur[l]>>)]
    /\ idx' = NextLoop(idx)
    /\ cur' = [cur EXCEPT ![l] = None]
    /\ GoTo(l, "accept")
    /\ UNCHANGED <<objects, fired, poller, temp, pos, terminal, manager, main, history>>

(* Nothing left to accept, or accept(2) failed for good.                   *)
AcceptDone(l) ==
    /\ pc[l] = "accept"
    /\ GoTo(l, "dispatch")
    /\ UNCHANGED <<objects, fired, cur, poller, queues, terminal, idx, manager, main, history>>

AcceptError(l) ==
    /\ pc[l] = "accept"
    /\ OnError(Acceptor)
    /\ GoTo(l, "dispatch")
    /\ UNCHANGED <<objects, fired, cur, queues, idx, manager, main, history>>
-----------------------------------------------------------------------------
(* The main thread: ConnManager::Update, then the two callbacks.           *)

Bug_AddHandlerNot(table, conns) == table
AddHandler(table, conns) ==
    [f \in Fd |-> IF \E c \in conns : fd[c] = f
                  THEN CHOOSE c \in conns : fd[c] = f
                  ELSE table[f]]

Bug_UpdateKeepsQueue ==
    /\ mpc = "run"
    /\ handlers' = AddHandler(handlers, Range(add_handler))
    /\ add_set' = add_handler /\ remove_set' = remove_handler
    /\ remove_handler' = <<>>
    /\ mpc' = "callbacks"
    /\ UNCHANGED <<objects, loops, add_handler, announced, dismissed, history>>
Update ==
    /\ mpc = "run"
    /\ handlers' = AddHandler(handlers, Range(add_handler))
    /\ add_set' = add_handler /\ remove_set' = remove_handler
    /\ add_handler' = <<>> /\ remove_handler' = <<>>
    /\ mpc' = "callbacks"
    /\ UNCHANGED <<objects, loops, announced, dismissed, history>>

(* add_callback_, in which the application may keep any of the new         *)
(* connections, then remove_callback_, then both local vectors go.         *)
Callbacks ==
    /\ mpc = "callbacks"
    /\ announced' = announced \o add_set
    /\ \E kept \in SUBSET Range(add_set) : held' = held \cup kept
    /\ dismissed' = dismissed \o remove_set
    /\ add_set' = <<>> /\ remove_set' = <<>>
    /\ mpc' = "run"
    /\ UNCHANGED <<created, fd, event_loop, idle, loops, manager, history>>

(* The application drops its shared_ptr; a handler sees no data in time.   *)
Release(c) ==
    /\ c \in held
    /\ held' = held \ {c}
    /\ UNCHANGED <<created, fd, event_loop, idle, loops, manager, main, history>>

GoIdle(h) ==
    /\ h \in (Alive \cup {Acceptor}) \ idle
    /\ idle' = idle \cup {h}
    /\ UNCHANGED <<created, fd, event_loop, held, loops, manager, main, history>>
-----------------------------------------------------------------------------
(* The step that drops the last reference runs ~EventHandler.              *)
Collect == freed' = freed \cup {c \in created' : ~Owned(c)'}

LoopStep(l) ==
    \/ Poll(l) \/ LoopExit(l) \/ CheckTimeOut(l) \/ Expire(l)
    \/ Swap(l) \/ Apply(l) \/ ApplyDone(l)
    \/ HandleOk(l) \/ ReadError(l) \/ WriteError(l) \/ WriteErrorOnError(l) \/ Shutdown(l)
    \/ AcceptBegin(l) \/ Accept(l) \/ Handoff(l) \/ AcceptDone(l) \/ AcceptError(l)

MainStep == Update \/ Callbacks

Next ==
    /\ \/ \E l \in Loop : LoopStep(l)
       \/ MainStep
       \/ \E c \in Conn : Release(c)
       \/ \E h \in Handler : GoIdle(h)
    /\ Collect

Spec == Init /\ [][Next]_vars

(* Every thread keeps running, and the application lets go eventually.     *)
Fairness ==
    /\ \A l \in Loop : WF_vars(LoopStep(l) /\ Collect)
    /\ WF_vars(MainStep /\ Collect)
    /\ \A c \in Conn : WF_vars(Release(c) /\ Collect)

FairSpec == Spec /\ Fairness
-----------------------------------------------------------------------------
PcValues == {"poll", "dispatch", "expire", "swap", "apply", "exited",
             "onError", "shutdown", "accept", "handoff"}

(* Type correctness: among others the round-robin index of the acceptor    *)
(* always names a loop, and a descriptor of a map is one the kernel gave.  *)
TypeOK ==
    /\ created \subseteq Conn /\ freed \subseteq created
    /\ idle \subseteq Handler /\ held \subseteq created
    /\ fd \in [Conn -> Fd \cup {0}] /\ event_loop \in [Conn -> Loop \cup {0}]
    /\ pc \in [Loop -> PcValues] /\ fired \in [Loop -> SUBSET Handler]
    /\ cur \in [Loop -> Conn \cup {None}]
    /\ event_handlers \in [Loop -> [Fd -> Conn \cup {None}]]
    /\ watched \in [Loop -> SUBSET Fd]
    /\ \A l \in Loop : Range(changed[l]) \cup Range(temp[l]) \subseteq BOOLEAN \X Handler
    /\ \A l \in Loop : pos[l] \in 0 .. Len(temp[l])
    /\ terminal \in [Loop -> BOOLEAN] /\ idx \in Loop
    /\ handlers \in [Fd -> Conn \cup {None}] /\ mpc \in {"run", "callbacks"}
    /\ \A s \in {add_handler, remove_handler, add_set, remove_set, announced, dismissed} :
          Range(s) \subseteq created
    /\ requested \subseteq created /\ late \subseteq requested

(* An epoll set only watches the descriptor of a live handler that this    *)
(* loop's map holds under that descriptor and that knows it runs here, and *)
(* no descriptor is watched by two loops: the events of a connection reach *)
(* that connection only, on one thread only, although descriptors are      *)
(* reused (EpollPoller::AddEventHandler, RemoveEventHandler, PollOnce).    *)
EventsReachTheirOwner ==
    /\ TypeOK
    /\ \A l \in Loop : \A f \in watched[l] :
        /\ event_handlers[l][f] \in Alive
        /\ fd[event_handlers[l][f]] = f
        /\ event_loop[event_handlers[l][f]] = l
        /\ \A m \in Loop \ {l} : f \notin watched[m]

(* IoLoop::fired_handler_ holds raw pointers.  Each is still valid when    *)
(* HandleEvent or RemoveHandlerLater is called on it, and so is the        *)
(* handler whose OnError runs after RemoveConn, whatever the main thread   *)
(* has released meanwhile.                                                 *)
FiredHandlersAreAlive ==
    \A l \in Loop :
        /\ fired[l] \ {Acceptor} \subseteq Registered(l) \cap Alive
        /\ pc[l] = "onError" => cur[l] \in Registered(l) \cap Alive

(* Shutdown() after a failed write works on a destroyed handler only if    *)
(* the main thread has already run the whole Update that dismissed it:     *)
(* nothing else in the program can free it in that window.                 *)
ShutdownOutlivedOnlyByUpdate ==
    \A l \in Loop :
        pc[l] = "shutdown" /\ cur[l] \in freed => cur[l] \in Range(dismissed)

(* The application hears of every connection in order: at most one add     *)
(* callback, at most one remove callback, never the second without the     *)
(* first, although AddConn and RemoveConn run on different IO threads and  *)
(* Update on a third (ConnManager::Update).                                *)
AnnouncedBeforeDismissed ==
    /\ IsInjective(announced) /\ IsInjective(dismissed)
    /\ Range(dismissed) \subseteq Range(announced)

(* ConnManager keeps what it was told to remove only when RemoveConn came  *)
(* before the Update that enters the connection into handlers_ (the entry  *)
(* is then never cleared).                                                 *)
StaleEntryOnlyIfLate ==
    \A f \in Fd : handlers[f] \in requested => handlers[f] \in late

(* Destroying a connection takes a failed write: one that failed to read,  *)
(* saw end of file or timed out leaves its poller but not ConnManager, and *)
(* its descriptor is never closed (EventHandler::HandleEvent).             *)
ClosedOnlyAfterWriteError ==
    freed \subseteq requested \ late


(* A connection whose write failed after Update had entered it is          *)
(* eventually destroyed and its descriptor closed.                         *)
WriteErrorCloses ==
    \A c \in Conn : c \in requested \ late ~> c \in freed
=============================================================================
