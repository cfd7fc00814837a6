------------------------------ MODULE EventLoop ------------------------------
(***************************************************************************)
(* Starting and stopping an EventLoop (net/event_loop.cc): Run() builds    *)
(* one IoLoop per thread, spreads the handlers over them, starts the       *)
(* threads, runs its own loop until is_terminal_ and joins the threads;    *)
(* the destructor then deletes the loops.  Another thread may call         *)
(* Terminal() at any time, and a handler that fails stops loops by itself. *)
(* One caller of Terminal() is modelled, and it calls it once.             *)
(*                                                                         *)
(* Terminal() walks loops_ without a lock while InitEventLoop may still be *)
(* filling it.  A push_back under the walk is a data race: a mark made     *)
(* after one may be lost.                                                  *)
(***************************************************************************)
EXTENDS Integers, SequencesExt

CONSTANTS
    MaxThreads,      \* bound on SetThreadCount
    ExpectedSize,    \* the constructor's argument
    Acceptors,       \* TcpAcceptors
    Clients,         \* TcpClients
    MaxEpollSize     \* 128, above which CreatePoller takes epoll

Handlers == Acceptors \cup Clients
Index == 1 .. MaxThreads

ASSUME ThreadsAssumption == MaxThreads \in Nat \ {0}

VARIABLES
    owner,           \* where the owner of the EventLoop is
    thread_count, handlers, is_terminal,
    loops,           \* loops_: how many are built; loop k is its k-th
    poller,          \* the kind of poller of each loop
    placed,          \* the loop that a handler was added to, 0 for none
    terminal,        \* IoLoop::terminal_
    thread,          \* the thread of each loop
    stop, mark, end, \* Terminal(): its state, how far its walk is, where it ends
    early, failed    \* history: Terminal() came before all loops; a handler failed

building == <<thread_count, handlers, loops, poller, placed>>
stopping == <<is_terminal, stop, mark, end, early>>
run_vars == <<owner, building, terminal, thread, stopping, failed>>

RunInit ==
    /\ owner = "setup" /\ thread_count = 1 /\ handlers = <<>> /\ is_terminal = FALSE
    /\ loops = 0
    /\ poller = [i \in Index |-> "none"] /\ placed = [h \in Handlers |-> 0]
    /\ terminal = [i \in Index |-> FALSE] /\ thread = [i \in Index |-> "none"]
    /\ stop = "no" /\ mark = 0 /\ end = 0
    /\ early = FALSE /\ failed = FALSE
-----------------------------------------------------------------------------
(* Before Run().                                                           *)

SetThreadCount(n) ==
    /\ owner = "setup"
    /\ thread_count' = n
    /\ UNCHANGED <<owner, handlers, loops, poller, placed, terminal, thread, stopping, failed>>

(* AddAcceptor, AddClient, AddHandler.                                     *)
AddHandler(h) ==
    /\ owner = "setup" /\ h \notin ToSet(handlers)
    /\ handlers' = Append(handlers, h)
    /\ UNCHANGED <<owner, thread_count, loops, poller, placed, terminal, thread, stopping, failed>>

Run ==
    /\ owner = "setup"
    /\ owner' = "init"
    /\ UNCHANGED <<building, terminal, thread, stopping, failed>>
-----------------------------------------------------------------------------
(* InitEventLoop                                                           *)

SizePerThread == (ExpectedSize + thread_count - 1) \div thread_count
CreatePoller(size) == IF size > MaxEpollSize THEN "epoll" ELSE "poll"

(* One more IoLoop.                                                        *)
NewLoop ==
    /\ owner = "init" /\ loops < thread_count
    /\ loops' = loops + 1
    /\ poller' = [poller EXCEPT ![loops + 1] = CreatePoller(SizePerThread)]
    /\ UNCHANGED <<owner, thread_count, handlers, placed, terminal, thread, stopping, failed>>

(* The loop of the k-th handler: loop_begin, wrapping at the end.          *)
LoopOf(k) == ((k - 1) % thread_count) + 1

PlaceHandlers ==
    /\ owner = "init" /\ loops = thread_count
    /\ placed' = [h \in Handlers |->
                    IF h \in ToSet(handlers)
                    THEN LoopOf(CHOOSE k \in 1 .. Len(handlers) : handlers[k] = h)
                    ELSE 0]
    /\ handlers' = <<>>
    /\ owner' = "threads"
    /\ UNCHANGED <<thread_count, loops, poller, terminal, thread, stopping, failed>>

(* InitThreads                                                             *)
StartThread ==
    /\ owner = "threads"
    /\ \/ \E i \in 1 .. thread_count :
             /\ thread[i] = "none" /\ \A j \in 1 .. i - 1 : thread[j] # "none"
             /\ thread' = [thread EXCEPT ![i] = "running"]
             /\ UNCHANGED owner
       \/ /\ \A i \in 1 .. thread_count : thread[i] # "none"
          /\ owner' = "run"
          /\ UNCHANGED thread
    /\ UNCHANGED <<building, terminal, stopping, failed>>
-----------------------------------------------------------------------------
(* The owner's loop ends, the threads are joined in order, Run() returns,  *)
(* ~EventLoop deletes the loops.                                           *)

LeaveLoop ==
    /\ owner = "run" /\ is_terminal
    /\ owner' = "join"
    /\ UNCHANGED <<building, terminal, thread, stopping, failed>>

Bug_JoinFirst ==
    /\ owner = "join" /\ thread[1] = "exited"
    /\ owner' = "returned"
    /\ UNCHANGED <<building, terminal, thread, stopping, failed>>
Join ==
    /\ owner = "join"
    /\ \A i \in 1 .. thread_count : thread[i] = "exited"
    /\ owner' = "returned"
    /\ UNCHANGED <<building, terminal, thread, stopping, failed>>

Destroy ==
    /\ owner = "returned"
    /\ owner' = "deleted"
    /\ UNCHANGED <<building, terminal, thread, stopping, failed>>
-----------------------------------------------------------------------------
(* Terminal(), on another thread: the flag first, then every loop that the *)
(* walk over loops_ meets.                                                 *)

StopBegin ==
    /\ stop = "no" /\ owner # "deleted"
    /\ is_terminal' = TRUE
    /\ stop' = "marking" /\ end' = loops
    /\ early' = (owner = "setup" \/ loops < thread_count)
    /\ UNCHANGED <<owner, building, terminal, thread, mark, failed>>

Bug_StopSkipsLast ==
    /\ stop = "marking"
    /\ mark' = end /\ stop' = "done"
    /\ terminal' = [i \in Index |-> terminal[i] \/ i < end]
    /\ UNCHANGED <<owner, building, thread, is_terminal, end, early, failed>>
StopNext ==
    /\ stop = "marking"
    /\ \/ /\ mark < end
          /\ mark' = mark + 1
          /\ \/ terminal' = [terminal EXCEPT ![mark + 1] = TRUE]
             \/ loops # end /\ UNCHANGED terminal
          /\ UNCHANGED stop
       \/ /\ mark = end
          /\ stop' = "done"
          /\ UNCHANGED <<mark, terminal>>
    /\ UNCHANGED <<owner, building, thread, is_terminal, end, early, failed>>
-----------------------------------------------------------------------------
(* IoLoop::Loop of thread i returns when terminal_ is set; OnError of a    *)
(* TcpClient stops its own loop, of a TcpAcceptor all of them.             *)

ThreadExit(i) ==
    /\ thread[i] = "running" /\ terminal[i]
    /\ thread' = [thread EXCEPT ![i] = "exited"]
    /\ UNCHANGED <<owner, building, terminal, stopping, failed>>

HandlerFails(h) ==
    /\ placed[h] \in Index /\ thread[placed[h]] = "running"
    /\ terminal' = [i \in Index |->
                      terminal[i] \/ (IF h \in Acceptors THEN i <= loops ELSE i = placed[h])]
    /\ failed' = TRUE
    /\ UNCHANGED <<owner, building, thread, stopping>>
-----------------------------------------------------------------------------
Owner ==
    \/ Run \/ NewLoop \/ PlaceHandlers \/ StartThread \/ LeaveLoop \/ Join \/ Destroy

RunNext ==
    \/ Owner
    \/ \E n \in Index : SetThreadCount(n)
    \/ \E h \in Handlers : AddHandler(h) \/ HandlerFails(h)
    \/ StopBegin \/ StopNext
    \/ \E i \in Index : ThreadExit(i)

RunSpec == RunInit /\ [][RunNext]_run_vars

(* The threads run, and a call of Terminal() that has begun goes on.       *)
FairRunSpec ==
    /\ RunSpec
    /\ WF_run_vars(Owner) /\ WF_run_vars(StopNext)
    /\ \A i \in Index : WF_run_vars(ThreadExit(i))
-----------------------------------------------------------------------------
(* ~EventLoop never deletes a loop that somebody still uses: its thread    *)
(* has returned, and the walk of Terminal() is past it, unless a failing   *)
(* handler stopped the loops behind Terminal()'s back.                     *)
DeletedLoopsAreUnused ==
    owner = "deleted" =>
        /\ \A i \in 1 .. loops : thread[i] = "exited"
        /\ stop = "marking" /\ ~failed => mark = end

(* A finished Terminal() has stopped every loop unless it was called       *)
(* before InitEventLoop had built them all: the only way to leave Run()    *)
(* waiting in join() for ever.                                             *)
NoLoopForgotten ==
    stop = "done" /\ ~early => \A i \in 1 .. thread_count : terminal[i]

(* A Terminal() called once the loops exist makes Run() return.            *)
TerminalEndsRun ==
    (stop # "no" /\ ~early) ~> owner = "deleted"

(* event_loop.h on the constructor's argument: "default using epoll or     *)
(* kequeue; if your want to use poll, please set this number small than    *)
(* 128".  A loop polls with poll(2) only if the number is below 128.       *)
PollOnlyIfAskedFor ==
    \A i \in 1 .. loops : poller[i] = "poll" => ExpectedSize < 128
=============================================================================
