----------------------------- MODULE MCEventLoop -----------------------------
(***************************************************************************)
(* What an EventLoop consists of: its threads, the poll(2) poller of one   *)
(* of them, and its timers.  They share no variable here, so each          *)
(* behaviour is one of a single part.                                      *)
(*                                                                         *)
(* Threads: up to three, with two acceptors and a client.                  *)
(*                                                                         *)
(* Poller: four handlers, enough for a removal in the middle, at the end   *)
(* and of a handler that was itself moved by an earlier removal.           *)
(*                                                                         *)
(* Timers: the queue is constructed, with any two sizes, and if they are   *)
(* SlotSize and Interval it is used: two timers on two slots of two        *)
(* milliseconds, over two circles.  A period within a frame that is asked  *)
(* for at once (a negative delay); one that drifts against the frames and, *)
(* asked for in a callback, falls into the slot being scanned; one longer  *)
(* than the circle of four.  Callbacks schedule and cancel both timers.    *)
(* The clock bounds how long a behaviour runs; it may jump either way.     *)
(***************************************************************************)
EXTENDS EventLoop, PollPoller, TimerQueue

CONSTANTS Width, MaxSize

VARIABLES part, setup, slot_size, interval, interval_exponent, loop

setup_vars == <<setup, slot_size, interval, interval_exponent, loop>>

Setup == INSTANCE TimerWheelSetup WITH pc <- setup, i <- loop

Four == 1 .. 4
FdOf == [h \in Four |-> h + 10]
Descriptors == {h + 10 : h \in Four}
NoHandler == 0

WheelRequests == {<<1, -1>>, <<3, 0>>, <<5, 0>>}
WheelClock == {1, 7}

PartsInit ==
    /\ part \in {"threads", "poller", "timers"}
    /\ RunInit /\ PollInit /\ Init /\ Setup!Init

Threads == part = "threads" /\ UNCHANGED <<part, poll_vars, vars, setup_vars>>
Polling == part = "poller" /\ UNCHANGED <<part, run_vars, vars, setup_vars>>
Timers == part = "timers" /\ UNCHANGED <<part, run_vars, poll_vars>>

Constructs == Setup!Next /\ UNCHANGED vars
Uses ==
    /\ setup = "ready" /\ slot_size = SlotSize /\ interval = Interval
    /\ Next
    /\ UNCHANGED setup_vars

PartsNext ==
    \/ (Threads /\ RunNext) \/ (Polling /\ PollNext)
    \/ (Timers /\ Constructs) \/ (Timers /\ Uses)

(* The fairness of EventLoop and of TimerQueue.                            *)
PartsSpec ==
    /\ PartsInit /\ [][PartsNext]_<<part, run_vars, poll_vars, vars, setup_vars>>
    /\ WF_run_vars(Threads /\ Owner) /\ WF_run_vars(Threads /\ StopNext)
    /\ \A i \in Index : WF_run_vars(Threads /\ ThreadExit(i))
    /\ WF_vars(Timers /\ UpdateStep) /\ WF_vars(Timers /\ CallbackReturns)
-----------------------------------------------------------------------------
(* The masks and shifts of ScheduleTimer and Update are the remainder and  *)
(* the quotient that TimerQueue writes, for all sizes that are 2^n.  The   *)
(* sizes do not change once the queue is in use.                           *)
BitsAreArithmetic == last_update_time = 0 => Setup!BitsAreArithmetic
=============================================================================
