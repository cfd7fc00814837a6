-------------------------- MODULE EventLoopProofs --------------------------
(***************************************************************************)
(* For every number of threads and every set of handlers: ~EventLoop never *)
(* deletes a loop in use, and a Terminal() that comes once the loops exist *)
(* stops each of them.  The invariant says who may have set terminal_: as  *)
(* long as no handler has failed, only the walk of Terminal().             *)
(***************************************************************************)
EXTENDS EventLoop, TLAPS

Counted ==
    /\ thread_count \in Index /\ loops \in 0 .. thread_count
    /\ end \in 0 .. loops /\ mark \in 0 .. end
    /\ terminal \in [Index -> BOOLEAN]
    /\ thread \in [Index -> {"none", "running", "exited"}]
    /\ stop \in {"no", "marking", "done"}

(* Loops are built between setup and threads; the threads run in between.  *)
Built ==
    /\ owner = "setup" => loops = 0
    /\ owner \notin {"setup", "init"} => loops = thread_count
    /\ owner \in {"setup", "init"} => \A i \in Index : thread[i] = "none"
    /\ owner \in {"returned", "deleted"} => \A i \in 1 .. thread_count : thread[i] = "exited"

Stopped ==
    /\ \A i \in Index : thread[i] = "exited" => terminal[i]
    /\ ~failed => \A i \in Index : terminal[i] => i <= mark

(* A walk that began once all loops were there meets all of them.          *)
Walk ==
    /\ stop # "no" /\ ~early =>
          /\ owner # "setup" /\ end = thread_count /\ loops = thread_count
          /\ \A i \in 1 .. mark : terminal[i]
    /\ stop = "done" => mark = end
    /\ stop = "no" => mark = 0

RunInv == Counted /\ Built /\ Stopped /\ Walk

(* The invariant holds of a new EventLoop.                                 *)
LEMMA InitHolds == RunInit => RunInv
<1> SUFFICES ASSUME RunInit PROVE RunInv
    OBVIOUS
<1>1. MaxThreads \in Nat \ {0} /\ 1 \in Index
    BY ThreadsAssumption DEF Index
<1>2. Counted
    BY <1>1 DEF RunInit, Counted
<1>3. Built /\ Stopped /\ Walk
    BY <1>1 DEF RunInit, Built, Stopped, Walk
<1> QED BY <1>2, <1>3 DEF RunInv

(* Steps that leave loops, terminal_ and Terminal() alone.                 *)
LEMMA OwnerKeeps ==
    ASSUME RunInv,
           Run \/ LeaveLoop \/ Join \/ Destroy \/ NewLoop \/ PlaceHandlers \/ StartThread
           \/ (\E n \in Index : SetThreadCount(n)) \/ (\E h \in Handlers : AddHandler(h))
    PROVE  RunInv'
<1>1. terminal' = terminal /\ stopping' = stopping /\ failed' = failed
    BY DEF Run, LeaveLoop, Join, Destroy, NewLoop, PlaceHandlers, StartThread,
           SetThreadCount, AddHandler
<1>2. /\ mark' = mark /\ end' = end /\ stop' = stop /\ early' = early
    BY <1>1 DEF stopping
<1>3. Index \subseteq Nat /\ MaxThreads \in Nat
    BY ThreadsAssumption DEF Index
<1>4. Counted'
    <2>1. thread_count' \in Index /\ loops' \in 0 .. thread_count' /\ loops <= loops'
        BY <1>3 DEF RunInv, Counted, Built, Run, LeaveLoop, Join, Destroy, NewLoop,
                    PlaceHandlers, StartThread, SetThreadCount, AddHandler, building
    <2>2. thread' \in [Index -> {"none", "running", "exited"}]
        BY DEF RunInv, Counted, Run, LeaveLoop, Join, Destroy, NewLoop,
               PlaceHandlers, StartThread, SetThreadCount, AddHandler
    <2>3. end' \in 0 .. loops' /\ mark' \in 0 .. end'
        BY <1>2, <1>3, <2>1 DEF RunInv, Counted
    <2> QED BY <1>1, <1>2, <2>1, <2>2, <2>3 DEF RunInv, Counted
<1>5. Built'
    BY <1>3 DEF RunInv, Counted, Built, Run, LeaveLoop, Join, Destroy, NewLoop,
                PlaceHandlers, StartThread, SetThreadCount, AddHandler, building, Index
<1>6. Stopped'
    <2>1. \A i \in Index : thread'[i] = "exited" => thread[i] = "exited"
        BY DEF RunInv, Counted, Run, LeaveLoop, Join, Destroy, NewLoop,
               PlaceHandlers, StartThread, SetThreadCount, AddHandler
    <2> QED BY <1>1, <1>2, <2>1 DEF RunInv, Stopped
<1>7. Walk'
    <2>1. /\ owner # "setup" => owner' # "setup" /\ thread_count' = thread_count
          /\ owner # "setup" /\ loops = thread_count => loops' = loops
        BY <1>3 DEF RunInv, Counted, Run, LeaveLoop, Join, Destroy, NewLoop,
               PlaceHandlers, StartThread, SetThreadCount, AddHandler, building
    <2> QED BY <1>1, <1>2, <2>1 DEF RunInv, Walk
<1> QED BY <1>4, <1>5, <1>6, <1>7 DEF RunInv

(* Terminal() begins.                                                      *)
LEMMA StopBeginKeeps == ASSUME RunInv, StopBegin PROVE RunInv'
<1>1. /\ owner' = owner /\ thread_count' = thread_count /\ loops' = loops /\ thread' = thread
      /\ terminal' = terminal /\ mark' = mark /\ failed' = failed
      /\ stop = "no" /\ stop' = "marking" /\ end' = loops
      /\ early' = (owner = "setup" \/ loops < thread_count)
    BY DEF StopBegin, building
<1>2. /\ thread_count \in Nat /\ loops \in Nat /\ loops <= thread_count
      /\ mark = 0 /\ mark \in 0 .. loops
    <2>1. mark = 0
        BY <1>1 DEF RunInv, Walk
    <2>2. thread_count \in 1 .. MaxThreads /\ loops \in 0 .. thread_count /\ MaxThreads \in Nat
        BY ThreadsAssumption DEF RunInv, Counted, Index
    <2> QED BY <2>1, <2>2
<1>3. Counted'
    BY <1>1, <1>2 DEF RunInv, Counted
<1>4. Built' /\ Stopped'
    BY <1>1 DEF RunInv, Built, Stopped
<1>5. ~early' => owner # "setup" /\ loops = thread_count
    <2>1. ~early' => ~(owner = "setup") /\ ~(loops < thread_count)
        BY <1>1, Zenon
    <2>2. ~(loops < thread_count) => loops = thread_count
        BY <1>2
    <2> QED BY <2>1, <2>2
<1>6. \A i \in 1 .. mark : FALSE
    BY <1>2
<1>7. Walk'
    BY <1>1, <1>5, <1>6 DEF Walk
<1> QED BY <1>3, <1>4, <1>7 DEF RunInv

(* Terminal() marks one loop, or may lose the mark, or is done.            *)
LEMMA StopNextKeeps == ASSUME RunInv, StopNext PROVE RunInv'
<1>1. /\ owner' = owner /\ thread_count' = thread_count /\ loops' = loops /\ thread' = thread
      /\ failed' = failed /\ end' = end /\ early' = early /\ stop = "marking"
    BY DEF StopNext, building
<1>2. /\ thread_count \in Nat /\ loops \in Nat /\ loops <= thread_count
      /\ end \in Nat /\ end <= loops /\ mark \in Nat /\ mark <= end
      /\ Index = 1 .. MaxThreads /\ MaxThreads \in Nat /\ thread_count <= MaxThreads
    BY ThreadsAssumption DEF RunInv, Counted, Index
<1>3. CASE mark = end /\ stop' = "done" /\ mark' = mark /\ terminal' = terminal
    <2>1. Counted' /\ Built' /\ Stopped'
        BY <1>1, <1>3 DEF RunInv, Counted, Built, Stopped
    <2>2. Walk'
        BY <1>1, <1>3 DEF RunInv, Walk
    <2> QED BY <2>1, <2>2 DEF RunInv
<1>4. CASE /\ mark < end /\ mark' = mark + 1 /\ stop' = stop
           /\ terminal' = [terminal EXCEPT ![mark + 1] = TRUE] \/ (loops # end /\ terminal' = terminal)
    <2>1. mark' \in 0 .. end /\ mark + 1 \in Index /\ \A i \in 1 .. mark' : i \in 1 .. mark \/ i = mark + 1
        BY <1>2, <1>4
    <2>2. terminal' \in [Index -> BOOLEAN]
        BY <1>4 DEF RunInv, Counted
    <2>3. \A i \in Index : terminal[i] => terminal'[i]
        BY <1>4 DEF RunInv, Counted
    <2>4. \A i \in Index : terminal'[i] => terminal[i] \/ i = mark + 1
        BY <1>4 DEF RunInv, Counted
    <2>5. Counted' /\ Built'
        BY <1>1, <1>4, <2>1, <2>2 DEF RunInv, Counted, Built
    <2>6. Stopped'
        <3>1. \A i \in Index : (i <= mark \/ i = mark + 1) => i <= mark'
            BY <1>2, <1>4
        <3> QED BY <1>1, <2>3, <2>4, <3>1 DEF RunInv, Stopped
    <2>7. Walk'
        <3>1. ASSUME ~early PROVE \A i \in 1 .. mark' : terminal'[i]
            <4>1. loops = end /\ \A i \in 1 .. mark : terminal[i]
                BY <1>1, <3>1 DEF RunInv, Walk
            <4>2. terminal' = [terminal EXCEPT ![mark + 1] = TRUE]
                BY <1>4, <4>1
            <4>3. terminal'[mark + 1] = TRUE
                BY <2>1, <4>2 DEF RunInv, Counted
            <4>4. \A i \in 1 .. mark : i \in Index
                BY <1>2
            <4> QED BY <2>1, <2>3, <4>1, <4>3, <4>4
        <3> QED BY <1>1, <1>4, <3>1 DEF RunInv, Walk
    <2> QED BY <2>5, <2>6, <2>7 DEF RunInv
<1> QED BY <1>3, <1>4 DEF StopNext

(* A thread returns.                                                       *)
LEMMA ThreadExitKeeps == ASSUME RunInv, NEW i \in Index, ThreadExit(i) PROVE RunInv'
<1>1. /\ owner' = owner /\ thread_count' = thread_count /\ loops' = loops
      /\ terminal' = terminal /\ failed' = failed /\ end' = end /\ early' = early
      /\ stop' = stop /\ mark' = mark
    BY DEF ThreadExit, building, stopping
<1>2. /\ thread[i] = "running" /\ terminal[i]
      /\ thread' = [thread EXCEPT ![i] = "exited"]
    BY DEF ThreadExit
<1>3. Counted' /\ Walk'
    BY <1>1, <1>2 DEF RunInv, Counted, Walk
<1>4. /\ thread'[i] = "exited"
      /\ \A j \in Index : j # i => thread'[j] = thread[j]
    BY <1>2 DEF RunInv, Counted
<1>5. Built'
    <2>1. owner \notin {"setup", "init"}
        BY <1>2 DEF RunInv, Built
    <2>2. \A j \in 1 .. thread_count : j \in Index
        BY ThreadsAssumption DEF RunInv, Counted, Index
    <2> QED BY <1>1, <1>4, <2>1, <2>2 DEF RunInv, Built
<1>6. Stopped'
    BY <1>1, <1>2, <1>4 DEF RunInv, Stopped
<1> QED BY <1>3, <1>5, <1>6 DEF RunInv

(* A handler fails.                                                        *)
LEMMA HandlerFailsKeeps == ASSUME RunInv, NEW h \in Handlers, HandlerFails(h) PROVE RunInv'
<1>1. /\ owner' = owner /\ thread_count' = thread_count /\ loops' = loops
      /\ thread' = thread /\ failed' = TRUE /\ end' = end /\ early' = early
      /\ stop' = stop /\ mark' = mark
    BY DEF HandlerFails, building, stopping
<1>2. terminal' \in [Index -> BOOLEAN] /\ \A i \in Index : terminal[i] => terminal'[i]
    BY DEF HandlerFails
<1>3. Counted' /\ Built'
    BY <1>1, <1>2 DEF RunInv, Counted, Built
<1>4. Stopped'
    BY <1>1, <1>2 DEF RunInv, Stopped
<1>5. \A i \in 1 .. mark : i \in Index
    BY ThreadsAssumption DEF RunInv, Counted, Index
<1>6. Walk'
    BY <1>1, <1>2, <1>5 DEF RunInv, Walk
<1> QED BY <1>3, <1>4, <1>6 DEF RunInv

(* The invariant of every behaviour.                                       *)
LEMMA AlwaysRunInv == RunSpec => []RunInv
<1>1. ASSUME RunInv, [RunNext]_run_vars PROVE RunInv'
    <2>1. CASE UNCHANGED run_vars
        BY <1>1, <2>1 DEF RunInv, Counted, Built, Stopped, Walk, run_vars, building, stopping
    <2> QED BY <1>1, <2>1, OwnerKeeps, StopBeginKeeps, StopNextKeeps, ThreadExitKeeps,
               HandlerFailsKeeps DEF RunNext, Owner
<1> QED BY <1>1, InitHolds, PTL DEF RunSpec
-----------------------------------------------------------------------------
(* ~EventLoop deletes loops whose threads have returned and which the walk *)
(* of Terminal() has left behind, unless a handler failed: a thread        *)
(* returns only on terminal_, and only the walk has set it.                *)
THEOREM NeverDeletedInUse == RunSpec => []DeletedLoopsAreUnused
<1>1. RunInv => DeletedLoopsAreUnused
    <2> SUFFICES ASSUME RunInv, owner = "deleted"
                 PROVE  /\ \A i \in 1 .. loops : thread[i] = "exited"
                        /\ stop = "marking" /\ ~failed => mark = end
        BY DEF DeletedLoopsAreUnused
    <2>1. loops = thread_count /\ \A i \in 1 .. thread_count : thread[i] = "exited"
        BY DEF RunInv, Built
    <2>2. /\ thread_count \in 1 .. MaxThreads /\ thread_count \in Index /\ MaxThreads \in Nat
          /\ end \in 0 .. thread_count /\ mark \in 0 .. end
        BY <2>1, ThreadsAssumption DEF RunInv, Counted, Index
    <2>3. thread[thread_count] = "exited"
        BY <2>1, <2>2
    <2>4. ~failed => thread_count <= mark
        BY <2>2, <2>3 DEF RunInv, Stopped
    <2>5. thread_count <= mark => mark = end
        BY <2>2
    <2> QED BY <2>1, <2>4, <2>5
<1> QED BY <1>1, AlwaysRunInv, PTL

(* A finished Terminal() has stopped every loop unless it was called       *)
(* before InitEventLoop had built them all.                                *)
THEOREM TerminalStopsAll == RunSpec => []NoLoopForgotten
<1>1. RunInv => NoLoopForgotten
    BY DEF RunInv, Walk, NoLoopForgotten
<1> QED BY <1>1, AlwaysRunInv, PTL
=============================================================================
