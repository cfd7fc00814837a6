----------------------------- MODULE TimerQueue -----------------------------
(***************************************************************************)
(* green_turtle/net/timer_queue.*, net/timer.* and unordered_list.h: timers *)
(* on a hashed wheel, driven by EventLoop::Run on the main thread.          *)
(*                                                                         *)
(* Update runs user callbacks in the middle of a scan of a slot, and those *)
(* may schedule and cancel any timer, the running one and the ones the     *)
(* scan has yet to reach included.  So Update is modelled step by step,    *)
(* and ScheduleTimer and CancelTimer, which call nothing back, as single   *)
(* steps that may happen between two Updates or inside a callback.         *)
(*                                                                         *)
(* slot_size and interval_ are powers of two, so & slot_mask is % SlotSize *)
(* and >> interval_exponent_ is \div Interval.  Positions in a slot's list *)
(* count from 1.  Times are 64-bit milliseconds and do not wrap.           *)
(***************************************************************************)
EXTENDS Integers, Sequences

CONSTANTS
    Timer,      \* the timer objects
    Deleted,    \* deleted_, the mark of an erased position
    SlotSize,   \* slot_size
    Interval,   \* interval_
    Requests,   \* the <<timer_interval, time_delay>> that ScheduleTimer is called with
    Clock       \* the values of System::GetMilliSeconds() seen by Update

ASSUME DeletedAssumption == Deleted \notin Timer
ASSUME SlotAssumption == SlotSize \in Nat \ {0} /\ Interval \in Nat \ {0}
ASSUME ClockAssumption == Clock \subseteq Nat \ {0}

(* Callers ask for a positive period and a first deadline that is not in   *)
(* the past.  The code checks neither: a period of 0 keeps Update in its   *)
(* inner loop for ever, an overdue deadline is visited up to a circle late.*)
ASSUME RequestAssumption ==
    \A r \in Requests : r \in (Nat \ {0}) \X Int /\ r[1] + r[2] >= 0

Slots == 0 .. (SlotSize - 1)
CircleTime == SlotSize * Interval

VARIABLES
    list, free_list,                \* per slot: unordered_list::list_, free_list_
    armed,                          \* the timers with queue_ # NULL
    iter_slot, iter_pos,            \* Timer::iter_slot_, iter_pos_
    timer_interval, next_handle_time,
    last_update_time, current_slot,
    pc,                             \* where Update is; "idle" outside of it
    delta_time, scan, iter          \* Update's locals: delta_time, list_, iter

place == <<list, free_list, armed, iter_slot, iter_pos>>
wheel == <<last_update_time, current_slot>>
update == <<pc, delta_time, scan, iter>>
vars == <<place, timer_interval, next_handle_time, wheel, update>>
-----------------------------------------------------------------------------
(* unordered_list::erase and unordered_list::insert on the list l of a     *)
(* slot and its free list f.                                               *)
EraseList(l, p) == [l EXCEPT ![p] = Deleted]
EraseFree(f, p) == Append(f, p)

InsertPos(l, f) == IF f # <<>> THEN f[Len(f)] ELSE Len(l) + 1
InsertList(l, f, t) == IF f # <<>> THEN [l EXCEPT ![f[Len(f)]] = t] ELSE Append(l, t)
Bug_InsertKeepsFree(f) == f
InsertFree(f) == IF f # <<>> THEN SubSeq(f, 1, Len(f) - 1) ELSE f

(* The lists once CancelTimer(t) has run.                                  *)
CancelledList(t) ==
    IF t \in armed THEN [list EXCEPT ![iter_slot[t]] = EraseList(@, iter_pos[t])]
                   ELSE list
CancelledFree(t) ==
    IF t \in armed THEN [free_list EXCEPT ![iter_slot[t]] = EraseFree(@, iter_pos[t])]
                   ELSE free_list

Bug_ToSlotIgnoresInterval(ti, d) == (current_slot + ((d + CircleTime) \div Interval)) % SlotSize
ToSlot(ti, d) == (current_slot + ((d + CircleTime + ti) \div Interval)) % SlotSize

(* TimerQueue::ScheduleTimer, the cancellation it starts with included.    *)
DoSchedule(t, ti, d) ==
    LET s == ToSlot(ti, d)
        l == CancelledList(t)
        f == CancelledFree(t)
    IN  /\ list' = [l EXCEPT ![s] = InsertList(l[s], f[s], t)]
        /\ free_list' = [f EXCEPT ![s] = InsertFree(f[s])]
        /\ armed' = armed \cup {t}
        /\ iter_slot' = [iter_slot EXCEPT ![t] = s]
        /\ iter_pos' = [iter_pos EXCEPT ![t] = InsertPos(l[s], f[s])]
        /\ timer_interval' = [timer_interval EXCEPT ![t] = ti]
        /\ next_handle_time' = [next_handle_time EXCEPT ![t] = d + ti + last_update_time]

(* User code runs between two Updates and inside OnTimeOut.  EventLoop's   *)
(* constructor calls Update before anything can be scheduled.              *)
UserCode == pc \in {"idle", "callback"} /\ last_update_time # 0

Schedule(t, ti, d) ==
    /\ UserCode
    /\ DoSchedule(t, ti, d)
    /\ UNCHANGED <<wheel, update>>

(* CancelTimer, also what ~Timer does to a timer in the queue.             *)
Cancel(t) ==
    /\ UserCode
    /\ t \in armed
    /\ list' = CancelledList(t)
    /\ free_list' = CancelledFree(t)
    /\ armed' = armed \ {t}
    /\ UNCHANGED <<iter_slot, iter_pos, timer_interval, next_handle_time, wheel, update>>
-----------------------------------------------------------------------------
DeltaTime(c) == c + Interval

UpdateBegin(c) ==
    /\ pc = "idle"
    /\ last_update_time' = IF last_update_time = 0 THEN c ELSE last_update_time
    /\ delta_time' = DeltaTime(c)
    /\ pc' = "tick"
    /\ UNCHANGED <<place, timer_interval, next_handle_time, current_slot, scan, iter>>

NextSlot(s) == (s + 1) % SlotSize

(* The head of the while loop: one frame further.                          *)
Tick ==
    /\ pc = "tick" /\ last_update_time < delta_time
    /\ scan' = current_slot
    /\ current_slot' = NextSlot(current_slot)
    /\ last_update_time' = last_update_time + Interval
    /\ iter' = 1
    /\ pc' = "scan"
    /\ UNCHANGED <<place, timer_interval, next_handle_time, delta_time>>

UpdateEnd ==
    /\ pc = "tick" /\ last_update_time >= delta_time
    /\ pc' = "idle"
    /\ UNCHANGED <<place, timer_interval, next_handle_time, wheel, delta_time, scan, iter>>

(* unordered_list::for_each, which reads the size anew for every position. *)
Scanned == list[scan][iter]
ScanPosition == pc = "scan" /\ iter <= Len(list[scan])

ScanEnd ==
    /\ pc = "scan" /\ iter > Len(list[scan])
    /\ pc' = "tick"
    /\ UNCHANGED <<place, timer_interval, next_handle_time, wheel, delta_time, scan, iter>>

SkipDeleted ==
    /\ ScanPosition /\ Scanned = Deleted
    /\ iter' = iter + 1
    /\ UNCHANGED <<place, timer_interval, next_handle_time, wheel, pc, delta_time, scan>>

(* A slot also holds timers of later circles.                              *)
Bug_DueInAnyCircle(t) == TRUE
Due(t) == next_handle_time[t] <= last_update_time

(* Timer::HandleTimeOut up to the call of OnTimeOut.                       *)
Bug_NeverAdvanced(t) == next_handle_time[t]
AdvancedTime(t) == next_handle_time[t] + timer_interval[t]

Fire ==
    /\ ScanPosition /\ Scanned # Deleted /\ Due(Scanned)
    /\ next_handle_time' = [next_handle_time EXCEPT ![Scanned] = AdvancedTime(Scanned)]
    /\ pc' = "callback"
    /\ UNCHANGED <<place, timer_interval, wheel, delta_time, scan, iter>>

(* OnTimeOut returns; timer = list_.get(iter) looks at the position again. *)
CallbackReturns ==
    /\ pc = "callback"
    /\ pc' = "scan"
    /\ UNCHANGED <<place, timer_interval, next_handle_time, wheel, delta_time, scan, iter>>

(* The timer at this position is not due: schedule it for its deadline.    *)
Reschedule ==
    /\ ScanPosition /\ Scanned # Deleted /\ ~Due(Scanned)
    /\ LET ti == timer_interval[Scanned]
       IN  DoSchedule(Scanned, ti, next_handle_time[Scanned] - (ti + last_update_time))
    /\ iter' = iter + 1
    /\ UNCHANGED <<wheel, pc, delta_time, scan>>

UpdateStep == Tick \/ UpdateEnd \/ ScanEnd \/ SkipDeleted \/ Fire \/ Reschedule
-----------------------------------------------------------------------------
Init ==
    /\ list = [s \in Slots |-> <<>>] /\ free_list = [s \in Slots |-> <<>>]
    /\ armed = {}
    /\ iter_slot = [t \in Timer |-> 0] /\ iter_pos = [t \in Timer |-> 0]
    /\ timer_interval = [t \in Timer |-> 0] /\ next_handle_time = [t \in Timer |-> 0]
    /\ last_update_time = 0 /\ current_slot = 0
    /\ pc = "idle" /\ delta_time = 0 /\ scan = 0 /\ iter = 1

Next ==
    \/ \E t \in Timer, r \in Requests : Schedule(t, r[1], r[2])
    \/ \E t \in Timer : Cancel(t)
    \/ \E c \in Clock : UpdateBegin(c)
    \/ UpdateStep
    \/ CallbackReturns

Spec == Init /\ [][Next]_vars

(* Update runs on a thread of its own and OnTimeOut returns.               *)
FairSpec == Spec /\ WF_vars(UpdateStep) /\ WF_vars(CallbackReturns)
-----------------------------------------------------------------------------
(* Every field keeps its type; iter_slot_ of a timer in the queue is a     *)
(* slot, so CancelTimer's test slot < slot_size never fails.               *)
TypeOK ==
    /\ list \in [Slots -> Seq(Timer \cup {Deleted})]
    /\ free_list \in [Slots -> Seq(Nat \ {0})]
    /\ armed \subseteq Timer
    /\ iter_slot \in [Timer -> Slots] /\ iter_pos \in [Timer -> Nat]
    /\ timer_interval \in [Timer -> Nat] /\ next_handle_time \in [Timer -> Nat]
    /\ last_update_time \in Nat /\ current_slot \in Slots
    /\ pc \in {"idle", "tick", "scan", "callback"}
    /\ delta_time \in Nat /\ scan \in Slots /\ iter \in Nat \ {0}

(* The wheel and the timers agree, even in the middle of a scan whose      *)
(* callbacks reschedule and cancel: a timer in the queue sits at its       *)
(* iter_slot_ and iter_pos_ and nowhere else, no cancelled timer is left   *)
(* in a list, and the free list holds exactly the erased positions, each   *)
(* once.                                                                   *)
WheelConsistent ==
    /\ TypeOK
    /\ \A t \in armed : /\ iter_pos[t] \in DOMAIN list[iter_slot[t]]
                        /\ list[iter_slot[t]][iter_pos[t]] = t
    /\ \A s \in Slots : \A p \in DOMAIN list[s] :
          list[s][p] # Deleted =>
             /\ list[s][p] \in armed
             /\ iter_slot[list[s][p]] = s /\ iter_pos[list[s][p]] = p
    /\ \A s \in Slots :
          /\ \A i \in DOMAIN free_list[s] :
                /\ free_list[s][i] \in DOMAIN list[s]
                /\ list[s][free_list[s][i]] = Deleted
          /\ \A i, j \in DOMAIN free_list[s] : free_list[s][i] = free_list[s][j] => i = j
          /\ \A p \in DOMAIN list[s] :
                list[s][p] = Deleted => \E i \in DOMAIN free_list[s] : free_list[s][i] = p

(* The timer whose while loop Update is in.                                *)
InHand(t) == pc \in {"scan", "callback"} /\ iter_slot[t] = scan /\ iter_pos[t] = iter

(* Every waiting timer sits in the slot the wheel reaches in the frame of  *)
(* its deadline, whatever sequence of frames, reschedules and delays, also *)
(* longer than a circle, came before.                                      *)
SlotMatchesDeadline ==
    \A t \in armed : ~InHand(t) =>
        iter_slot[t] = (current_slot + ((next_handle_time[t] - last_update_time) \div Interval))
                          % SlotSize

(* No deadline is missed: every timer waits in the right slot, between two *)
(* Updates it is due in the wheel's current frame or later, and the wheel  *)
(* is ahead of the clock it was given.  A clock that jumps backwards       *)
(* changes nothing.                                                        *)
NoDeadlineMissed ==
    /\ SlotMatchesDeadline
    /\ pc = "idle" => /\ \A t \in armed : next_handle_time[t] >= last_update_time
                      /\ delta_time <= last_update_time

(* Seen from outside, the wheel is a timer service: it fires exactly the   *)
(* timers that are scheduled and due, never a cancelled one, and does not  *)
(* let its time pass a deadline that has not been handled.                 *)
Deadline == [t \in Timer |-> IF t \in armed THEN <<next_handle_time[t], timer_interval[t]>>
                                            ELSE <<>>]
Service == INSTANCE TimerService WITH
    deadline <- Deadline, horizon <- last_update_time,
    firing <- (pc = "callback")
ImplementsTimerService == Service!Spec

(* Update returns although callbacks reschedule and cancel timers, the     *)
(* ones of the slot being scanned included.                                *)
UpdateReturns == (pc # "idle") ~> (pc = "idle")
=============================================================================
