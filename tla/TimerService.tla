---------------------------- MODULE TimerService ----------------------------
(***************************************************************************)
(* What the timer queue promises the code that schedules timers on it.     *)
(***************************************************************************)
EXTENDS Integers

CONSTANTS Timer, Requests, Interval

VARIABLES
    deadline,   \* per timer <<next deadline, period>>, <<>> when not scheduled
    horizon,    \* the time up to which deadlines have been handled
    firing      \* whether a callback is running

vars == <<deadline, horizon, firing>>

Init == deadline = [t \in Timer |-> <<>>] /\ horizon = 0 /\ firing = FALSE

Schedule(t, ti, d) ==
    /\ deadline' = [deadline EXCEPT ![t] = <<horizon + ti + d, ti>>]
    /\ UNCHANGED <<horizon, firing>>

Cancel(t) ==
    /\ deadline[t] # <<>>
    /\ deadline' = [deadline EXCEPT ![t] = <<>>]
    /\ UNCHANGED <<horizon, firing>>

(* Only a scheduled timer whose deadline has been reached fires; its next  *)
(* deadline is one period on.                                              *)
Fire(t) ==
    /\ ~firing
    /\ deadline[t] # <<>>
    /\ deadline[t][1] <= horizon
    /\ deadline' = [deadline EXCEPT ![t][1] = @ + deadline[t][2]]
    /\ firing' = TRUE
    /\ UNCHANGED horizon

Return == firing /\ firing' = FALSE /\ UNCHANGED <<deadline, horizon>>

(* The start of time, and one frame further once nothing scheduled is due  *)
(* before the horizon.                                                     *)
Start == horizon = 0 /\ horizon' > 0 /\ UNCHANGED <<deadline, firing>>
Advance ==
    /\ ~firing
    /\ \A t \in Timer : deadline[t] # <<>> => deadline[t][1] >= horizon
    /\ horizon' = horizon + Interval
    /\ UNCHANGED <<deadline, firing>>

Next ==
    \/ \E t \in Timer, r \in Requests : Schedule(t, r[1], r[2])
    \/ \E t \in Timer : Cancel(t) \/ Fire(t)
    \/ Return \/ Start \/ Advance

Spec == Init /\ [][Next]_vars
=============================================================================
