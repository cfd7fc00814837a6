------------------------------ MODULE LogHeader ------------------------------
(***************************************************************************)
(* The time stamp of a log line (Logger::GenerateLogHeader) on one thread. *)
(* The milliseconds come from gettimeofday(2) and the seconds from a later *)
(* time(2), whose clock may lag behind; the text of the seconds is kept in *)
(* thread-local variables and made anew only for a later second.           *)
(***************************************************************************)
EXTENDS Integers

CONSTANTS
    Second,       \* milliseconds in a second
    Lag,          \* how far time(2) may be behind gettimeofday(2), less than a second
    MaxClock      \* bound: milliseconds

VARIABLES
    clock,
    set_back,     \* whether the clock has been set back
    t_time,       \* the second that t_time_str shows
    header,       \* the call under way: when it began, its milliseconds if read
    stamp         \* the last stamp: second, milliseconds; when its call began and ended

header_vars == <<clock, set_back, t_time, header, stamp>>

None == [at |-> "none"]

Init ==
    /\ clock = 2 * Second /\ set_back = FALSE
    /\ t_time = 0
    /\ header = None
    /\ stamp = [second |-> 1, ms |-> 0, begun |-> clock, ended |-> clock]

Advance ==
    /\ clock < MaxClock
    /\ clock' = clock + 1
    /\ UNCHANGED <<set_back, t_time, header, stamp>>
SetBack(t) ==
    /\ t \in 2 * Second .. clock - 1
    /\ clock' = t /\ set_back' = TRUE
    /\ UNCHANGED <<t_time, header, stamp>>

Begin ==
    /\ header = None
    /\ header' = [at |-> "begun", begun |-> clock]
    /\ UNCHANGED <<clock, set_back, t_time, stamp>>

GetCurrentTime ==
    /\ header.at = "begun"
    /\ header' = [at |-> "read", begun |-> header.begun, ms |-> clock % Second]
    /\ UNCHANGED <<clock, set_back, t_time, stamp>>

(* t_time after time(2) gave this second.                                  *)
Bug_NeverRefreshed(second) == IF t_time = 0 THEN second ELSE t_time
Refreshed(second) == IF second > t_time THEN second ELSE t_time

(* GetSeconds and the rest of the header.                                  *)
GenerateLogHeader(lag) ==
    /\ header.at = "read"
    /\ t_time' = Refreshed((clock - lag) \div Second)
    /\ stamp' = [second |-> t_time', ms |-> header.ms, begun |-> header.begun, ended |-> clock]
    /\ header' = None
    /\ UNCHANGED <<clock, set_back>>

Next ==
    \/ Advance \/ (\E t \in 2 * Second .. MaxClock : SetBack(t))
    \/ Begin \/ GetCurrentTime \/ (\E lag \in 0 .. Lag : GenerateLogHeader(lag))

Spec == Init /\ [][Next]_header_vars
-----------------------------------------------------------------------------
(* While the clock is not set back, a stamp is less than a second after    *)
(* the call that made it and at most a second before it, although its two  *)
(* halves are read at different times and its text is cached.  It may be   *)
(* a second off: 1.999 read as 2.999 or as 0.999.                          *)
StampNearClock ==
    ~set_back =>
        LET shown == stamp.second * Second + stamp.ms
        IN  stamp.begun - Second <= shown /\ shown < stamp.ended + Second

(* Every line of a thread shows the clock, and its seconds never go back,  *)
(* even if the clock is set back; the milliseconds do.                     *)
LineFollowsClock == StampNearClock' /\ stamp'.second >= stamp.second
=============================================================================
