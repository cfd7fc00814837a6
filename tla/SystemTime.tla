----------------------------- MODULE SystemTime -----------------------------
(***************************************************************************)
(* System::GetSecondsDiffDays (green_turtle/system.h), with times in hours *)
(* and a zone that is one hour ahead in summer.  mktime(3) takes the tm    *)
(* for what its tm_isdst says, also where that does not hold at that hour. *)
(***************************************************************************)
EXTENDS Integers

CONSTANTS SummerBegins, SummerEnds

Hours == 24
isdst(s) == IF s \in SummerBegins .. SummerEnds - 1 THEN 1 ELSE 0
localtime(s) == [day |-> (s + isdst(s)) \div Hours, hour |-> (s + isdst(s)) % Hours,
                 isdst |-> isdst(s)]
mktime(tm) == tm.day * Hours + tm.hour - tm.isdst

(* Division of C: towards zero.                                            *)
Quotient(m, n) == IF m >= 0 THEN m \div n ELSE -((-m) \div n)

GetSecondsDiffDays(s1, s2) ==
    LET midnight(s) == mktime([localtime(s) EXCEPT !.hour = 0])
    IN  Quotient(midnight(s2) - midnight(s1), Hours)
=============================================================================
