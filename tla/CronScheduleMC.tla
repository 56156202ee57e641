--------------------------- MODULE CronScheduleMC ---------------------------
(* A small calendar for TLC: hours of 2 minutes, days of 3 hours, months   *)
(* of 5 or 6 days, and a zone whose clock skips an hour and later repeats  *)
(* one.                                                                    *)
EXTENDS CronSchedule

Forward == 22        \* the minute at which the clock is put forward
Back == 65           \* the minute at which it is put back

ZoneOffset ==
  [t \in 0..Last |-> IF Forward <= t /\ t < Back THEN 5 ELSE 3]

(* Months 1 and 3 have 5 days, month 2 has 6, the last one of which is     *)
(* missing in the second year.                                             *)
MonthDays == <<5, 6, 5, 5, 5, 5, 5, 6, 5, 5, 5>>
DaysBefore[i \in 1..12] ==
  IF i = 1 THEN 0 ELSE DaysBefore[i - 1] + MonthDays[i - 1]

SmallCivil ==
  [d \in 0..((Last + 12) \div 6) |->
    LET i == CHOOSE i \in 1..11 :
               DaysBefore[i] <= d /\ d < DaysBefore[i] + MonthDays[i]
    IN [month |-> ((i - 1) % 3) + 1, day |-> d - DaysBefore[i] + 1]]

From(low, high, step) == [low |-> low, high |-> high, step |-> step]
Any(low, high) == {From(low, high, 1)}
Just(n) == {From(n, n, 1)}

Cron(minute, hour, month_day, month, week_day) ==
  [kind |-> "cron",
   cron |-> [minute |-> minute, hour |-> hour, month_day |-> month_day,
             month |-> month, week_day |-> week_day]]

CronRequests ==
  {Cron(Just(1), Just(1), md, mo, wd) :
     md \in {Any(1, 6), Just(2), {From(1, 6, 3)}, Just(6)},
     mo \in {Any(1, 3), Just(2)},
     wd \in {Any(0, 6), Any(1, 7), Just(7), {From(0, 6, 4), From(3, 3, 1)}}}
    \cup {Cron(Any(0, 1), {From(0, 2, 2)}, Any(1, 6), Any(1, 3), Just(0)),
          Cron(Just(0), Just(0), Just(6), Just(3), Any(0, 7)),
          Cron(Just(2), Just(0), Any(1, 6), Any(1, 3), Any(0, 7)),
          Cron(Just(0), Just(0), Any(0, 6), Any(1, 3), Any(0, 7))}

OnceRequests ==
  [kind : {"once"}, zoned : BOOLEAN, second : {0, 30},
   time : {10, 25, 26, 27, 30, 63, 68, 70, 74}]

SmallRequests ==
  [kind : {"daily"}, hour : 0..2, minute : 0..1]
    \cup [kind : {"weekly"}, hour : {0, 2}, minute : {1}, weekday : 0..6]
    \cup CronRequests \cup OnceRequests

=============================================================================
