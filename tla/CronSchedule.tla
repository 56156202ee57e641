---------------------------- MODULE CronSchedule ----------------------------
(***************************************************************************)
(* When a job is due: schedule.py, the schedule conversions of             *)
(* cronjobs/repository.py, and the chain of due pointers that the Studio   *)
(* starts and the scanner continues, each pointer being the next           *)
(* occurrence after the one before.                                        *)
(*                                                                         *)
(* Time is the UTC minute.  The zone's offsets and the civil calendar are  *)
(* constants (zoneinfo and datetime), and so are the lengths the code      *)
(* writes as 60, 24, 31 and 12, so that TLC can use a small calendar.      *)
(* A schedule exists in two forms: the one of the API (Sunday = 0, one     *)
(* weekday, a local time without offset), which the user sends and every   *)
(* later edit passes through again, and the stored one (Monday = 0, a set  *)
(* of weekdays, a UTC time), which the scanner evaluates.                  *)
(***************************************************************************)

EXTENDS Integers, FiniteSets

CONSTANTS
  Last,            \* the last minute of the time line
  Offset,          \* zoneinfo: the zone's UTC offset at each UTC minute
  Civil,           \* datetime: month and day of month of each local day
  FirstWeekday,    \* datetime: the weekday of local day 0, Monday = 0
  HourMinutes,     \* 60
  DayHours,        \* 24
  MaxDay,          \* 31
  MaxMonth,        \* 12
  Requested,       \* schedules in the form of the API
  Starts,          \* minutes in which a job may be created
  SearchLimit,     \* two years of minutes
  CronLimit,       \* _SEARCH_LIMIT_MINUTES, five years
  Horizon,         \* scans and edits happen up to this minute
  MaxEdits         \* bound on the edits of the job

Minutes == 0..Last
DayMinutes == HourMinutes * DayHours
LocalDays == 0..((Last + 2 * DayMinutes) \div DayMinutes)

(* A cron field is a set of ranges with a step: "*" is the whole range,    *)
(* "n" is n-n, and "n/s" is n alone, as _parse_field has it.               *)
Ranges == [low : Nat, high : Nat, step : Nat]
CronFields == [minute : SUBSET Ranges, hour : SUBSET Ranges,
               month_day : SUBSET Ranges, month : SUBSET Ranges,
               week_day : SUBSET Ranges]

Hours == 0..(DayHours - 1)
HourMinute == 0..(HourMinutes - 1)
Weekdays == 0..6

(* schemas.py: once_at carries an offset (zoned) or not, and may have      *)
(* seconds.                                                                *)
ApiSchedules ==
  [kind : {"once"}, zoned : BOOLEAN, time : Nat, second : 0..59]
    \cup [kind : {"daily"}, hour : Hours, minute : HourMinute]
    \cup [kind : {"weekly"}, hour : Hours, minute : HourMinute,
          weekday : Weekdays]
    \cup [kind : {"cron"}, cron : CronFields]

(* models.py Schedule.                                                     *)
Schedules ==
  [kind : {"once"}, run_at : Minutes, second : 0..59]
    \cup [kind : {"daily"}, hour : Hours, minute : HourMinute]
    \cup [kind : {"weekly"}, hour : Hours, minute : HourMinute,
          weekdays : SUBSET Weekdays]
    \cup [kind : {"cron"}, cron : CronFields]

ASSUME CalendarAssumption ==
  /\ Last \in Nat /\ HourMinutes \in Nat \ {0} /\ DayHours \in Nat \ {0}
  /\ MaxDay \in Nat \ {0} /\ MaxMonth \in Nat \ {0}
  /\ FirstWeekday \in Weekdays
  /\ Offset \in [Minutes -> 0..DayMinutes]
  /\ Civil \in [LocalDays -> [month : 1..MaxMonth, day : 1..MaxDay]]

ASSUME BoundAssumption ==
  /\ SearchLimit \in Nat \ {0} /\ CronLimit \in Nat /\ CronLimit >= SearchLimit
  /\ Horizon \in Nat /\ Horizon + CronLimit <= Last
  /\ Starts \subseteq 0..Horizon /\ MaxEdits \in Nat

(* zoneinfo: within two years every zone keeps its offset for a whole week. *)
SteadyWeek(b) == \A u \in b..b + 7 * DayMinutes - 1 : Offset[u] = Offset[b]

ASSUME ZoneAssumption ==
  \A t \in 0..Horizon :
    \E b \in t + 1..t + SearchLimit :
      b + 7 * DayMinutes - 1 <= t + SearchLimit /\ SteadyWeek(b)

VARIABLES
  asked,       \* history: the schedule as the user asked for it
  start,       \* history: the minute in which the job was created
  schedule,    \* the stored schedule
  pc,          \* "next" | "search" | "due" | "none" | "failed" | "rejected"
  after,       \* next_scheduled_time's argument, floored to the minute
  candidate,   \* the minute the search tries; once due, the pointer's minute
  fired,       \* history: the minutes of the pointers that were scanned
  edits        \* edits so far

vars == <<asked, start, schedule, pc, after, candidate, fired, edits>>

(***************************************************************************)
(* The clock on the wall                                                   *)
(***************************************************************************)

Local(t) == t + Offset[t]
DayOf(l) == l \div DayMinutes
HourOf(l) == (l \div HourMinutes) % DayHours
MinuteOf(l) == l % HourMinutes
Weekday(l) == (FirstWeekday + DayOf(l)) % 7        \* datetime.weekday()

(* datetime.replace(tzinfo=...) with fold 0: the first minute that shows   *)
(* l; a time skipped by the clock is read with the offset before the skip. *)
Showing(l) == {t \in Minutes : Local(t) = l}
BeforeGap(l) == {t \in Minutes : Local(t) < l /\ t < Last /\ Local(t + 1) > l}
Earliest(S) == CHOOSE t \in S : \A u \in S : t <= u
UtcOf(l) == IF Showing(l) # {} THEN Earliest(Showing(l))
            ELSE l - Offset[Earliest(BeforeGap(l))]

(* What is asked for lies on the time line.                                *)
ASSUME RequestAssumption ==
  /\ Requested \subseteq ApiSchedules
  /\ \A a \in Requested : a.kind = "once" =>
       IF a.zoned THEN a.time \in Minutes ELSE UtcOf(a.time) \in Minutes

(***************************************************************************)
(* cronjobs/repository.py: between the API's form and the stored one       *)
(***************************************************************************)

(* Mutants: the weekday is shifted without wrapping, or not at all.        *)
StoredWeekdayUnwrapped(w) == w + 6
ApiWeekdayUnshifted(w) == w

StoredWeekday(w) == (w + 6) % 7
ApiWeekday(w) == (w + 1) % 7

(* _scheduler_schedule.                                                    *)
ToScheduler(a) ==
  CASE a.kind = "once" ->
         [kind |-> "once", second |-> a.second,
          run_at |-> IF a.zoned THEN a.time ELSE UtcOf(a.time)]
    [] a.kind = "weekly" ->
         [kind |-> "weekly", hour |-> a.hour, minute |-> a.minute,
          weekdays |-> {StoredWeekday(a.weekday)}]
    [] OTHER -> a

(* _api_schedule: only the first weekday survives, and once_at is written  *)
(* as local hours and minutes, without seconds and without the offset.     *)
ToApi(s) ==
  CASE s.kind = "once" ->
         [kind |-> "once", zoned |-> FALSE, second |-> 0,
          time |-> Local(s.run_at)]
    [] s.kind = "weekly" ->
         [kind |-> "weekly", hour |-> s.hour, minute |-> s.minute,
          weekday |-> ApiWeekday(Earliest(s.weekdays))]
    [] OTHER -> s

(***************************************************************************)
(* schedule.py                                                             *)
(***************************************************************************)

ValidField(field, minimum, maximum) ==
  \A p \in field : p.step >= 1 /\ p.low >= minimum /\ p.high <= maximum
                   /\ p.low <= p.high

ParseField(field) ==
  UNION {{v \in p.low..p.high : (v - p.low) % p.step = 0} : p \in field}

(* _parse_cron raises unless every field is within its range.              *)
ValidCron(cron) ==
  /\ ValidField(cron.minute, 0, HourMinutes - 1)
  /\ ValidField(cron.hour, 0, DayHours - 1)
  /\ ValidField(cron.month_day, 1, MaxDay)
  /\ ValidField(cron.month, 1, MaxMonth)
  /\ ValidField(cron.week_day, 0, 7)

WeekdaySet(field) ==
  LET days == ParseField(field) IN
  IF 7 \in days THEN (days \ {7}) \cup {0} ELSE days

(* Mutants: the two day fields always combine by AND; the minute of the    *)
(* hour is not compared.                                                   *)
CalendarDayByAnd(cron, l) ==
  /\ Civil[DayOf(l)].day \in ParseField(cron.month_day)
  /\ (Weekday(l) + 1) % 7 \in WeekdaySet(cron.week_day)
AtHour(s, l) == HourOf(l) = s.hour

CalendarDay(cron, l) ==
  LET month_day == ParseField(cron.month_day)
      week_day == WeekdaySet(cron.week_day)
      day_matches == Civil[DayOf(l)].day \in month_day
      weekday_matches == (Weekday(l) + 1) % 7 \in week_day
  IN IF Cardinality(month_day) # MaxDay /\ Cardinality(week_day) # 7
     THEN day_matches \/ weekday_matches
     ELSE day_matches /\ weekday_matches

CronMatches(cron, l) ==
  /\ MinuteOf(l) \in ParseField(cron.minute)
  /\ HourOf(l) \in ParseField(cron.hour)
  /\ Civil[DayOf(l)].month \in ParseField(cron.month)
  /\ CalendarDay(cron, l)

AtTime(s, l) == HourOf(l) = s.hour /\ MinuteOf(l) = s.minute

(* What one round of the search tests.                                     *)
Matches(s, t) ==
  \/ s.kind = "daily" /\ AtTime(s, Local(t))
  \/ s.kind = "weekly" /\ AtTime(s, Local(t)) /\ Weekday(Local(t)) \in s.weekdays
  \/ s.kind = "cron" /\ CronMatches(s.cron, Local(t))

Limit(s) == IF s.kind = "cron" THEN CronLimit ELSE SearchLimit

(***************************************************************************)
(* The job and its chain of due pointers                                   *)
(***************************************************************************)

(* create: the request is converted and the search starts at the current   *)
(* minute.                                                                 *)
Init ==
  /\ asked \in Requested
  /\ start \in Starts
  /\ schedule = ToScheduler(asked)
  /\ pc = "next"
  /\ after = start
  /\ candidate = start
  /\ fired = {}
  /\ edits = 0

(* A once schedule needs no search.  run_at keeps its seconds, after does  *)
(* not.                                                                    *)
NextOnce ==
  /\ pc = "next"
  /\ schedule.kind = "once"
  /\ IF schedule.run_at > after \/ (schedule.run_at = after /\ schedule.second > 0)
     THEN pc' = "due" /\ candidate' = schedule.run_at
     ELSE pc' = "none" /\ UNCHANGED candidate
  /\ UNCHANGED <<asked, start, schedule, after, fired, edits>>

BeginSearch ==
  /\ pc = "next"
  /\ schedule.kind # "once"
  /\ schedule.kind = "cron" => ValidCron(schedule.cron)
  /\ pc' = "search"
  /\ candidate' = after + 1
  /\ UNCHANGED <<asked, start, schedule, after, fired, edits>>

(* _parse_cron raises, and the job is not saved.                           *)
RejectCron ==
  /\ pc = "next"
  /\ schedule.kind = "cron"
  /\ ~ValidCron(schedule.cron)
  /\ pc' = "rejected"
  /\ UNCHANGED <<asked, start, schedule, after, candidate, fired, edits>>

(* One round of the loops of _search and next_scheduled_time.              *)
SearchRound ==
  /\ pc = "search"
  /\ candidate <= after + Limit(schedule)
  /\ IF Matches(schedule, candidate)
     THEN pc' = "due" /\ UNCHANGED candidate
     ELSE candidate' = candidate + 1 /\ UNCHANGED pc
  /\ UNCHANGED <<asked, start, schedule, after, fired, edits>>

(* The loop ends without a return: ValueError.                             *)
SearchFails ==
  /\ pc = "search"
  /\ candidate > after + Limit(schedule)
  /\ pc' = "failed"
  /\ UNCHANGED <<asked, start, schedule, after, candidate, fired, edits>>

(* _enqueue of the pointer: the scanner publishes the next occurrence      *)
(* after the pointer's minute.                                             *)
Scan ==
  /\ pc = "due"
  /\ candidate <= Horizon
  /\ fired' = fired \cup {candidate}
  /\ after' = candidate
  /\ pc' = "next"
  /\ UNCHANGED <<asked, start, schedule, candidate, edits>>

(* CronjobService.update of anything else than the schedule, in minute n   *)
(* before the pointer is due: the job is read in the API's form, saved     *)
(* again, and the next occurrence after n is published; the old pointer is *)
(* stale.                                                                  *)
Edit ==
  /\ pc = "due"
  /\ edits < MaxEdits
  /\ \E n \in after..(candidate - 1) : n <= Horizon /\ after' = n
  /\ edits' = edits + 1
  /\ schedule' = ToScheduler(ToApi(schedule))
  /\ pc' = "next"
  /\ UNCHANGED <<asked, start, candidate, fired>>

Next ==
  \/ NextOnce \/ BeginSearch \/ RejectCron \/ SearchRound \/ SearchFails
  \/ Scan \/ Edit

Spec == Init /\ [][Next]_vars

(***************************************************************************)
(* What the user asked for, without reference to the code: names of days   *)
(* instead of numbers, ranges instead of expanded sets.                    *)
(***************************************************************************)

MondayFirst == <<"Mon", "Tue", "Wed", "Thu", "Fri", "Sat", "Sun">>
SundayFirst == <<"Sun", "Mon", "Tue", "Wed", "Thu", "Fri", "Sat", "Sun">>

DayName(l) == MondayFirst[Weekday(l) + 1]

Allows(field, v) ==
  \E p \in field : p.low <= v /\ v <= p.high /\ (v - p.low) % p.step = 0

AllowsDayNamed(field, name) ==
  \E v \in 0..7 : SundayFirst[v + 1] = name /\ Allows(field, v)

(* crontab's rule: when both day fields leave out some day, either of them *)
(* is enough.                                                              *)
CronDayAsked(cron, l) ==
  LET day == Allows(cron.month_day, Civil[DayOf(l)].day)
      weekday == AllowsDayNamed(cron.week_day, DayName(l))
      dayRestricted == \E v \in 1..MaxDay : ~Allows(cron.month_day, v)
      weekdayRestricted ==
        \E i \in 1..7 : ~AllowsDayNamed(cron.week_day, MondayFirst[i])
  IN IF dayRestricted /\ weekdayRestricted THEN day \/ weekday
                                           ELSE day /\ weekday

Occurs(a, t) ==
  LET l == Local(t) IN
  \/ a.kind = "once" /\ IF a.zoned THEN t = a.time
                        ELSE l = a.time /\ \A u \in Showing(l) : t <= u
  \/ a.kind = "daily" /\ HourOf(l) = a.hour /\ MinuteOf(l) = a.minute
  \/ a.kind = "weekly" /\ HourOf(l) = a.hour /\ MinuteOf(l) = a.minute
     /\ DayName(l) = SundayFirst[a.weekday + 1]
  \/ a.kind = "cron"
     /\ Allows(a.cron.minute, MinuteOf(l)) /\ Allows(a.cron.hour, HourOf(l))
     /\ Allows(a.cron.month, Civil[DayOf(l)].month) /\ CronDayAsked(a.cron, l)

(* An occurrence counts from the creation on; one with seconds may fall in *)
(* the minute of the creation itself.                                      *)
Wanted(t) ==
  /\ Occurs(asked, t)
  /\ t > start \/ (t = start /\ asked.kind = "once" /\ asked.second > 0)

(* Not a wall clock time that the zone skips, and not an instant in the    *)
(* second pass of a repeated hour, which the API's form cannot express.    *)
Expressible(a) ==
  a.kind = "once" =>
    IF a.zoned THEN a.time = Earliest(Showing(Local(a.time)))
               ELSE Showing(a.time) # {}

(***************************************************************************)
(* Properties                                                              *)
(***************************************************************************)

(* Every variable has its type; the conversions yield what Schedule's own  *)
(* validation accepts, and the search stays within the time line.          *)
TypeOK ==
  /\ asked \in Requested /\ start \in Starts
  /\ schedule \in Schedules
  /\ pc \in {"next", "search", "due", "none", "failed", "rejected"}
  /\ after \in 0..Horizon
  /\ candidate \in Nat
  /\ pc = "search" => candidate \in after + 1..after + Limit(schedule) + 1
  /\ fired \subseteq 0..Horizon
  /\ edits \in 0..MaxEdits

(* The pointers that were scanned, and the one that is due, are exactly    *)
(* the occurrences the user asked for: none skipped, none added, whatever  *)
(* the zone does with its clock and however often the job is edited in     *)
(* between.  A chain ends only after the last occurrence.                  *)
FiredExactly ==
  Expressible(asked) =>
    /\ pc = "due" =>
         fired \cup {candidate} = {t \in Minutes : t <= candidate /\ Wanted(t)}
    /\ pc = "none" => fired = {t \in Minutes : Wanted(t)}

(* A daily job runs exactly once on every day on which the clock shows     *)
(* each minute once, and so does a weekly job on the days of its name.     *)
OncePerOrdinaryDay ==
  pc = "due" /\ asked.kind \in {"daily", "weekly"} =>
    \A d \in LocalDays :
      LET shown == {t \in Minutes : DayOf(Local(t)) = d} IN
      /\ shown # {} /\ shown \subseteq start + 1..candidate
      /\ {Local(t) : t \in shown} = d * DayMinutes..(d + 1) * DayMinutes - 1
      /\ Cardinality(shown) = DayMinutes
      => Cardinality((fired \cup {candidate}) \cap shown) =
           IF asked.kind = "daily"
             \/ DayName(d * DayMinutes) = SundayFirst[asked.weekday + 1]
           THEN 1 ELSE 0

(* The search gives up only on a cron expression, and only when it has no  *)
(* occurrence within the limit: the loop of _search always returns.        *)
OnlyImpossibleCronFails ==
  pc = "failed" =>
    /\ asked.kind = "cron"
    /\ \A t \in after + 1..after + CronLimit : ~Occurs(asked, t)

=============================================================================
