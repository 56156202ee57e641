------------------------- MODULE CronScheduleProofs -------------------------
(***************************************************************************)
(* The chain of due pointers is the schedule the user asked for: for every *)
(* zone and calendar, every requested schedule, every creation minute and  *)
(* every number of edits, under the assumptions on the constants only.     *)
(***************************************************************************)

EXTENDS CronSchedule, FiniteSetTheorems, WellFoundedInduction, TLAPS

(***************************************************************************)
(* Least elements                                                          *)
(***************************************************************************)

LEMMA LessThanIsWellFounded ==
  \E R : IsWellFoundedOn(R, Nat) /\ \A x, y \in Nat : <<y, x>> \in R <=> y < x
<1>1. \A x, y \in Nat : <<y, x>> \in OpToRel(<, Nat) <=> y < x
  BY DEF OpToRel
<1> QED BY <1>1, NatLessThanWellFounded, Zenon

LEMMA LeastExists ==
  ASSUME NEW S \in SUBSET Nat, S # {}
  PROVE  \E m \in S : \A k \in S : m <= k
<1>1. PICK R : IsWellFoundedOn(R, Nat)
               /\ \A x, y \in Nat : <<y, x>> \in R <=> y < x
  BY LessThanIsWellFounded
<1>2. PICK x \in S : \A y \in S : ~(<<y, x>> \in R)
  BY <1>1, WFMin
<1>3. ASSUME NEW k \in S PROVE x <= k
  <2>1. x \in Nat /\ k \in Nat OBVIOUS
  <2>2. ~(k < x) BY <1>1, <1>2, <2>1, Zenon
  <2> QED BY <2>1, <2>2
<1> QED BY <1>3

LEMMA EarliestIsLeast ==
  ASSUME NEW S \in SUBSET Nat, S # {}
  PROVE  Earliest(S) \in S /\ \A u \in S : Earliest(S) <= u
BY LeastExists DEF Earliest

LEMMA EarliestOfOne == ASSUME NEW x \in Nat PROVE Earliest({x}) = x
BY EarliestIsLeast

(***************************************************************************)
(* The wall clock                                                          *)
(***************************************************************************)

LEMMA LocalType == ASSUME NEW t \in Minutes PROVE Local(t) \in Nat
BY CalendarAssumption DEF Minutes, Local, DayMinutes

LEMMA WeekdayType == ASSUME NEW l \in Nat PROVE Weekday(l) \in Weekdays
<1>1. DayMinutes \in Nat \ {0}
  BY CalendarAssumption DEF DayMinutes
<1>2. DayOf(l) \in Nat
  BY <1>1 DEF DayOf
<1> QED BY <1>2, CalendarAssumption DEF Weekday, Weekdays

LEMMA LocalDayType ==
  ASSUME NEW t \in Minutes
  PROVE  DayOf(Local(t)) \in LocalDays
<1>1. DayMinutes \in Nat \ {0}
  BY CalendarAssumption DEF DayMinutes
<1>2. Local(t) \in Nat /\ Local(t) <= Last + 2 * DayMinutes
  BY <1>1, CalendarAssumption DEF Minutes, Local
<1>3. \A x, y \in Nat, d \in Nat \ {0} : x <= y => x \div d <= y \div d
  OBVIOUS
<1>4. DayOf(Local(t)) \in Nat
      /\ DayOf(Local(t)) <= (Last + 2 * DayMinutes) \div DayMinutes
  <2>1. Last + 2 * DayMinutes \in Nat
    BY <1>1, CalendarAssumption
  <2> QED BY <1>1, <1>2, <1>3, <2>1 DEF DayOf
<1>5. (Last + 2 * DayMinutes) \div DayMinutes \in Nat
  BY <1>1, CalendarAssumption
<1> QED BY <1>4, <1>5 DEF LocalDays

(* The date of a minute is a date of the calendar.                         *)
LEMMA CivilType ==
  ASSUME NEW t \in Minutes
  PROVE  Civil[DayOf(Local(t))].day \in 1..MaxDay
BY LocalDayType, CalendarAssumption

(***************************************************************************)
(* Numbers of days                                                         *)
(***************************************************************************)

(* Through the API and back, a weekday is the same.                        *)
LEMMA WeekdayRoundTrip ==
  ASSUME NEW w \in Weekdays
  PROVE  /\ StoredWeekday(w) \in Weekdays
         /\ ApiWeekday(StoredWeekday(w)) = w
<1>1. w \in {0, 1, 2, 3, 4, 5, 6}
  BY DEF Weekdays
<1> QED BY <1>1 DEF StoredWeekday, ApiWeekday, Weekdays

(* The stored number denotes the day whose name the API's number denotes.  *)
LEMMA StoredWeekdayNames ==
  ASSUME NEW w \in Weekdays, NEW d \in Weekdays
  PROVE  d = StoredWeekday(w) <=> MondayFirst[d + 1] = SundayFirst[w + 1]
<1>1. w \in {0, 1, 2, 3, 4, 5, 6} /\ d \in {0, 1, 2, 3, 4, 5, 6}
  BY DEF Weekdays
<1> QED BY <1>1 DEF StoredWeekday, MondayFirst, SundayFirst

(* And cron_weekday, with 7 for 0, is cron's number of the same day.       *)
LEMMA CronWeekdayNames ==
  ASSUME NEW d \in Weekdays, NEW v \in 0..7
  PROVE  SundayFirst[v + 1] = MondayFirst[d + 1]
           <=> v = (d + 1) % 7 \/ (v = 7 /\ (d + 1) % 7 = 0)
<1>1. v \in {0, 1, 2, 3, 4, 5, 6, 7} /\ d \in {0, 1, 2, 3, 4, 5, 6}
  BY DEF Weekdays
<1> QED BY <1>1 DEF MondayFirst, SundayFirst

(***************************************************************************)
(* Fields of cron expressions                                              *)
(***************************************************************************)

LEMMA ParsedIsAllowed ==
  ASSUME NEW field \in SUBSET Ranges, NEW v \in Int
  PROVE  v \in ParseField(field) <=> Allows(field, v)
BY DEF ParseField, Allows, Ranges

LEMMA ParsedWithinRange ==
  ASSUME NEW field \in SUBSET Ranges, NEW m \in Nat, NEW n \in Nat,
         ValidField(field, m, n)
  PROVE  ParseField(field) \subseteq m..n
BY DEF ParseField, ValidField, Ranges

(* A set of values has the full size exactly when nothing is missing:      *)
(* comparing sizes, the code finds out which day field is restricted.      *)
LEMMA FullBySize ==
  ASSUME NEW m \in Nat, NEW n \in Nat, m <= n, NEW S \in SUBSET (m..n)
  PROVE  Cardinality(S) # n - m + 1 <=> \E v \in m..n : v \notin S
<1>1. IsFiniteSet(m..n) /\ Cardinality(m..n) = n - m + 1
  BY FS_Interval
<1>2. Cardinality(S) = Cardinality(m..n) => S = m..n
  BY <1>1, FS_Subset
<1> QED BY <1>1, <1>2

LEMMA WeekdaySetRange ==
  ASSUME NEW field \in SUBSET Ranges, ValidField(field, 0, 7)
  PROVE  WeekdaySet(field) \subseteq 0..6
<1>1. ParseField(field) \subseteq 0..7
  BY ParsedWithinRange
<1> QED BY <1>1 DEF WeekdaySet

(* A day of the week is in the code's set exactly when the expression      *)
(* names it.                                                               *)
LEMMA WeekdaySetNames ==
  ASSUME NEW field \in SUBSET Ranges, NEW d \in Weekdays
  PROVE  (d + 1) % 7 \in WeekdaySet(field)
           <=> AllowsDayNamed(field, MondayFirst[d + 1])
<1> DEFINE c == (d + 1) % 7
<1>1. c \in 0..6
  BY DEF Weekdays
<1>2. c \in WeekdaySet(field)
        <=> c \in ParseField(field) \/ (c = 0 /\ 7 \in ParseField(field))
  BY <1>1 DEF WeekdaySet
<1>3. AllowsDayNamed(field, MondayFirst[d + 1])
        <=> \E v \in 0..7 : (v = c \/ (v = 7 /\ c = 0)) /\ Allows(field, v)
  BY CronWeekdayNames DEF AllowsDayNamed
<1>4. \A v \in 0..7 : v \in ParseField(field) <=> Allows(field, v)
  BY ParsedIsAllowed
<1> HIDE DEF c
<1>5. c \in 0..7 /\ 7 \in 0..7
  BY <1>1
<1>6. (\E v \in 0..7 : (v = c \/ (v = 7 /\ c = 0)) /\ Allows(field, v))
        <=> Allows(field, c) \/ (c = 0 /\ Allows(field, 7))
  BY <1>5
<1>7. (c \in ParseField(field) <=> Allows(field, c))
      /\ (7 \in ParseField(field) <=> Allows(field, 7))
  BY <1>4, <1>5
<1>8. (c \in WeekdaySet(field)) <=> AllowsDayNamed(field, MondayFirst[d + 1])
  BY <1>2, <1>3, <1>6, <1>7, Zenon
<1> QED BY <1>8 DEF c

(* Every day of the week is in the code's set, or some name is not allowed.*)
LEMMA WeekdayRestriction ==
  ASSUME NEW field \in SUBSET Ranges, ValidField(field, 0, 7)
  PROVE  Cardinality(WeekdaySet(field)) # 7
           <=> \E i \in 1..7 : ~AllowsDayNamed(field, MondayFirst[i])
<1>1. Cardinality(WeekdaySet(field)) # 7 <=> \E v \in 0..6 : v \notin WeekdaySet(field)
  <2>1. WeekdaySet(field) \in SUBSET (0..6) /\ 6 - 0 + 1 = 7 /\ 0 <= 6
    BY WeekdaySetRange
  <2>2. Cardinality(WeekdaySet(field)) # 6 - 0 + 1
          <=> \E v \in 0..6 : v \notin WeekdaySet(field)
    BY <2>1, FullBySize
  <2> QED BY <2>1, <2>2
<1>2. ASSUME NEW v \in 0..6, v \notin WeekdaySet(field)
      PROVE  \E i \in 1..7 : ~AllowsDayNamed(field, MondayFirst[i])
  <2>1. PICK d \in Weekdays : (d + 1) % 7 = v
    <3>1. v \in {0, 1, 2, 3, 4, 5, 6} OBVIOUS
    <3>2. (6 + 1) % 7 = 0 /\ (0 + 1) % 7 = 1 /\ (1 + 1) % 7 = 2 /\ (2 + 1) % 7 = 3
          /\ (3 + 1) % 7 = 4 /\ (4 + 1) % 7 = 5 /\ (5 + 1) % 7 = 6
      OBVIOUS
    <3> QED BY <3>1, <3>2 DEF Weekdays
  <2>2. ~AllowsDayNamed(field, MondayFirst[d + 1])
    BY <1>2, <2>1, WeekdaySetNames
  <2>3. d + 1 \in 1..7
    BY DEF Weekdays
  <2> QED BY <2>2, <2>3
<1>3. ASSUME NEW i \in 1..7, ~AllowsDayNamed(field, MondayFirst[i])
      PROVE  \E v \in 0..6 : v \notin WeekdaySet(field)
  <2>1. i - 1 \in Weekdays /\ (i - 1) + 1 = i
    BY DEF Weekdays
  <2>2. ((i - 1) + 1) % 7 \notin WeekdaySet(field)
    BY <1>3, <2>1, WeekdaySetNames
  <2>3. ((i - 1) + 1) % 7 \in 0..6
    OBVIOUS
  <2> QED BY <2>2, <2>3
<1> QED BY <1>1, <1>2, <1>3

(***************************************************************************)
(* One round of the search tests what the user asked for                   *)
(***************************************************************************)

LEMMA CalendarDayIsAsked ==
  ASSUME NEW cron \in CronFields, ValidCron(cron), NEW t \in Minutes
  PROVE  CalendarDay(cron, Local(t)) <=> CronDayAsked(cron, Local(t))
<1> DEFINE l == Local(t)
           day == Civil[DayOf(l)].day
<1>1. /\ cron.month_day \in SUBSET Ranges /\ cron.week_day \in SUBSET Ranges
      /\ ValidField(cron.month_day, 1, MaxDay)
      /\ ValidField(cron.week_day, 0, 7)
  BY DEF CronFields, ValidCron
<1>2. day \in 1..MaxDay /\ MaxDay \in Nat /\ 1 <= MaxDay
  BY CivilType, CalendarAssumption
<1>3. \A v \in 1..MaxDay :
        v \in ParseField(cron.month_day) <=> Allows(cron.month_day, v)
  BY <1>1, <1>2, ParsedIsAllowed
<1>4. Cardinality(ParseField(cron.month_day)) # MaxDay
        <=> \E v \in 1..MaxDay : ~Allows(cron.month_day, v)
  <2>1. ParseField(cron.month_day) \subseteq 1..MaxDay
    BY <1>1, <1>2, ParsedWithinRange
  <2>2. MaxDay - 1 + 1 = MaxDay
    BY <1>2
  <2> QED BY <1>2, <1>3, <2>1, <2>2, FullBySize
<1>5. Cardinality(WeekdaySet(cron.week_day)) # 7
        <=> \E i \in 1..7 : ~AllowsDayNamed(cron.week_day, MondayFirst[i])
  BY <1>1, WeekdayRestriction
<1>6. (Weekday(l) + 1) % 7 \in WeekdaySet(cron.week_day)
        <=> AllowsDayNamed(cron.week_day, DayName(l))
  BY <1>1, LocalType, WeekdayType, WeekdaySetNames DEF DayName
<1>7. day \in ParseField(cron.month_day) <=> Allows(cron.month_day, day)
  BY <1>2, <1>3
<1> HIDE DEF day
<1> QED BY <1>4, <1>5, <1>6, <1>7 DEF CalendarDay, CronDayAsked, day

LEMMA CronIsAsked ==
  ASSUME NEW cron \in CronFields, ValidCron(cron), NEW t \in Minutes
  PROVE  CronMatches(cron, Local(t)) <=>
           /\ Allows(cron.minute, MinuteOf(Local(t)))
           /\ Allows(cron.hour, HourOf(Local(t)))
           /\ Allows(cron.month, Civil[DayOf(Local(t))].month)
           /\ CronDayAsked(cron, Local(t))
<1> DEFINE l == Local(t)
<1>1. MinuteOf(l) \in Int /\ HourOf(l) \in Int
  <2>1. l \in Nat /\ HourMinutes \in Nat \ {0} /\ DayHours \in Nat \ {0}
    BY LocalType, CalendarAssumption
  <2>2. l \div HourMinutes \in Int
    BY <2>1
  <2> QED BY <2>1, <2>2 DEF MinuteOf, HourOf
<1>2. Civil[DayOf(l)].month \in Int
  BY LocalDayType, CalendarAssumption
<1>3. cron.minute \in SUBSET Ranges /\ cron.hour \in SUBSET Ranges
      /\ cron.month \in SUBSET Ranges
  BY DEF CronFields
<1> HIDE DEF l
<1> QED BY <1>1, <1>2, <1>3, ParsedIsAllowed, CalendarDayIsAsked DEF CronMatches, l

(* The code's test of the stored schedule is the schedule asked for.       *)
LEMMA SearchTestsWhatIsAsked ==
  ASSUME NEW a \in ApiSchedules, a.kind # "once",
         a.kind = "cron" => ValidCron(a.cron), NEW t \in Minutes
  PROVE  Matches(ToScheduler(a), t) <=> Occurs(a, t)
<1>1. CASE a.kind = "daily"
  BY <1>1 DEF ToScheduler, Matches, Occurs, AtTime
<1>2. CASE a.kind = "weekly"
  <2>1. a.weekday \in Weekdays
    BY <1>2 DEF ApiSchedules
  <2>2. Weekday(Local(t)) = StoredWeekday(a.weekday)
          <=> DayName(Local(t)) = SundayFirst[a.weekday + 1]
    BY <2>1, LocalType, WeekdayType, StoredWeekdayNames DEF DayName
  <2> QED BY <1>2, <2>2 DEF ToScheduler, Matches, Occurs, AtTime
<1>3. CASE a.kind = "cron"
  <2>1. a.cron \in CronFields
    BY <1>3 DEF ApiSchedules
  <2> QED BY <1>3, <2>1, CronIsAsked DEF ToScheduler, Matches, Occurs
<1> QED BY <1>1, <1>2, <1>3 DEF ApiSchedules

(***************************************************************************)
(* Once schedules                                                          *)
(***************************************************************************)

(* A wall clock time that the zone shows is converted to its first minute, *)
(* and that is the one occurrence.                                         *)
LEMMA OnceOccurrence ==
  ASSUME NEW a \in Requested, a.kind = "once", Expressible(a)
  PROVE  /\ ToScheduler(a).run_at \in Minutes
         /\ \A t \in Minutes : Occurs(a, t) <=> t = ToScheduler(a).run_at
<1>1. CASE a.zoned
  BY <1>1, RequestAssumption DEF ToScheduler, Occurs
<1>2. CASE ~a.zoned
  <2>1. Showing(a.time) \in SUBSET Nat /\ Showing(a.time) # {}
    BY <1>2 DEF Expressible, Showing, Minutes
  <2>2. ToScheduler(a).run_at = Earliest(Showing(a.time))
    BY <1>2, <2>1 DEF ToScheduler, UtcOf
  <2>3. Earliest(Showing(a.time)) \in Showing(a.time)
        /\ \A u \in Showing(a.time) : Earliest(Showing(a.time)) <= u
    BY <2>1, EarliestIsLeast
  <2>4. Earliest(Showing(a.time)) \in Minutes
        /\ Local(Earliest(Showing(a.time))) = a.time
    BY <2>3 DEF Showing
  <2>5. ASSUME NEW t \in Minutes
        PROVE  Occurs(a, t) <=> t = Earliest(Showing(a.time))
    <3>1. Occurs(a, t) <=> Local(t) = a.time /\ \A u \in Showing(Local(t)) : t <= u
      BY <1>2 DEF Occurs
    <3>2. Local(t) = a.time => t \in Showing(a.time)
      BY DEF Showing
    <3>3. t \in Nat /\ Earliest(Showing(a.time)) \in Nat
      BY <2>4 DEF Minutes
    <3>4. ASSUME Local(t) = a.time, \A u \in Showing(Local(t)) : t <= u
          PROVE  t = Earliest(Showing(a.time))
      BY <2>3, <3>2, <3>3, <3>4
    <3> QED BY <2>3, <2>4, <3>1, <3>4
  <2> QED BY <2>2, <2>4, <2>5
<1> QED BY <1>1, <1>2

(* An edit reads a minute as the wall clock shows it and writes the first  *)
(* minute that shows the same.                                             *)
LEMMA EditedOnce ==
  ASSUME NEW s \in Schedules, s.kind = "once"
  PROVE  /\ ToScheduler(ToApi(s)) \in Schedules
         /\ ToScheduler(ToApi(s)).kind = "once"
         /\ ToScheduler(ToApi(s)).second = 0
         /\ ToScheduler(ToApi(s)).run_at = Earliest(Showing(Local(s.run_at)))
<1>1. s.run_at \in Minutes
  BY DEF Schedules
<1>2. Showing(Local(s.run_at)) \in SUBSET Minutes /\ Showing(Local(s.run_at)) # {}
  BY <1>1 DEF Showing
<1>3. Earliest(Showing(Local(s.run_at))) \in Minutes
  BY <1>2, EarliestIsLeast DEF Minutes
<1>4. ToScheduler(ToApi(s)) =
        [kind |-> "once", second |-> 0,
         run_at |-> Earliest(Showing(Local(s.run_at)))]
  BY <1>2 DEF ToScheduler, ToApi, UtcOf
<1> QED BY <1>3, <1>4 DEF Schedules

LEMMA OnceRoundTrip ==
  ASSUME NEW a \in Requested, a.kind = "once", Expressible(a)
  PROVE  Earliest(Showing(Local(ToScheduler(a).run_at))) = ToScheduler(a).run_at
<1>1. CASE a.zoned
  BY <1>1 DEF Expressible, ToScheduler
<1>2. CASE ~a.zoned
  <2>1. Showing(a.time) \in SUBSET Nat /\ Showing(a.time) # {}
    BY <1>2 DEF Expressible, Showing, Minutes
  <2>2. ToScheduler(a).run_at = Earliest(Showing(a.time))
    BY <1>2, <2>1 DEF ToScheduler, UtcOf
  <2>3. Local(Earliest(Showing(a.time))) = a.time
    BY <2>1, EarliestIsLeast DEF Showing
  <2> QED BY <2>2, <2>3
<1> QED BY <1>1, <1>2

(***************************************************************************)
(* The other kinds survive an edit unchanged                               *)
(***************************************************************************)

LEMMA StoredType ==
  ASSUME NEW a \in Requested
  PROVE  ToScheduler(a) \in Schedules /\ ToScheduler(a).kind = a.kind
<1>1. a \in ApiSchedules
  BY RequestAssumption
<1>2. CASE a.kind = "once"
  <2>1. (IF a.zoned THEN a.time ELSE UtcOf(a.time)) \in Minutes
    BY <1>2, RequestAssumption
  <2>2. a.second \in 0..59
    BY <1>1, <1>2 DEF ApiSchedules
  <2> QED BY <1>2, <2>1, <2>2 DEF ToScheduler, Schedules
<1>3. CASE a.kind = "weekly"
  <2>1. a.weekday \in Weekdays /\ a.hour \in Hours /\ a.minute \in HourMinute
    BY <1>1, <1>3 DEF ApiSchedules
  <2> QED BY <1>3, <2>1, WeekdayRoundTrip DEF ToScheduler, Schedules
<1>4. CASE a.kind \in {"daily", "cron"}
  BY <1>1, <1>4 DEF ToScheduler, Schedules, ApiSchedules
<1> QED BY <1>1, <1>2, <1>3, <1>4 DEF ApiSchedules

LEMMA EditKeepsStored ==
  ASSUME NEW a \in Requested, a.kind # "once"
  PROVE  ToScheduler(ToApi(ToScheduler(a))) = ToScheduler(a)
<1>1. a \in ApiSchedules
  BY RequestAssumption
<1>2. CASE a.kind = "weekly"
  <2>1. a.weekday \in Weekdays
    BY <1>1, <1>2 DEF ApiSchedules
  <2>2. Earliest({StoredWeekday(a.weekday)}) = StoredWeekday(a.weekday)
    BY <2>1, WeekdayRoundTrip, EarliestOfOne DEF Weekdays
  <2> QED BY <1>2, <2>1, <2>2, WeekdayRoundTrip DEF ToScheduler, ToApi
<1>3. CASE a.kind \in {"daily", "cron"}
  BY <1>3 DEF ToScheduler, ToApi
<1> QED BY <1>1, <1>2, <1>3 DEF ApiSchedules

(***************************************************************************)
(* The inductive invariant                                                 *)
(***************************************************************************)

(* What an edit writes back means what the user asked for.                 *)
StoredAsAsked ==
  IF asked.kind = "once"
  THEN /\ schedule.kind = "once"
       /\ schedule.second > 0 => asked.second > 0
       /\ Expressible(asked) => schedule.run_at = ToScheduler(asked).run_at
  ELSE schedule = ToScheduler(asked)

(* Up to after everything has fired; between after and the candidate there *)
(* is nothing to fire.                                                     *)
Searched ==
  asked.kind # "once" =>
    /\ pc # "none"
    /\ fired = {t \in Minutes : t <= after /\ Wanted(t)}
    /\ pc \in {"search", "due", "failed"} =>
         /\ asked.kind = "cron" => ValidCron(asked.cron)
         /\ \A t \in Minutes : after < t /\ t < candidate => ~Occurs(asked, t)
    /\ pc = "due" =>
         candidate \in Minutes /\ candidate > after /\ Occurs(asked, candidate)
    /\ pc = "failed" => candidate > after + Limit(schedule)

(* run_at is not before the minute the code compares it with.              *)
StillAhead ==
  schedule.run_at > after \/ (schedule.run_at = after /\ schedule.second > 0)

OnceDue ==
  asked.kind = "once" =>
    /\ pc \in {"next", "due", "none"}
    /\ pc = "due" => candidate = schedule.run_at /\ StillAhead

OnceAhead ==
  asked.kind = "once" /\ Expressible(asked) =>
    /\ fired \subseteq {schedule.run_at}
    /\ schedule.run_at \in fired => Wanted(schedule.run_at)
    /\ Wanted(schedule.run_at) /\ schedule.run_at \notin fired => StillAhead
    /\ pc = "none" => ~StillAhead

IInv ==
  /\ TypeOK
  /\ after >= start
  /\ OnceDue
  /\ StoredAsAsked
  /\ Searched
  /\ OnceAhead

LEMMA LimitType ==
  ASSUME NEW s
  PROVE  Limit(s) \in Nat /\ Limit(s) <= CronLimit
BY BoundAssumption DEF Limit

(* What is due by the invariant is wanted by the user.                     *)
LEMMA DueIsWanted ==
  ASSUME IInv, asked.kind = "once", Expressible(asked), StillAhead
  PROVE  Wanted(schedule.run_at)
<1>1. schedule.run_at = ToScheduler(asked).run_at /\ schedule.run_at \in Minutes
      /\ Occurs(asked, schedule.run_at)
  BY OnceOccurrence DEF IInv, StoredAsAsked, TypeOK
<1>2. start \in Nat /\ after \in Nat /\ schedule.run_at \in Nat /\ after >= start
  BY <1>1, BoundAssumption DEF IInv, TypeOK, Minutes
<1>3. schedule.run_at > start
      \/ (schedule.run_at = start /\ schedule.second > 0)
  BY <1>2 DEF StillAhead
<1>4. schedule.second > 0 => asked.second > 0
  BY DEF IInv, StoredAsAsked
<1> QED BY <1>1, <1>3, <1>4 DEF Wanted

LEMMA InitInv == Init => IInv
<1> SUFFICES ASSUME Init PROVE IInv
  OBVIOUS
<1> USE DEF Init
<1>1. start \in 0..Horizon /\ start \in Nat /\ Horizon \in Nat
  BY BoundAssumption
<1>2. TypeOK
  BY <1>1, StoredType, BoundAssumption DEF TypeOK
<1>3. StoredAsAsked
  <2>1. CASE asked.kind = "once"
    BY <2>1, StoredType DEF StoredAsAsked, ToScheduler
  <2>2. CASE asked.kind # "once"
    BY <2>2 DEF StoredAsAsked
  <2> QED BY <2>1, <2>2
<1>4. Searched
  <2>1. asked.kind # "once" => \A t \in Minutes : ~(t <= after /\ Wanted(t))
    BY <1>1 DEF Wanted, Minutes
  <2> QED BY <2>1 DEF Searched
<1>5. OnceAhead
  <2>1. ASSUME asked.kind = "once", Expressible(asked), Wanted(schedule.run_at)
        PROVE  StillAhead
    <3>1. schedule.second = asked.second
      BY <2>1 DEF ToScheduler
    <3> QED BY <2>1, <3>1 DEF Wanted, StillAhead
  <2> QED BY <2>1 DEF OnceAhead
<1>6. OnceDue
  BY DEF OnceDue
<1> QED BY <1>1, <1>2, <1>3, <1>4, <1>5, <1>6 DEF IInv

LEMMA NextOnceInv == IInv /\ NextOnce => IInv'
<1> SUFFICES ASSUME IInv, NextOnce PROVE IInv'
  OBVIOUS
<1> USE DEF NextOnce
<1>1. asked.kind = "once"
  <2>1. asked \in Requested
    BY DEF IInv, TypeOK
  <2> QED BY <2>1, StoredType DEF IInv, StoredAsAsked
<1>2. TypeOK'
  BY DEF IInv, TypeOK, Minutes, Schedules
<1>3. (after >= start)' /\ StoredAsAsked' /\ Searched'
  BY <1>1 DEF IInv, StoredAsAsked, Searched
<1>4. OnceDue'
  <2>1. pc' = "due" => StillAhead'
    BY DEF StillAhead
  <2> QED BY <2>1 DEF OnceDue
<1>5. OnceAhead'
  <2>1. OnceAhead
    BY DEF IInv
  <2>2. (StillAhead' <=> StillAhead) /\ (Wanted(schedule.run_at)' <=> Wanted(schedule.run_at))
    BY DEF StillAhead, Wanted, Occurs
  <2>3. pc' = "none" => ~StillAhead
    BY DEF StillAhead
  <2> QED BY <2>1, <2>2, <2>3, <1>1 DEF OnceAhead
<1> QED BY <1>2, <1>3, <1>4, <1>5 DEF IInv

LEMMA BeginSearchInv == IInv /\ BeginSearch => IInv'
<1> SUFFICES ASSUME IInv, BeginSearch PROVE IInv'
  OBVIOUS
<1> USE DEF BeginSearch
<1>1. asked.kind # "once" /\ schedule = ToScheduler(asked) /\ asked \in Requested
  BY DEF IInv, StoredAsAsked, TypeOK
<1>2. after \in Nat /\ candidate' = after + 1
  BY BoundAssumption DEF IInv, TypeOK
<1>3. TypeOK'
  <2>1. Limit(schedule) \in Nat
    BY LimitType
  <2>2. candidate' \in after + 1..after + Limit(schedule) + 1
    BY <1>2, <2>1
  <2>3. (after + 1..after + Limit(schedule) + 1)' = after + 1..after + Limit(schedule) + 1
    BY DEF Limit
  <2> QED BY <1>2, <2>2, <2>3 DEF IInv, TypeOK
<1>4. Searched'
  <2>1. asked.kind = "cron" => ValidCron(asked.cron)
    BY <1>1, StoredType DEF ToScheduler
  <2>2. \A t \in Minutes : ~(after < t /\ t < after + 1)
    BY <1>2 DEF Minutes
  <2>3. fired = {t \in Minutes : t <= after /\ Wanted(t)}
    BY <1>1 DEF IInv, Searched
  <2>4. \A t : Wanted(t)' <=> Wanted(t)
    BY DEF Wanted, Occurs
  <2> QED BY <1>2, <2>1, <2>2, <2>3, <2>4 DEF Searched
<1>5. StoredAsAsked' /\ OnceDue' /\ OnceAhead' /\ (after >= start)'
  BY <1>1 DEF IInv, StoredAsAsked, OnceDue, OnceAhead
<1> QED BY <1>1, <1>3, <1>4, <1>5 DEF IInv

LEMMA RejectCronInv == IInv /\ RejectCron => IInv'
<1> SUFFICES ASSUME IInv, RejectCron PROVE IInv'
  OBVIOUS
<1> USE DEF RejectCron
<1>1. asked.kind # "once"
  BY StoredType DEF IInv, StoredAsAsked, TypeOK
<1>2. TypeOK'
  BY DEF IInv, TypeOK
<1>3. Searched'
  <2>1. \A t : Wanted(t)' <=> Wanted(t)
    BY DEF Wanted, Occurs
  <2> QED BY <1>1, <2>1 DEF IInv, Searched
<1>4. StoredAsAsked' /\ OnceDue' /\ OnceAhead' /\ (after >= start)'
  BY <1>1 DEF IInv, StoredAsAsked, OnceDue, OnceAhead
<1> QED BY <1>1, <1>2, <1>3, <1>4 DEF IInv

LEMMA SearchRoundInv == IInv /\ SearchRound => IInv'
<1> SUFFICES ASSUME IInv, SearchRound PROVE IInv'
  OBVIOUS
<1> USE DEF SearchRound
<1>1. asked \in Requested /\ asked \in ApiSchedules /\ Limit(schedule) \in Nat
      /\ Limit(schedule) <= CronLimit
  BY RequestAssumption, LimitType DEF IInv, TypeOK
<1>2. after \in Nat /\ after <= Horizon /\ candidate \in Nat
      /\ after < candidate /\ candidate <= after + Limit(schedule)
  BY <1>1, BoundAssumption DEF IInv, TypeOK
<1>3. candidate \in Minutes
  BY <1>1, <1>2, BoundAssumption, CalendarAssumption DEF Minutes
<1>4. asked.kind # "once" /\ schedule = ToScheduler(asked)
  BY DEF IInv, OnceDue, StoredAsAsked
<1>5. (asked.kind = "cron" => ValidCron(asked.cron))
      /\ (\A t \in Minutes : after < t /\ t < candidate => ~Occurs(asked, t))
      /\ fired = {t \in Minutes : t <= after /\ Wanted(t)}
  BY <1>4 DEF IInv, Searched
<1>6. Matches(schedule, candidate) <=> Occurs(asked, candidate)
  BY <1>1, <1>3, <1>4, <1>5, SearchTestsWhatIsAsked
<1>7. \A t : (Wanted(t)' <=> Wanted(t)) /\ (Occurs(asked, t)' <=> Occurs(asked, t))
  BY DEF Wanted, Occurs
<1>8. Searched' /\ TypeOK'
  <2>1. CASE Matches(schedule, candidate)
    <3>1. Searched'
      BY <1>2, <1>3, <1>4, <1>5, <1>6, <1>7, <2>1 DEF Searched
    <3> QED BY <2>1, <3>1 DEF IInv, TypeOK
  <2>2. CASE ~Matches(schedule, candidate)
    <3>1. candidate' = candidate + 1 /\ pc' = "search" /\ after' = after
      BY <2>2 DEF IInv, TypeOK
    <3>2. \A t \in Minutes : after < t /\ t < candidate + 1 => ~Occurs(asked, t)
      BY <1>2, <1>5, <1>6, <2>2 DEF Minutes
    <3>3. Searched'
      BY <1>4, <1>5, <1>7, <3>1, <3>2 DEF Searched
    <3>4. candidate' \in after + 1..after + Limit(schedule) + 1 /\ candidate' \in Nat
      BY <1>1, <1>2, <3>1
    <3>5. Limit(schedule)' = Limit(schedule)
      BY DEF Limit
    <3> QED BY <3>1, <3>3, <3>4, <3>5 DEF IInv, TypeOK
  <2> QED BY <2>1, <2>2
<1>9. StoredAsAsked' /\ OnceDue' /\ OnceAhead' /\ (after >= start)'
  BY <1>4 DEF IInv, StoredAsAsked, OnceDue, OnceAhead
<1> QED BY <1>8, <1>9 DEF IInv

LEMMA SearchFailsInv == IInv /\ SearchFails => IInv'
<1> SUFFICES ASSUME IInv, SearchFails PROVE IInv'
  OBVIOUS
<1> USE DEF SearchFails
<1>1. asked.kind # "once"
  BY DEF IInv, OnceDue
<1>2. TypeOK'
  BY DEF IInv, TypeOK
<1>3. Searched'
  <2>1. \A t : (Wanted(t)' <=> Wanted(t)) /\ (Occurs(asked, t)' <=> Occurs(asked, t))
    BY DEF Wanted, Occurs
  <2>2. Limit(schedule)' = Limit(schedule)
    BY DEF Limit
  <2> QED BY <1>1, <2>1, <2>2 DEF IInv, Searched
<1>4. StoredAsAsked' /\ OnceDue' /\ OnceAhead' /\ (after >= start)'
  BY <1>1 DEF IInv, StoredAsAsked, OnceDue, OnceAhead
<1> QED BY <1>2, <1>3, <1>4 DEF IInv

LEMMA ScanInv == IInv /\ Scan => IInv'
<1> SUFFICES ASSUME IInv, Scan PROVE IInv'
  OBVIOUS
<1> USE DEF Scan
<1>1. after \in Nat /\ start \in Nat /\ candidate \in 0..Horizon /\ after >= start
      /\ Horizon \in Nat /\ candidate \in Nat
  BY BoundAssumption DEF IInv, TypeOK
<1>2. \A t : (Wanted(t)' <=> Wanted(t)) /\ (Occurs(asked, t)' <=> Occurs(asked, t))
  BY DEF Wanted, Occurs
<1>3. TypeOK'
  BY <1>1 DEF IInv, TypeOK
<1>4. StoredAsAsked'
  BY DEF IInv, StoredAsAsked
<1>5. Searched' /\ (after >= start)' /\ OnceAhead'
  <2>1. CASE asked.kind # "once"
    <3>1. candidate \in Minutes /\ candidate > after /\ Occurs(asked, candidate)
          /\ (\A t \in Minutes : after < t /\ t < candidate => ~Occurs(asked, t))
          /\ fired = {t \in Minutes : t <= after /\ Wanted(t)}
      BY <2>1 DEF IInv, Searched
    <3>2. fired' = {t \in Minutes : t <= candidate /\ Wanted(t)}
      <4>1. Wanted(candidate)
        BY <1>1, <3>1 DEF Wanted
      <4>2. ASSUME NEW t \in Minutes
            PROVE  t <= candidate /\ Wanted(t)
                     <=> (t <= after /\ Wanted(t)) \/ t = candidate
        <5>1. t \in Nat BY DEF Minutes
        <5>2. after < t /\ t < candidate => ~Wanted(t)
          BY <3>1 DEF Wanted
        <5> QED BY <1>1, <3>1, <4>1, <5>1, <5>2
      <4> QED BY <3>1, <4>2
    <3>3. Searched'
      BY <1>2, <3>2 DEF Searched
    <3> QED BY <1>1, <2>1, <3>1, <3>3 DEF OnceAhead
  <2>2. CASE asked.kind = "once"
    <3>1. candidate = schedule.run_at
      BY <2>2 DEF IInv, OnceDue
    <3>2. OnceAhead'
      <4>1. StillAhead
        BY <2>2 DEF IInv, OnceDue
      <4>2. Expressible(asked) => Wanted(schedule.run_at)
        BY <2>2, <4>1, DueIsWanted
      <4>3. Wanted(schedule.run_at)' <=> Wanted(schedule.run_at)
        BY DEF Wanted, Occurs
      <4> QED BY <2>2, <3>1, <4>1, <4>2, <4>3 DEF IInv, OnceAhead
    <3>3. (after >= start)'
      <4>1. schedule.run_at > after \/ schedule.run_at = after
        BY <2>2 DEF IInv, OnceDue, StillAhead
      <4> QED BY <1>1, <3>1, <4>1
    <3> QED BY <2>2, <3>2, <3>3 DEF Searched
  <2> QED BY <2>1, <2>2
<1>6. OnceDue'
  BY DEF IInv, OnceDue
<1> QED BY <1>3, <1>4, <1>5, <1>6 DEF IInv

LEMMA EditInv == IInv /\ Edit => IInv'
<1> SUFFICES ASSUME IInv, Edit PROVE IInv'
  OBVIOUS
<1> USE DEF Edit
<1>1. PICK n \in after..(candidate - 1) : n <= Horizon /\ after' = n
  OBVIOUS
<1>2. after \in Nat /\ start \in Nat /\ candidate \in Nat /\ after >= start
      /\ Horizon \in Nat /\ edits \in Nat /\ MaxEdits \in Nat
      /\ asked \in Requested /\ schedule \in Schedules
  BY BoundAssumption DEF IInv, TypeOK
<1>3. n \in Nat /\ after <= n /\ n < candidate /\ after' = n /\ n <= Horizon
  BY <1>1, <1>2
<1>4. \A t : Wanted(t)' <=> Wanted(t)
  BY DEF Wanted, Occurs
<1>5. schedule' \in Schedules /\ StoredAsAsked'
  <2>1. CASE asked.kind = "once"
    <3>1. schedule.kind = "once"
      BY <2>1 DEF IInv, StoredAsAsked
    <3>2. schedule' \in Schedules /\ schedule'.kind = "once" /\ schedule'.second = 0
          /\ schedule'.run_at = Earliest(Showing(Local(schedule.run_at)))
      BY <1>2, <3>1, EditedOnce
    <3>3. Expressible(asked) => schedule'.run_at = ToScheduler(asked).run_at
      BY <1>2, <2>1, <3>2, OnceRoundTrip DEF IInv, StoredAsAsked
    <3> QED BY <2>1, <3>2, <3>3 DEF StoredAsAsked
  <2>2. CASE asked.kind # "once"
    <3>1. schedule' = ToScheduler(asked)
      BY <1>2, <2>2, EditKeepsStored DEF IInv, StoredAsAsked
    <3> QED BY <1>2, <2>2, <3>1, StoredType DEF StoredAsAsked
  <2> QED BY <2>1, <2>2
<1>6. TypeOK'
  BY <1>2, <1>3, <1>5 DEF IInv, TypeOK
<1>7. Searched'
  <2>1. ASSUME asked.kind # "once"
        PROVE  fired = {t \in Minutes : t <= n /\ Wanted(t)}
    <3>1. fired = {t \in Minutes : t <= after /\ Wanted(t)}
          /\ \A t \in Minutes : after < t /\ t < candidate => ~Occurs(asked, t)
      BY <2>1 DEF IInv, Searched
    <3>2. ASSUME NEW t \in Minutes
          PROVE  t <= n /\ Wanted(t) <=> t <= after /\ Wanted(t)
      <4>1. t \in Nat BY DEF Minutes
      <4>2. after < t /\ t < candidate => ~Wanted(t)
        BY <3>1 DEF Wanted
      <4> QED BY <1>2, <1>3, <4>1, <4>2
    <3> QED BY <3>1, <3>2
  <2> QED BY <1>3, <1>4, <2>1 DEF Searched
<1>8. OnceDue' /\ (after >= start)'
  BY <1>2, <1>3 DEF OnceDue
<1>9. OnceAhead'
  <2> SUFFICES ASSUME asked.kind = "once", Expressible(asked) PROVE OnceAhead'
    BY DEF OnceAhead
  <2>1. schedule'.run_at = schedule.run_at
    BY <1>5 DEF IInv, StoredAsAsked
  <2>2. StillAhead'
    BY <1>3, <2>1 DEF IInv, OnceDue, StillAhead
  <2>3. Wanted(schedule.run_at)' <=> Wanted(schedule.run_at)
    BY <2>1, <1>4 DEF Wanted, Occurs
  <2> QED BY <2>1, <2>2, <2>3 DEF IInv, OnceAhead
<1> QED BY <1>5, <1>6, <1>7, <1>8, <1>9 DEF IInv

LEMMA StutterInv == IInv /\ UNCHANGED vars => IInv'
<1> SUFFICES ASSUME IInv, UNCHANGED vars PROVE IInv'
  OBVIOUS
<1> USE DEF vars
<1>1. TypeOK' /\ StoredAsAsked' /\ OnceDue' /\ (after >= start)'
  BY DEF IInv, TypeOK, StoredAsAsked, OnceDue, StillAhead, Limit
<1>2. Searched'
  BY DEF IInv, Searched, Wanted, Occurs, Limit
<1>3. OnceAhead'
  BY DEF IInv, OnceAhead, StillAhead, Wanted, Occurs
<1> QED BY <1>1, <1>2, <1>3 DEF IInv

THEOREM InvariantHolds == Spec => []IInv
<1>1. IInv /\ [Next]_vars => IInv'
  BY NextOnceInv, BeginSearchInv, RejectCronInv, SearchRoundInv, SearchFailsInv,
     ScanInv, EditInv, StutterInv DEF Next
<1> QED BY InitInv, <1>1, PTL DEF Spec

(***************************************************************************)
(* Theorems                                                                *)
(***************************************************************************)

(* The conversions yield schedules that pass Schedule's own validation,    *)
(* and the search stays within its limit.                                  *)
THEOREM ScheduleTypeOK == Spec => []TypeOK
<1>1. IInv => TypeOK
  BY DEF IInv
<1> QED BY <1>1, InvariantHolds, PTL

(* The chain of due pointers fires at every occurrence the user asked for, *)
(* once each and at nothing else, through changes of the clock and edits.  *)
THEOREM ChainIsExact == Spec => []FiredExactly
<1>1. ASSUME IInv PROVE FiredExactly
  <2> SUFFICES ASSUME Expressible(asked) PROVE FiredExactly
    BY DEF FiredExactly
  <2>1. asked \in Requested /\ after \in Nat /\ start \in Nat /\ after >= start
        /\ candidate \in Nat
    BY <1>1, BoundAssumption DEF IInv, TypeOK
  <2>2. CASE asked.kind # "once"
    <3>1. pc # "none"
      BY <1>1, <2>2 DEF IInv, Searched
    <3>2. ASSUME pc = "due"
          PROVE  fired \cup {candidate}
                   = {t \in Minutes : t <= candidate /\ Wanted(t)}
      <4>1. candidate \in Minutes /\ candidate > after /\ Occurs(asked, candidate)
            /\ (\A t \in Minutes : after < t /\ t < candidate => ~Occurs(asked, t))
            /\ fired = {t \in Minutes : t <= after /\ Wanted(t)}
        BY <1>1, <2>2, <3>2 DEF IInv, Searched
      <4>2. Wanted(candidate)
        BY <2>1, <4>1 DEF Wanted
      <4>3. ASSUME NEW t \in Minutes
            PROVE  t <= candidate /\ Wanted(t)
                     <=> (t <= after /\ Wanted(t)) \/ t = candidate
        <5>1. t \in Nat BY DEF Minutes
        <5>2. after < t /\ t < candidate => ~Wanted(t)
          BY <4>1 DEF Wanted
        <5> QED BY <2>1, <4>1, <4>2, <5>1, <5>2
      <4> QED BY <4>1, <4>3
    <3> QED BY <3>1, <3>2 DEF FiredExactly
  <2>3. CASE asked.kind = "once"
    <3> DEFINE r == schedule.run_at
    <3>1. r \in Minutes /\ \A t \in Minutes : Occurs(asked, t) <=> t = r
      BY <1>1, <2>1, <2>3, OnceOccurrence DEF IInv, StoredAsAsked
    <3>2. fired \subseteq {r} /\ (r \in fired => Wanted(r))
          /\ (Wanted(r) /\ r \notin fired => StillAhead)
      BY <1>1, <2>3 DEF IInv, OnceAhead
    <3>3. \A t \in Minutes : Wanted(t) => t = r
      BY <3>1 DEF Wanted
    <3>4. ASSUME pc = "due"
          PROVE  fired \cup {candidate}
                   = {t \in Minutes : t <= candidate /\ Wanted(t)}
      <4>1. candidate = r /\ StillAhead
        BY <1>1, <2>3, <3>4 DEF IInv, OnceDue
      <4>2. Wanted(r)
        BY <1>1, <2>3, <4>1, DueIsWanted
      <4>3. r <= r
        BY <3>1 DEF Minutes
      <4> HIDE DEF r
      <4> QED BY <3>1, <3>2, <3>3, <4>1, <4>2, <4>3
    <3>5. ASSUME pc = "none" PROVE fired = {t \in Minutes : Wanted(t)}
      <4>1. ~StillAhead
        BY <1>1, <2>3, <3>5 DEF IInv, OnceAhead
      <4> HIDE DEF r
      <4> QED BY <3>1, <3>2, <3>3, <4>1
    <3> QED BY <3>4, <3>5 DEF FiredExactly
  <2> QED BY <2>2, <2>3
<1> QED BY <1>1, InvariantHolds, PTL

(* A cron search that gives up has passed over no occurrence.              *)
THEOREM FailedCronHasNoOccurrence ==
  Spec => [](asked.kind = "cron" => OnlyImpossibleCronFails)
<1>1. ASSUME IInv PROVE asked.kind = "cron" => OnlyImpossibleCronFails
  <2> SUFFICES ASSUME asked.kind = "cron", pc = "failed",
                      NEW t \in after + 1..after + CronLimit
               PROVE  ~Occurs(asked, t)
    BY DEF OnlyImpossibleCronFails
  <2>1. after \in Nat /\ after <= Horizon /\ candidate \in Nat
    BY <1>1, BoundAssumption DEF IInv, TypeOK
  <2>2. schedule.kind = "cron"
    BY <1>1, StoredType DEF IInv, StoredAsAsked, TypeOK
  <2>3. candidate > after + CronLimit
        /\ \A u \in Minutes : after < u /\ u < candidate => ~Occurs(asked, u)
    BY <1>1, <2>2 DEF IInv, Searched, Limit
  <2>4. t \in Minutes /\ after < t /\ t < candidate
    BY <2>1, <2>3, BoundAssumption, CalendarAssumption DEF Minutes
  <2> QED BY <2>3, <2>4
<1> QED BY <1>1, InvariantHolds, PTL

(***************************************************************************)
(* Days and weeks                                                          *)
(***************************************************************************)

LEMMA Quotient ==
  ASSUME NEW b \in Nat \ {0}, NEW q \in Nat, NEW r \in 0..(b - 1)
  PROVE  (q * b + r) \div b = q /\ (q * b + r) % b = r
OBVIOUS

LEMMA Division ==
  ASSUME NEW b \in Nat \ {0}, NEW a \in Nat
  PROVE  /\ a \div b \in Nat /\ a % b \in 0..(b - 1)
         /\ a = (a \div b) * b + (a % b)
<1>1. a \div b \in Nat /\ a % b \in 0..(b - 1)
  OBVIOUS
<1>2. a = b * (a \div b) + (a % b)
  BY Z3
<1>3. b * (a \div b) = (a \div b) * b
  BY <1>1
<1> QED BY <1>1, <1>2, <1>3

(* The minute d days, h hours and m minutes after local midnight of day 0. *)
At(d, h, m) == d * DayMinutes + (h * HourMinutes + m)

LEMMA TimeOfDay ==
  ASSUME NEW h \in Hours, NEW m \in HourMinute
  PROVE  /\ DayMinutes \in Nat \ {0}
         /\ h * HourMinutes + m \in 0..(DayMinutes - 1)
<1>1. HourMinutes \in Nat \ {0} /\ DayHours \in Nat \ {0} /\ h \in 0..(DayHours - 1)
      /\ m \in 0..(HourMinutes - 1)
  BY CalendarAssumption DEF Hours, HourMinute
<1>2. DayMinutes \in Nat \ {0} /\ DayMinutes = DayHours * HourMinutes
  BY <1>1 DEF DayMinutes
<1>3. (h + 1) * HourMinutes <= DayHours * HourMinutes
  BY <1>1
<1>4. (h + 1) * HourMinutes = h * HourMinutes + HourMinutes /\ h * HourMinutes \in Nat
  BY <1>1
<1> QED BY <1>1, <1>2, <1>3, <1>4

(* The clock shows hour h and minute m of day d in that minute only.       *)
LEMMA ClockShows ==
  ASSUME NEW l \in Nat, NEW d \in Nat, NEW h \in Hours, NEW m \in HourMinute
  PROVE  DayOf(l) = d /\ HourOf(l) = h /\ MinuteOf(l) = m <=> l = At(d, h, m)
<1>1. HourMinutes \in Nat \ {0} /\ DayHours \in Nat \ {0} /\ h \in 0..(DayHours - 1)
      /\ m \in 0..(HourMinutes - 1)
  BY CalendarAssumption DEF Hours, HourMinute
<1>2. /\ DayMinutes \in Nat \ {0} /\ DayMinutes = HourMinutes * DayHours
      /\ h * HourMinutes + m \in 0..(DayMinutes - 1)
  BY TimeOfDay DEF DayMinutes
<1>3. ASSUME NEW x \in Nat
      PROVE  At(x, h, m) = (x * DayHours + h) * HourMinutes + m
  <2>1. x * DayMinutes = (x * DayHours) * HourMinutes
    BY <1>1, <1>2
  <2>2. x * DayHours \in Nat
    BY <1>1
  <2>3. (x * DayHours + h) * HourMinutes = (x * DayHours) * HourMinutes + h * HourMinutes
    BY <1>1, <2>2
  <2> QED BY <1>1, <1>2, <2>1, <2>2, <2>3 DEF At
<1>4. ASSUME l = At(d, h, m)
      PROVE  DayOf(l) = d /\ HourOf(l) = h /\ MinuteOf(l) = m
  <2>1. DayOf(l) = d
    BY <1>2, <1>4, Quotient DEF At, DayOf
  <2>2. d * DayHours + h \in Nat
    BY <1>1
  <2>3. l \div HourMinutes = d * DayHours + h /\ l % HourMinutes = m
    <3> DEFINE q == d * DayHours + h
    <3>1. q \in Nat /\ l = q * HourMinutes + m
      BY <1>3, <1>4, <2>2
    <3> HIDE DEF q
    <3>2. l \div HourMinutes = q /\ l % HourMinutes = m
      BY <1>1, <3>1, Quotient
    <3> QED BY <3>2 DEF q
  <2>4. (d * DayHours + h) % DayHours = h
    BY <1>1, Quotient
  <2> QED BY <2>1, <2>3, <2>4 DEF HourOf, MinuteOf
<1>5. ASSUME DayOf(l) = d, HourOf(l) = h, MinuteOf(l) = m
      PROVE  l = At(d, h, m)
  <2> DEFINE q == l \div HourMinutes
             x == q \div DayHours
  <2>1. q \in Nat /\ l = q * HourMinutes + m
    BY <1>1, <1>5, Division DEF MinuteOf
  <2>2. q % DayHours = h
    BY <1>5 DEF HourOf
  <2> HIDE DEF q
  <2>3. x \in Nat /\ q = x * DayHours + h
    BY <1>1, <2>1, <2>2, Division
  <2> HIDE DEF x
  <2>4. l = At(x, h, m)
    BY <1>3, <2>1, <2>3
  <2>5. DayOf(l) = x
    BY <1>2, <2>3, <2>4, Quotient DEF At, DayOf
  <2> QED BY <1>5, <2>4, <2>5
<1> QED BY <1>4, <1>5

LEMMA MinutesOfDay ==
  ASSUME NEW d \in Nat
  PROVE  /\ d * DayMinutes \in Nat
         /\ d * DayMinutes..(d + 1) * DayMinutes - 1
              = d * DayMinutes..d * DayMinutes + (DayMinutes - 1)
         /\ DayOf(d * DayMinutes) = d
<1>1. DayMinutes \in Nat \ {0}
  BY CalendarAssumption DEF DayMinutes
<1>2. (d + 1) * DayMinutes = d * DayMinutes + DayMinutes /\ d * DayMinutes \in Nat
  BY <1>1
<1>3. DayOf(d * DayMinutes + 0) = d
  BY <1>1, Quotient DEF DayOf
<1> QED BY <1>1, <1>2, <1>3

(* On a day on which the clock shows each minute once, there is one minute *)
(* in which it shows hour h and minute m.                                  *)
LEMMA OneMinuteOfDay ==
  ASSUME NEW d \in Nat, NEW h \in Hours, NEW m \in HourMinute, NEW shown,
         shown = {t \in Minutes : DayOf(Local(t)) = d},
         {Local(t) : t \in shown} = d * DayMinutes..(d + 1) * DayMinutes - 1,
         Cardinality(shown) = DayMinutes
  PROVE  \E t \in shown :
           \A u \in shown :
             HourOf(Local(u)) = h /\ MinuteOf(Local(u)) = m <=> u = t
<1> DEFINE T == d * DayMinutes..d * DayMinutes + (DayMinutes - 1)
           f == [t \in shown |-> Local(t)]
<1>1. /\ DayMinutes \in Nat \ {0} /\ h * HourMinutes + m \in 0..(DayMinutes - 1)
      /\ d * DayMinutes \in Nat
  BY TimeOfDay, MinutesOfDay
<1>2. {Local(t) : t \in shown} = T
  BY MinutesOfDay
<1>3. IsFiniteSet(shown)
  <2>1. IsFiniteSet(Minutes)
    BY FS_Interval, CalendarAssumption DEF Minutes
  <2> QED BY <2>1, FS_Subset
<1>4. Cardinality(T) = DayMinutes
  <2>1. ~(d * DayMinutes > d * DayMinutes + (DayMinutes - 1))
        /\ d * DayMinutes + (DayMinutes - 1) \in Int
        /\ d * DayMinutes + (DayMinutes - 1) - d * DayMinutes + 1 = DayMinutes
    BY <1>1
  <2> QED BY <1>1, <2>1, FS_Interval
<1> HIDE DEF T
<1>5. f \in Injection(shown, T)
  <2>1. f \in Surjection(shown, T)
    BY <1>2 DEF Surjection
  <2> HIDE DEF f
  <2> QED BY <1>3, <1>4, <2>1, FS_SurjSameCardinalityImpliesInj
<1>6. At(d, h, m) \in T
  BY <1>1 DEF At, T
<1>7. PICK t \in shown : Local(t) = At(d, h, m)
  BY <1>2, <1>6
<1>8. ASSUME NEW u \in shown
      PROVE  HourOf(Local(u)) = h /\ MinuteOf(Local(u)) = m <=> u = t
  <2>1. Local(u) \in Nat /\ DayOf(Local(u)) = d
    BY LocalType
  <2>2. HourOf(Local(u)) = h /\ MinuteOf(Local(u)) = m <=> Local(u) = At(d, h, m)
    BY <2>1, ClockShows
  <2>3. Local(u) = Local(t) => u = t
    BY <1>5 DEF Injection, IsInjective
  <2> QED BY <1>7, <2>2, <2>3
<1> QED BY <1>7, <1>8

(* A daily job runs exactly once on every day on which the clock shows     *)
(* each minute once, and so does a weekly job on the days of its name: the *)
(* pointers that fire are the occurrences, and one minute of the day is    *)
(* one.                                                                    *)
THEOREM OrdinaryDaysHaveOneRun == Spec => []OncePerOrdinaryDay
<1>1. ASSUME IInv, FiredExactly PROVE OncePerOrdinaryDay
  <2> SUFFICES ASSUME pc = "due", asked.kind \in {"daily", "weekly"},
                      NEW d \in LocalDays, NEW shown,
                      shown = {t \in Minutes : DayOf(Local(t)) = d},
                      shown \subseteq start + 1..candidate,
                      {Local(t) : t \in shown}
                        = d * DayMinutes..(d + 1) * DayMinutes - 1,
                      Cardinality(shown) = DayMinutes
               PROVE  Cardinality((fired \cup {candidate}) \cap shown) =
                        IF asked.kind = "daily"
                          \/ DayName(d * DayMinutes) = SundayFirst[asked.weekday + 1]
                        THEN 1 ELSE 0
    BY DEF OncePerOrdinaryDay
  <2> DEFINE Named == asked.kind = "daily"
                        \/ DayName(d * DayMinutes) = SundayFirst[asked.weekday + 1]
  <2>1. d \in Nat /\ asked.hour \in Hours /\ asked.minute \in HourMinute
        /\ start \in Nat /\ candidate \in Nat
    BY <1>1, RequestAssumption, BoundAssumption
    DEF LocalDays, IInv, TypeOK, ApiSchedules
  <2>2. PICK x \in shown :
          \A u \in shown : HourOf(Local(u)) = asked.hour
                           /\ MinuteOf(Local(u)) = asked.minute <=> u = x
    BY <2>1, OneMinuteOfDay
  <2>3. fired \cup {candidate} = {t \in Minutes : t <= candidate /\ Wanted(t)}
    BY <1>1 DEF FiredExactly, Expressible
  <2>4. ASSUME NEW t \in shown
        PROVE  t \in fired \cup {candidate} <=> t = x /\ Named
    <3>1. t \in Minutes /\ t <= candidate /\ t > start
      BY <2>1
    <3>2. DayName(Local(t)) = DayName(d * DayMinutes)
      BY <2>1, MinutesOfDay DEF DayName, Weekday
    <3>3. Occurs(asked, t) <=> t = x /\ Named
      BY <2>2, <3>2 DEF Occurs
    <3> QED BY <2>3, <3>1, <3>3 DEF Wanted
  <2>5. (fired \cup {candidate}) \cap shown = IF Named THEN {x} ELSE {}
    BY <2>2, <2>4
  <2> QED BY <2>5, FS_Singleton, FS_EmptySet
<1> QED BY <1>1, InvariantHolds, ChainIsExact, PTL

(* In a week in which the offset stays, the clock shows every hour and      *)
(* minute of every weekday.                                                *)
LEMMA WeekShowsAll ==
  ASSUME NEW b \in Nat, b + 7 * DayMinutes - 1 \in Minutes, SteadyWeek(b),
         NEW h \in Hours, NEW m \in HourMinute, NEW w \in Weekdays
  PROVE  \E t \in b..b + 7 * DayMinutes - 1 :
           /\ t \in Minutes /\ HourOf(Local(t)) = h /\ MinuteOf(Local(t)) = m
           /\ Weekday(Local(t)) = w
<1> DEFINE L == Local(b)
           r == h * HourMinutes + m
           d == L \div DayMinutes
           e == IF L % DayMinutes <= r THEN d ELSE d + 1
<1>1. DayMinutes \in Nat \ {0} /\ r \in 0..(DayMinutes - 1) /\ FirstWeekday \in Weekdays
  BY TimeOfDay, CalendarAssumption
<1> HIDE DEF r
<1>2. /\ b \in Minutes
      /\ \A t \in b..b + 7 * DayMinutes - 1 : t \in Minutes /\ Offset[t] = Offset[b]
  BY <1>1, CalendarAssumption DEF Minutes, SteadyWeek
<1>3. L \in Nat
  BY <1>2, LocalType
<1>4. d \in Nat /\ L % DayMinutes \in 0..(DayMinutes - 1)
      /\ L = d * DayMinutes + (L % DayMinutes)
  BY <1>1, <1>3, Division
<1> HIDE DEF d
<1>5. e \in Nat /\ L <= e * DayMinutes + r /\ e * DayMinutes + r <= L + DayMinutes - 1
  <2>1. (d + 1) * DayMinutes = d * DayMinutes + DayMinutes /\ d * DayMinutes \in Nat
    BY <1>1, <1>4
  <2> QED BY <1>1, <1>3, <1>4, <2>1
<1> HIDE DEF e
<1>6. PICK k \in 0..6 : (FirstWeekday + (e + k)) % 7 = w
  BY <1>1, <1>5 DEF Weekdays
<1> DEFINE l == At(e + k, h, m)
           t == l - Offset[b]
<1>7. l = e * DayMinutes + r + k * DayMinutes
  <2>1. (e + k) * DayMinutes = e * DayMinutes + k * DayMinutes
        /\ e * DayMinutes \in Nat /\ k * DayMinutes \in Nat
    BY <1>1, <1>5
  <2>2. r \in Nat
    BY <1>1
  <2> QED BY <2>1, <2>2 DEF At, r
<1>8. 0 <= k * DayMinutes /\ k * DayMinutes <= 6 * DayMinutes /\ k * DayMinutes \in Nat
  BY <1>1
<1>9. e * DayMinutes \in Nat /\ r \in Nat
  BY <1>1, <1>5
<1>10. l \in Nat /\ L <= l /\ l <= L + 7 * DayMinutes - 1
  BY <1>1, <1>3, <1>5, <1>7, <1>8, <1>9
<1> HIDE DEF l
<1>11. Offset[b] \in Nat /\ L = b + Offset[b]
  BY <1>2, CalendarAssumption DEF Local
<1>12. t \in b..b + 7 * DayMinutes - 1
  BY <1>1, <1>10, <1>11
<1>13. t \in Minutes /\ Local(t) = l
  BY <1>2, <1>10, <1>11, <1>12 DEF Local
<1>14. DayOf(l) = e + k /\ HourOf(l) = h /\ MinuteOf(l) = m
  BY <1>5, <1>10, ClockShows DEF l
<1> QED BY <1>6, <1>12, <1>13, <1>14 DEF Weekday

(* A search gives up only on a cron expression without an occurrence       *)
(* within the limit: for a daily or weekly schedule the loop of _search    *)
(* reaches a week without a change of the clock, and returns there at the  *)
(* latest.                                                                 *)
THEOREM OnlyCronSearchesFail == Spec => []OnlyImpossibleCronFails
<1>1. ASSUME IInv, pc = "failed" PROVE asked.kind = "cron"
  <2> SUFFICES ASSUME asked.kind \in {"daily", "weekly"} PROVE FALSE
    BY <1>1, RequestAssumption DEF IInv, TypeOK, OnceDue, ApiSchedules
  <2>1. /\ asked \in ApiSchedules /\ asked.hour \in Hours /\ asked.minute \in HourMinute
        /\ after \in 0..Horizon /\ candidate \in Nat
    BY <1>1, RequestAssumption DEF IInv, TypeOK, ApiSchedules
  <2>2. schedule.kind = asked.kind
    BY <1>1 DEF IInv, StoredAsAsked, ToScheduler
  <2>3. /\ candidate > after + SearchLimit
        /\ \A t \in Minutes : after < t /\ t < candidate => ~Occurs(asked, t)
    BY <1>1, <2>2 DEF IInv, Searched, Limit
  <2> DEFINE w == IF asked.kind = "daily" THEN 0 ELSE StoredWeekday(asked.weekday)
  <2>4. w \in Weekdays
    <3>1. asked.kind = "weekly" => asked.weekday \in Weekdays
      BY <2>1 DEF ApiSchedules
    <3> QED BY <3>1 DEF StoredWeekday, Weekdays
  <2>5. PICK b \in after + 1..after + SearchLimit :
          b + 7 * DayMinutes - 1 <= after + SearchLimit /\ SteadyWeek(b)
    BY <2>1, ZoneAssumption
  <2>6. /\ after \in Nat /\ SearchLimit \in Nat /\ b \in Nat /\ after < b
        /\ DayMinutes \in Nat \ {0}
        /\ b + 7 * DayMinutes - 1 \in Minutes
    BY <2>1, <2>5, BoundAssumption, CalendarAssumption DEF Minutes, DayMinutes
  <2>7. PICK t \in b..b + 7 * DayMinutes - 1 :
          /\ t \in Minutes /\ HourOf(Local(t)) = asked.hour
          /\ MinuteOf(Local(t)) = asked.minute /\ Weekday(Local(t)) = w
    BY <2>1, <2>4, <2>5, <2>6, WeekShowsAll
  <2>8. Occurs(asked, t)
    <3>1. CASE asked.kind = "daily"
      BY <2>7, <3>1 DEF Occurs
    <3>2. CASE asked.kind = "weekly"
      <4>1. asked.weekday \in Weekdays /\ Weekday(Local(t)) = StoredWeekday(asked.weekday)
        BY <2>1, <2>7, <3>2 DEF ApiSchedules
      <4>2. DayName(Local(t)) = SundayFirst[asked.weekday + 1]
        BY <2>7, <4>1, LocalType, WeekdayType, StoredWeekdayNames DEF DayName
      <4> QED BY <2>7, <3>2, <4>2 DEF Occurs
    <3> QED BY <3>1, <3>2
  <2>9. after < t /\ t < candidate
    BY <2>1, <2>3, <2>5, <2>6
  <2> QED BY <2>3, <2>7, <2>8, <2>9
<1>2. IInv /\ (asked.kind = "cron" => OnlyImpossibleCronFails) => OnlyImpossibleCronFails
  BY <1>1 DEF OnlyImpossibleCronFails
<1> QED BY <1>2, InvariantHolds, FailedCronHasNoOccurrence, PTL

=============================================================================
