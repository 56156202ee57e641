SPECIFICATION Spec
CONSTANTS
  Last = 260
  Offset <- ZoneOffset
  Civil <- SmallCivil
  FirstWeekday = 3
  HourMinutes = 2
  DayHours = 3
  MaxDay = 6
  MaxMonth = 3
  Requested <- SmallRequests
  Starts = {0, 10, 17}
  SearchLimit = 90
  CronLimit = 150
  Horizon = 100
  MaxEdits = 1
INVARIANTS
  TypeOK
  FiredExactly
  OncePerOrdinaryDay
  OnlyImpossibleCronFails
CHECK_DEADLOCK FALSE
