SPECIFICATION Spec
CONSTANTS
  Targets = {t1, t2}
  Schedules <- MCSchedules
  MinutesPerHour = 2
  HoursPerDay = 1
  DaysPerWeek = 2
  DaysPerMonth = 3
  MonthsPerYear = 1
  Retentions = {1, 2}
  MaxHistory = 1
  MaxTime = 17
  MaxManual = 1
  MaxEvents = 1
  MaxCrashes = 1
INVARIANT HistoryRestorable
PROPERTIES NewestKept SlotsCovered
CHECK_DEADLOCK FALSE
