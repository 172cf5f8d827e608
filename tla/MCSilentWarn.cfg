\* The newest backup failed verification and an older one is coverage.
SPECIFICATION Spec
CONSTANTS
    Never = Never
    Policy <- KeepOne
    DayOf <- MCDayOf
    WeekOf <- MCWeekOf
    MonthOf <- MCWeekOf
    MaxTime = 3
    MaxAge = 2
    MaxCycle = 1
    MaxCrashes = 0
INVARIANTS DegradedIsWarned
CHECK_DEADLOCK FALSE
