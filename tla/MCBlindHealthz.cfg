\* The check cannot read the store while coverage runs out.
SPECIFICATION Spec
CONSTANTS
    Never = Never
    Policy <- KeepOne
    DayOf <- MCDayOf
    WeekOf <- MCWeekOf
    MonthOf <- MCWeekOf
    MaxTime = 4
    MaxAge = 1
    MaxCycle = 1
    MaxCrashes = 0
INVARIANTS HealthzTracksCycles
CHECK_DEADLOCK FALSE
