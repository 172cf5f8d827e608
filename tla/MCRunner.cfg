\* Cycles no longer than -max-age, one crash; coverage that stays lost is paged.
SPECIFICATION FairSpec
CONSTANTS
    Never = Never
    Policy <- KeepOne
    DayOf <- MCDayOf
    WeekOf <- MCWeekOf
    MonthOf <- MCWeekOf
    MaxTime = 3
    MaxAge = 1
    MaxCycle = 1
    MaxCrashes = 1
INVARIANTS TypeOK NoSilentLoss TrackerAgreesWithStore HealthyIsNearlyCurrent
PROPERTIES PrunesOnlyAfterProof LossIsPaged
CHECK_DEADLOCK FALSE
