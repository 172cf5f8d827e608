\* Every catalog of six backups under 48 policies.
SPECIFICATION Spec
CONSTANTS
    Unset = Unset
    MaxTime = 5
    DayOf <- MCDayOf
    WeekOf <- MCWeekOf
    MonthOf <- MCMonthOf
    Policies <- MCPolicies
INVARIANTS TypeOK ComputesPolicy PruneTimesDoNotMatter
CHECK_DEADLOCK FALSE
