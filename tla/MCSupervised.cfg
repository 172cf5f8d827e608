\* One daemon and one cron job that prunes and sweeps.
SPECIFICATION Spec
CONSTANTS
    daemon = daemon
    cron = cron
    shell = shell
    Absent = Absent
    Procs <- SupervisedProcs
    Commands <- SupervisedCommands
    Policies <- MCPolicies
    DayOf <- MCDayOf
    WeekOf <- MCWeekOf
    MonthOf <- MCWeekOf
    MaxTime = 2
    MaxDumps = 3
    MinAge = 2
    MaxBackup = 1
    SpacedBackups = TRUE
INVARIANTS TypeOK VerifiedWasRestored ManifestMatchesArtifact
PROPERTIES CoverageMonotone KeepsPromises
