\* A verify that overlaps the daemon's prune.
SPECIFICATION Spec
CONSTANTS
    daemon = daemon
    cron = cron
    shell = shell
    Absent = Absent
    Procs <- WithOperator
    Commands <- OperatorCommands
    Policies <- SlotPolicy
    DayOf <- MCDayOf
    WeekOf <- MCWeekOf
    MonthOf <- MCWeekOf
    MaxTime = 2
    MaxDumps = 2
    MinAge = 2
    MaxBackup = 1
    SpacedBackups = TRUE
INVARIANTS ManifestHasArtifact
