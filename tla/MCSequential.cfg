\* One shell that backs up, verifies, prunes, sweeps and runs cycles in any order.
SPECIFICATION Spec
CONSTANTS
    daemon = daemon
    cron = cron
    shell = shell
    Absent = Absent
    Procs <- ShellAlone
    Commands <- ShellCommands
    Policies <- MCPolicies
    DayOf <- MCDayOf
    WeekOf <- MCWeekOf
    MonthOf <- MCWeekOf
    MaxTime = 3
    MaxDumps = 3
    MinAge = 1
    MaxBackup = 2
    SpacedBackups = TRUE
INVARIANTS VerifiedWasRestored ManifestMatchesArtifact
PROPERTIES PruneLeavesNewer KeepsRevocablePromises
