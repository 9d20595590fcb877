SPECIFICATION DowntimeSpec
CONSTANTS
    MaxMsg = 3
    Old = 0
    PageLimit = 2
    StartupLimit = 3
    PeriodicLimit = 2
    MaxBackfill = 3
    Batch = 2
    MaxAttempts = 1
    MaxIncidents = 1
PROPERTIES RestartLeavesNoGap
