SPECIFICATION FairSpec
CONSTANTS
    MaxMsg = 2
    Old = 1
    PageLimit = 1
    StartupLimit = 3
    PeriodicLimit = 2
    MaxBackfill = 2
    Batch = 1
    MaxAttempts = 1
    MaxIncidents = 1
INVARIANTS TypeOK CheckpointCommitted ContinuationLeavesNoHole
PROPERTIES ReconciledRangeStored DisabledDrains
