SPECIFICATION FairSpec
CONSTANTS
    Job <- MCJob
    Kind <- MCKind
    LeaseTicks = 1
    RetryTicks = 1
    MaxCrashes = 1
    NoJob = NoJob
INVARIANTS DiscoveryRunningHasLease InflightIsExecuted OutcomeCommittedOnce
PROPERTIES AbandonedJobRecovered
