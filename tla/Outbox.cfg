SPECIFICATION OutboxFairSpec
CONSTANTS
    Alert = {1, 2}
    MaxAttempts = 5
    MaxRollbacks = 1
    MaxSwitches = 1
    NoAlert = NoAlert
INVARIANTS DuplicatesNeedRollback LogMatchesRow
PROPERTIES AlertSettles
