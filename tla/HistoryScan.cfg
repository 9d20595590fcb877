SPECIFICATION ScanFairSpec
CONSTANTS
    Scan = {1}
    Pages <- TwoTargets
    MaxAttempts = 5
    MaxFaults = 2
    MaxFloods = 1
    NoScan = NoScan
INVARIANTS ScanTypeOK OutcomeMatchesTargets
PROPERTIES ScanSettles
