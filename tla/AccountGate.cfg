SPECIFICATION Spec
CONSTANTS
    Task = {"collector"}
    Interval = 1
    Window = 3
    PerWindow = 2
    Deadline = 2
    Cap = 2
    MaxTime = 7
    MaxBack = 1
    MaxCrashes = 1
INVARIANTS TypeOK RateKept LockMatchesCalls BudgetKept
