SPECIFICATION FairSpec
CONSTANTS
    Seeds <- Asked
    Replacements <- Fallback
    Kind <- OfKind
    Channel = {9}
    Source = {1, 2, 3}
    Finds <- Leads
    History <- Messages
    Intent <- Promise
    Standing <- Ranks
    Reserved <- Places1
    MaxDeep = 2
    MaxPages = 2
    MaxTransient = 2
    PageSize = 2
    SourceCap = 4
    RunCap = 5
    MinRequests = 2
    Lost = {1}
    Dismissible = {2}
    MaxFaults = 1
    None = None
INVARIANTS TypeOK ReadOnce PoolSettled FailIsProven
PROPERTIES PoolFixed Implements RunEnds
