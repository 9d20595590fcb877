SPECIFICATION FairSpec
CONSTANTS
    Peer = {1, 2, 3, 4}
    Seeds <- OneSeed
    Links <- Mesh
    Registered = {1}
    Dismissed = {}
    MaxDepth = 2
    EdgeCap = 3
    CandidateCap = 2
    ResolveCap = 1
    MaxFaults = 1
    NoNode = NoNode
INVARIANTS TypeOK CreatedAreStored SucceededExplored
PROPERTIES Implements
