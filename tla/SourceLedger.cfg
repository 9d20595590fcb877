SPECIFICATION Spec
CONSTANTS
    Peer = {1, 2}
    na = na
    nb = nb
    nc = nc
    Name <- Names
    MaxRuns = 2
    MaxActs = 4
    None = None
SYMMETRY Symmetry
INVARIANTS TypeOK
PROPERTIES HiddenWhileKnown
