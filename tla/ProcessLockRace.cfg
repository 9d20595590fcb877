SPECIFICATION Spec
CONSTANTS
    Proc = {p1, p2, p3, p4}
    Nobody = Nobody
    Overlap = TRUE
INVARIANTS OneHolder
