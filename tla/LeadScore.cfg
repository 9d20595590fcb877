SPECIFICATION Spec
CONSTANTS
    Rule <- Catalogue
    Cap <- Caps
    HotMin = 70
    WarmMin = 50
    ColdMin = 30
    PenaltyCap = 30
    Quality = {2}
    Hours = {0, 30}
    MaxLate = 1
    None = None
INVARIANTS TypeOK LeadIsRequest LateOnlyLowers
