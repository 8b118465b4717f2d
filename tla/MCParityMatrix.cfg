SPECIFICATION Spec
CONSTANTS
    Order <- MCOrder
    HighZ = HighZ
    Copper = Copper
    Elements <- MCElements
    Versions = {1, 2}
    MaxRuns = 3
    MaxEdits = 2
    Clobbers = TRUE
    None = None
    Torn = Torn
CHECK_DEADLOCK FALSE
INVARIANTS
    TypeOK
    NeverCertifiesSubset
    VerdictsMatchRecord
PROPERTIES
    VerdictsKept
