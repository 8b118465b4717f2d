\* Two runs that carry any of the three existing-output policies.
SPECIFICATION Spec
CONSTANTS
    Runners = {r1, r2}
    User = user
    Nobody = nobody
    Absent = absent
    NFiles = 2
    Policies = {"reuse", "recompute", "conflict"}
    MaxFaults = 2
SYMMETRY Symmetric
CHECK_DEADLOCK FALSE
INVARIANTS
    TypeOK
    CancelledStaysPrivate
    AllOrNothing
PROPERTIES
    ResultSurvives
    StoreRefined
