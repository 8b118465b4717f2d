SPECIFICATION Spec
CONSTANTS
    Requests <- AllRequests
    MaxRuns = 3
CHECK_DEADLOCK FALSE
INVARIANTS
    TypeOK
    SuccessIsComplete
    ConvolvedOnce
    SecondRunSettles
