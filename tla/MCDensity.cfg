SPECIFICATION Spec
CONSTANTS
    Requests <- DensityRequests
    MaxRuns = 1
CHECK_DEADLOCK FALSE
INVARIANTS
    DensityDelivered
