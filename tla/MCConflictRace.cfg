\* Two runs that must reject a non-empty destination, started together.
SPECIFICATION Spec
CONSTANTS
    Runners = {r1, r2}
    User = user
    Nobody = nobody
    Absent = absent
    NFiles = 2
    Policies = {"conflict"}
    MaxFaults = 0
CHECK_DEADLOCK FALSE
PROPERTIES
    ConflictRejectsNonEmpty
