\* Two calculations of one process that share faer's global policy, under fair
\* scheduling, in a program that reconfigures faer between calculations.
SPECIFICATION FairSpec
CONSTANTS
    Runs = {r1, r2}
    Ambient = {p, q}
    NoRun = noRun
    NStages = 2
    Coordinated = TRUE
CHECK_DEADLOCK FALSE
INVARIANTS
    TypeOK
    MutualExclusion
    ComputesUnderOwnPolicy
    LateRunComputesNothing
    AnnouncedStageStops
    PolicyRestored
PROPERTIES
    ScopeRefined
    EveryRunReturns
