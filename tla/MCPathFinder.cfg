SPECIFICATION FairSpec
CONSTANTS
    Inputs <- MCInputs
    Far = 1000
CHECK_DEADLOCK FALSE
INVARIANTS
    TypeOK
    HeapOrdered
    ShortestFirst
    NothingMissed
PROPERTIES
    SearchEnds
    EnumerationRefined
