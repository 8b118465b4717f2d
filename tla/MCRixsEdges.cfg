SPECIFICATION Spec
CONSTANTS
    Versions <- MCVersions
    Accepted <- MCAccepted
    Files <- MCFiles
    Outputs <- MCOutputs
    Common = "rixs.inp"
    None = None
    Torn = Torn
    Dirty = Dirty
    Kinds <- MCKinds
    RixsInp = "rixs.inp"
    Enabled <- MCAccepted
    TwoEdges <- MCAccepted
    Makes <- MCMakes
    ReadPoles <- MCAccepted
    SpectrumFiles = 2
INVARIANTS
    TypeOK
    SolvedFromOnePair
    PreparedFromSource
PROPERTIES
    SentinelProtects
    PublishedKept
