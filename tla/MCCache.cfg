SPECIFICATION Spec
CONSTANTS
    i1 = i1
    i2 = i2
    i3 = i3
    path = path
    s1 = s1
    s2 = s2
    n = n
    Inputs = {i1, i2, i3, path}
    External = {path}
    PotInputs = {s1, s2, n}
    PotPart <- MCPotPart
    Scf = {s1, s2}
    Auxiliary = {a1, a2}
    Outside = {o1, o2}
    Policies = {p1, p2}
    None = None
    LiveAux = FALSE
    MaxEdits = 3
SYMMETRY Symmetry
INVARIANTS
    TypeOK
    HitIsCurrent
    CertifiedIsHonest
    RepeatHits
