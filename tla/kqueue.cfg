SPECIFICATION Spec
CONSTANTS
    c1 = c1
    c2 = c2
    Conn = {c1, c2}
    Srv = Srv
    Lsn = Lsn
    None = None
    Desc = {1, 2, 3}
    NoSd = 0
    SrvSd = 1
    LsnSd = 2
    MaxChange = 5
INVARIANTS
    KnotesFollowFlags
PROPERTY
    ImplementsReadiness
SYMMETRY ConnSymmetry
