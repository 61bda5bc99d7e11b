SPECIFICATION Spec
CONSTANTS
    d1 = d1
    d2 = d2
    t1 = t1
    t2 = t2
    None = None
    Key = {k1}
    OnlyOpen = {}
    Dated = {k1}
    MaxRev = 3
    TitleAt <- MCTitleAt
    ClosedAt <- MCClosedAt
    Daemon = {d1, d2}
    Coarse <- Minute
    MaxTime = 2
    Loader = {g1}
    MaxRows = 1
SYMMETRY MCSymmetry
INVARIANTS
    TypeOK
    NothingPassed
    UnlinkedIsExplained
PROPERTY RowsGoBackOnlyInRaces
CHECK_DEADLOCK FALSE
