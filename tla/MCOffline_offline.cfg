SPECIFICATION Spec
CONSTANTS
    k1 = k1
    k2 = k2
    Process = {d1, d2}
    Daemon = {d1, d2}
    Wanted = {1, 2}
    ForeignKey = 2
    Layout <- MCLayout
    Base = 0
    OldRow = {o1}
    MaxBreaks = 1
    Session = {1, 2}
    Key = {k1, k2}
    KeyOf <- MCKeyOf
    StartOf <- MCStartOf
    Sanitize <- MCSanitize
    NoDoc = NoDoc
    Absent = Absent
    Empty = Empty
    Broken = Broken
INVARIANTS
    TypeOK
    OpenIsCurrent
    RecordedIsOnFile
PROPERTY StartsInTheEnd
