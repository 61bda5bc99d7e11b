SPECIFICATION Spec
CONSTANTS
    n1 = n1
    n2 = n2
    k1 = k1
    k2 = k2
    p1 = p1
    p2 = p2
    d1 = d1
    d2 = d2
    NoName = NoName
    NoKey = NoKey
    Row <- MCRow
    Name = {n1}
    Key = {k1}
    KeyOf <- OneKeyOf
    Provider = {p1}
    ProviderOf <- OneProviderOf
    Daemon = {d1, d2}
    Config <- OneConfig
    CanPush = {p1}
    CanClose = {p1}
    Accepting = {}
    Reachable = {}
    Reclosable = {}
    MaxPresses = 1
    MaxFaults = 1
SYMMETRY DaemonSymmetry
INVARIANTS
    TypeOK
    OnlyCompletedIsTold
    NoNeedlessResend
    CompleteStatusIsEarned
PROPERTY ImplementsLedger
