SPECIFICATION FairSpec
CONSTANTS
    n1 = n1
    n2 = n2
    k1 = k1
    k2 = k2
    p1 = p1
    p2 = p2
    d1 = d1
    d2 = d2
    NoName = NoName
    NoKey = NoKey
    Row <- MCRow
    Name = {n1, n2}
    Key = {k1, k2}
    KeyOf <- TwoKeyOf
    Provider = {p1, p2}
    ProviderOf <- TwoProviderOf
    Daemon = {d1}
    Config <- TwoConfig
    CanPush = {p2}
    CanClose = {p2}
    Accepting = {2}
    Reachable = {p2}
    Reclosable = {p2}
    MaxPresses = 1
    MaxFaults = 1
INVARIANTS
    PushingIsRecovered
    QueueStaysCurrent
PROPERTIES
    PushedMovesOn
    RequestedIsPushed
    CompletionIsRecorded
