SPECIFICATION Spec
CONSTANTS
    a1 = a1
    a2 = a2
    p1 = p1
    p2 = p2
    h1 = h1
    h2 = h2
    u1 = u1
    u2 = u2
    u3 = u3
    q1 = q1
    None = None
    Attempt = {a1, a2}
    Login = {p1, p2}
    Handler = {h1, h2}
    Account = {u1, u2, u3}
    Allowed = {u1, u2}
    Port = {q1}
SYMMETRY MCSymmetry
INVARIANTS
    ExchangeIsOwn
    KeyIsReady
PROPERTY ImplementsVoucher
CHECK_DEADLOCK FALSE
