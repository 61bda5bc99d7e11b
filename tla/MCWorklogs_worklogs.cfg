SPECIFICATION FairSpec
CONSTANTS
    NoSession = NoSession
    Nobody = Nobody
    Session = {s1, s2}
    Client = {d1, d2}
    Request = {r1, r2}
    Millis <- MCMillis
    Accepting = {s1}
    MaxFaults = 1
INVARIANTS
    TypeOK
    SignatureNamesWorklog
    DuplicatesAreExplained
PROPERTIES
    ImplementsRegister
    SessionIsSigned
