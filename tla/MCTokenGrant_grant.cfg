SPECIFICATION FairSpec
CONSTANTS
    r1 = r1
    r2 = r2
    r3 = r3
    c1 = c1
    c2 = c2
    Request = {r1, r2, r3}
    Consent = {c1, c2}
    MaxAges = 2
    MaxFaults = 1
INVARIANT LockoutIsExplained
PROPERTIES
    SpentIsNeverStored
    ConsentStays
    LockedOutOrServed
CHECK_DEADLOCK FALSE
