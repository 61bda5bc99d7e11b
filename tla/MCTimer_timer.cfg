SPECIFICATION Spec
CONSTANTS
    n1 = n1
    n2 = n2
    t1 = t1
    Blank = Blank
    Window = Window
    Poller = Poller
    Name = {n1, n2}
    Tray = {t1}
    MaxSessions = 2
INVARIANTS
    TickersStop
    NamedAsStarted
PROPERTY
    ImplementsStopwatch
SYMMETRY MCSymmetry
CHECK_DEADLOCK FALSE
