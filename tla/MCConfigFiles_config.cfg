SPECIFICATION Spec
CONSTANTS
    Conn = {c1}
    Window = Window
    Poller = Poller
    Terminal = Terminal
    Daemon = Daemon
    Form = Form
    Url = {u1}
    None = None
    Var = {v1, v2}
    DefaultVar = v1
    Note = {n1, n2}
    NoNote = n1
    Whatever = Whatever
    Changed = {"on", "env", "note"}
    MaxTyped = 1
    MaxSaves = 1
    MaxEdits = 1
    c1 = c1
    u1 = u1
    v1 = v1
    v2 = v2
    n1 = n1
    n2 = n2
INVARIANTS TypeOK LastWordHolds TokensSurvive RefusalIsExplained
CHECK_DEADLOCK FALSE
