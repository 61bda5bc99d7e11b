SPECIFICATION ReportsSpec
CONSTANTS
    Isle = Isle
    Coast = Coast
    City = City
    n1 = n1
    n2 = n2
    Location = {Isle, Coast, City}
    Offset <- MCOffset
    Span = 2
    DayLength = 4
    Name = {n1, n2}
    NoName = NoName
    Days = 2
    MaxNow = 14
    MaxRows = 2
    MaxHours = 1
    MaxLaunches = 2
SYMMETRY MCSymmetry
INVARIANTS ReportsTypeOK ReportIsWhole TodayAgrees
CHECK_DEADLOCK FALSE
