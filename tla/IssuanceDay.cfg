SPECIFICATION Spec
CONSTANTS
    Subjects = {s1, s2}
    NoSubject = NoSubject
    Handlers = {h1, h2}
    RowIds = {i1, i2, i3, i4}
    Minute = 1
    Hour = 2
    Day = 3
    PerMinute = 4
    PerHour = 4
    PerClientPerHour = 2
    PerClientPerDay = 2
    MaxLag = 1
    MaxClock = 5
SYMMETRY IdSymmetry
INVARIANT ClientDayBound
