SPECIFICATION MCSpec
CONSTANTS
    DayTicks = 2
    WeekDays = 2
    Unknown = Unknown
    Technicians = {t1, t2}
    Punches = {c1, c2}
    Crossings = {x1}
    PhoneOf <- MCPhoneOf
    c1 = c1
    c2 = c2
    x1 = x1
    t1 = t1
    t2 = t2
    Corrections = {m1}
    Fixes <- MCFixes
    Photos <- MCPhotos
    Fences <- MCFences
    ShiftUpdates <- MCShiftUpdates
    Skews <- MCSkews
    Backdate = 1
    Tolerance = 0
    DriftFlag = 0
    AccuracyCeiling = 1
    DefaultShift <- MCDefaultShift
    ExportTick = 1
    Horizon = 4
    MaxExtras = 1
    ShiftEnd = 4
    Cadence = 1
    MaxUnsent = 2
    MaxBatch = 2
    PingBackdate = 2
SYMMETRY Symmetric
INVARIANTS
    CountsWhenItHappened
    BackdatingIsFlagged
    ReportsAgree
    ExportExplained
    DutyPartition
PROPERTIES
    WindowsOnlyWiden
\* The clock has reached its bound and everything is synced.
CHECK_DEADLOCK FALSE
