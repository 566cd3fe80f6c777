SPECIFICATION SelfiesSpec
CONSTANTS
    Punches <- MCPunches
    SelfieAttempts = 2
    MaxTrouble = 1
    Absent = Absent
INVARIANTS
    EvidenceKept
PROPERTIES
    PunchesSettle
\* Every punch settled or parked, and every bound reached: nothing is left to do.
CHECK_DEADLOCK FALSE
