SPECIFICATION ServicesSpec
CONSTANTS
    Requests = {r1, r2, r3, r4}
    Calls = {r1, r2, r3, r4}
    Visits = {r1, r2, r3, r4}
    Hooks = {r1, r2, r3, r4}
    Media = {m1, m2}
    Legacy = {m2}
    Techs = {t1, t2}
    Manager = Manager
    None = None
    Pins = {p1, p2}
    LongPins = {p1}
    LockThreshold = 2
    BaseLock = 1
    MaxLock = 2
    IpCap = 3
    IpWindow = 1
    Never = Never
    LastTick = 1
    Numbers = {n1, n2}
    NoNumber = NoNumber
    Names = {a, b}
    NoOne = NoOne
    MaxVisits = 3
    MaxNews = 2
    MaxHooks = 3
    NoRow = NoRow
SYMMETRY Interchangeable
INVARIANTS
    GapsAreHonest
    TombstonesNeedACrash
    ThrottleIsExact
    RevocationHolds
    ConsentFollowsLog
    OneCustomerPerPhone
    DeliveryStatusHonest
PROPERTIES
    FrozenUnlessInFlight
\* Every request has been answered: nothing is left to do.
CHECK_DEADLOCK FALSE
