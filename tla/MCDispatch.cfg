SPECIFICATION FairBackgroundSpec
CONSTANTS
    Producers = {p1, p2, p3}
    Senders = {s1}
    Messages = {bill, ready}
    Dispatcher = dispatcher
    Passed = passed
    Poisoned = poisoned
    Limit = 2
    Content <- MCContent
    p1 = p1
    p2 = p2
    p3 = p3
    bill = bill
    ready = ready
    MaxRestarts = 1
    Phones = {x}
    Crew = {t1, t2}
    Nobody = Nobody
    Registrations = {g1, g2, g3}
    Assignments = {a1, a2}
    MaxTokens = 2
    Routes = {get, post}
    MaxServed = 2
    MaxTicks = 4
INVARIANTS
    OneDecision
    DuplicatesNeedRollback
    OnlyLateEventsSkipped
    PushesFindTheirTech
    RolledUpOnce
PROPERTIES
    TruthfulDecisions
    EventuallyHandled
\* Every request answered and every event drained: nothing is left to do.
CHECK_DEADLOCK FALSE
