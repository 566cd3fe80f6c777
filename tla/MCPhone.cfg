SPECIFICATION PhoneSpec
CONSTANTS
    Taps <- MCTaps
    Ids = {form, cash}
    IdOf <- MCIdOf
    Techs = {alice, bob}
    Owner <- MCOwner
    MaxAttempts = 2
    MaxRestarts = 1
    MaxLogins = 2
    None = None
    form = form
    cash = cash
    alice = alice
    bob = bob
    MinTrusted = 2
    MaxSpeed = 2
    MinSegment = 1
    Slack = 0
    FarOff = 1
    Circuity = 2
    Nowhere = Nowhere
    Reach = 2
    LastTick = 3
    Backdate = 1
    Future = 1
    Skews = {0, 1}
    Pins = {2}
    Mocks = {2}
    MaxPunches = 3
    MaxFixes = 2
    MaxQueued = 1
INVARIANTS
    KeptUnlessOvertaken
    QueueIsCurrent
    FuelIsHonest
\* Everything settled and every bound reached: nothing is left to do.
CHECK_DEADLOCK FALSE
