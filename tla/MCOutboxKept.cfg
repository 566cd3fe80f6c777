SPECIFICATION Spec
CONSTANTS
    Taps <- MCTaps
    Ids = {form, cash}
    IdOf <- MCIdOf
    Techs = {alice, bob}
    Owner <- MCOwner
    MaxAttempts = 2
    MaxRestarts = 1
    MaxLogins = 2
    None = None
    form = form
    cash = cash
    alice = alice
    bob = bob
INVARIANT NeverSilentlyDeleted
CHECK_DEADLOCK FALSE
