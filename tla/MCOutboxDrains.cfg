SPECIFICATION FairSpec
CONSTANTS
    Taps <- MCTaps
    Ids = {form, cash}
    IdOf <- MCIdOf
    Techs = {alice, bob}
    Owner <- MCOwner
    MaxAttempts = 2
    MaxRestarts = 1
    MaxLogins = 2
    None = None
    form = form
    cash = cash
    alice = alice
    bob = bob
PROPERTIES
    Drains
\* Everything settled and every bound reached: nothing is left to do.
CHECK_DEADLOCK FALSE
