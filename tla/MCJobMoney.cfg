SPECIFICATION MoneySpec
CONSTANTS
    Sends = {s1, s2, s3, s4}
    Keys <- MCKeys
    KindOf <- MCKindOf
    Restored <- MCRestored
    MaxAttempts = 3
    None = None
    Submissions = {s1, s2, s3, s4}
    MaxLines = 1
    MaxMinutes = 1
    Typed = {0}
    Routes = {0, 2}
    Derived = Derived
    Rates = {1, 2}
    NoForm = NoForm
    MaxSent = 3
SYMMETRY Symmetric
INVARIANTS
    AcknowledgedIsStored
    OneEventEach
    CustomersBelong
    BillAddsUp
PROPERTIES
    ReplaysSucceed
    WriteOnceLedger
\* Every send answered: nothing is left to do.
CHECK_DEADLOCK FALSE
