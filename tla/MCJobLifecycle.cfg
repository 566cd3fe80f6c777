SPECIFICATION Spec
CONSTANTS
    Requests = {r1, r2, r3, r4}
    Techs = {t1, t2}
    Forms <- MCForms
    Rates <- MCRates
    Amounts = {10, 20}
    Total <- MCTotal
    IntakeTech = None
    MaxClosing = 1
    None = None
SYMMETRY Symmetric
INVARIANTS
    ClosedIsBilled
    BillStatusSound
    ClaimStands
    AcceptedWritesStand
    TimelineExplainsRow
PROPERTIES
    NeverRepriced
    SettledUnlessInFlight
