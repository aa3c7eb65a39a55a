SPECIFICATION Spec
SYMMETRY Symmetry
\* The server may be idle with nothing left to ask of it.
CHECK_DEADLOCK FALSE
CONSTANTS
    Managers = {m1, m2}
    Employees = {e1, e2}
    Finance = finance
    Topups = {t1}
    Projects = {p1, p2}
    Claims = {c1, c2}
    Payouts = {y1, y2}
    Amounts = {1, 2}
    OpeningBudget = 0
    OpeningReimburse = 0
    Handlers = {h1, h2}
    NoRow = NoRow
    NoRequest = NoRequest
INVARIANTS
    TypeOK
    IInv
    NoDeadlock
    BudgetAccounted
    ReimbursementsBacked
    LockedIsPending
    EnvelopesBacked
    ApprovedClaimsFunded
    OneClaimPerPair
PROPERTIES
    ReviewedTopupIsFinal
    ImplementsAtomic
    DeletedProjectsSpendNothing
