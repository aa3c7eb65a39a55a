SPECIFICATION PaymentSpec
CHECK_DEADLOCK FALSE
CONSTANTS
    finance = finance
    Managers = {m1}
    Employees = {e1}
    Finance = finance
    Topups = {}
    Projects = {p1}
    Claims = {c1}
    Payouts = {}
    Amounts = {1, 2}
    OpeningBudget = 2
    OpeningReimburse = 0
    Handlers = {h1, h2}
    Clients <- Reviewers
    MaxFaults = 1
    NoRow = NoRow
    NoRequest = NoRequest
    NoResponse = NoResponse
SYMMETRY Symmetry
INVARIANTS
    SavedApprovalsArePaid
PROPERTIES
    ImplementsIdempotency
