SPECIFICATION Spec
SYMMETRY Symmetry
\* The server may be idle with nothing left to ask of it.
CHECK_DEADLOCK FALSE
CONSTANTS
    Managers = {m1}
    Employees = {e1, e2}
    Finance = finance
    Topups = {}
    Projects = {p1}
    Claims = {c1, c2}
    Payouts = {}
    Amounts = {1, 2}
    OpeningBudget = 2
    OpeningReimburse = 0
    Handlers = {h1, h2}
    NoRow = NoRow
    NoRequest = NoRequest
INVARIANTS
    ClaimPaidOnce
