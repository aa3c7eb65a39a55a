SPECIFICATION Spec
SYMMETRY Symmetry
\* The server may be idle with nothing left to ask of it.
CHECK_DEADLOCK FALSE
CONSTANTS
    Managers = {}
    Employees = {e1}
    Finance = finance
    Topups = {}
    Projects = {}
    Claims = {}
    Payouts = {y1, y2}
    Amounts = {1, 2}
    OpeningBudget = 0
    OpeningReimburse = 3
    Handlers = {h1, h2}
    NoRow = NoRow
    NoRequest = NoRequest
INVARIANTS
    LockedBacksPendingPayouts
