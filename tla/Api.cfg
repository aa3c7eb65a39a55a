SPECIFICATION FairApiSpec
CHECK_DEADLOCK FALSE
CONSTANTS
    finance = finance
    Managers = {m1}
    Employees = {e1}
    Finance = finance
    Topups = {t1}
    Projects = {}
    Claims = {}
    Payouts = {y1}
    Amounts = {1}
    OpeningBudget = 0
    OpeningReimburse = 1
    Handlers = {h1, h2}
    Clients <- Reviewers
    MaxFaults = 0
    NoRow = NoRow
    NoRequest = NoRequest
    NoResponse = NoResponse
PROPERTIES
    ImplementsIdempotency
    RequestsEnd
    ShutdownEnds
