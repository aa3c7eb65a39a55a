SPECIFICATION HistorySpec
SYMMETRY Symmetry
\* The server may be idle with every fault used up.
CHECK_DEADLOCK FALSE
CONSTANTS
    Clients = {a}
    Reviewed = {topup}
    Topups = {topup}
    Handlers = {h1, h2}
    Failures = {500}
    MaxFaults = 0
    NoResponse = NoResponse
    NoRequest = NoRequest
INVARIANTS
    RetrySeesFirstResponse
