SPECIFICATION Spec
SYMMETRY Symmetry
\* The clock is bounded and every session may end up blocked or expired.
CHECK_DEADLOCK FALSE
CONSTANTS
    a = a
    b = b
    Emails = {a, b}
    UserIds = {u1}
    Handlers = {h1, h2}
    Seeds <- TwoSeeds
    SessionIds = {1, 2, 3}
    Lifetime = 0
    AccessLifetime = 1
    MaxTime = 1
    NoUser = NoUser
    NoSession = NoSession
    NoRequest = NoRequest
INVARIANTS
    ReplacedOnce
