SPECIFICATION Spec
\* A reviewed payout is final.
CHECK_DEADLOCK FALSE
CONSTANTS
    MaxInt = 32767
    NULL = NULL
INVARIANTS
    FeeIsFloor
    FeeAddsUp
    CompletionAllowed
