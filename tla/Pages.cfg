SPECIFICATION Spec
SYMMETRY Symmetry
\* The client may stop and every project may be deleted.
CHECK_DEADLOCK FALSE
CONSTANTS
    Projects = {p1, p2, p3}
    CreationTimes = {1, 2, 3}
    Filters <- SomeFilters
    Limits = {0, 2, 3}
    MaxRemaining = 2
    MaxTears = 2
    DefaultLimit = 1
    MaxLimit = 2
INVARIANTS
    WalkMissesFew
