SPECIFICATION Spec
SYMMETRY Symmetry
CONSTANTS
    Handlers = {h1, h2, h3}
    Limiters = {l1, l2, l3, l4}
    Burst = 3
    NoLimiter = NoLimiter
INVARIANTS
    TypeOK
    AdmissionBounded
