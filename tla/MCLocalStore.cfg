SPECIFICATION Spec
CONSTANTS
    Memories = {m1, m2}
    Callers = {c1, c2}
    PageSize = 1
    MaxTime = 2
    MaxIds = 2
    MaxRows = 2
    MaxOffset = 2
    MaxListings = 1
    MaxRestarts = 1
SYMMETRY Symmetry
INVARIANTS
    TypeOK
    OneRowUnlessLost
    PagesFitTogether
PROPERTY TimesMoveForward
CHECK_DEADLOCK FALSE
