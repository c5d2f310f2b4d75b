SPECIFICATION Spec
CONSTANTS
    Backends = {"cognee", "letta", "graphiti"}
    Memories = {m1}
    MemoryTypes = {"fact", "core"}
    Callers = {c1, c2}
    MaxChanges = 2
SYMMETRY CallerSymmetry
INVARIANTS
    TypeOK
    OneCopyUnlessLost
    FallbackCoversAll
    UpdateReachesSource
PROPERTY KeepsPromise
CHECK_DEADLOCK FALSE
