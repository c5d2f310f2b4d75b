SPECIFICATION Spec
CONSTANTS
    Backends = {"letta", "graphiti"}
    Memories = {m1}
    MemoryTypes = {"core"}
    Callers = {c1}
    MaxChanges = 1
INVARIANT UpdateReachesOwner
CHECK_DEADLOCK FALSE
