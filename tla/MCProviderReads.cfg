SPECIFICATION ReadsFairSpec
CONSTANTS
    Backends = {"mem0", "letta"}
    Memories = {m1}
    MemoryTypes = {"core"}
    Callers = {c1, c2}
    MaxChanges = 1
    Readers = {r1}
INVARIANT ReadsAreComplete
PROPERTY NobodyWaitsForEver
CHECK_DEADLOCK FALSE
