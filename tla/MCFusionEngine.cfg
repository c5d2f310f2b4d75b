SPECIFICATION Spec
CONSTANTS
    Systems = {"mem0", "cognee"}
    Memories = {m1}
    MemoryTypes = {"fact"}
    RequestSources = {{}}
    Agents = {FALSE}
    Callers = {c1, c2}
SYMMETRY CallerSymmetry
INVARIANTS
    TypeOK
    RefusedIsNotHeld
    AnswerIsComplete
    EveryErrorFits
PROPERTY KeepsPromise
