SPECIFICATION FairSpec
CONSTANTS
    Callers = {c1, c2}
    Clients = {"mem0", "cognee", "graphiti", "letta"}
    Threshold = 1
    Timeout = 0
    FailureCap = 1
INVARIANTS
    TypeOK
    OneAgent
    AgentKnownBeforeUse
    AcknowledgedIsApplied
PROPERTIES
    OperationsReturn
    BreakerRecoversWithAgent
