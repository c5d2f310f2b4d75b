SPECIFICATION FairSpec
CONSTANTS
    Callers = {c1}
    Clients = {"letta"}
    Threshold = 1
    Timeout = 0
    FailureCap = 1
PROPERTY
    BreakerRecovers
