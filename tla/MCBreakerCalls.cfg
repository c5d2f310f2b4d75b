SPECIFICATION FairSpec
CONSTANTS
    Callers = {c1, c2, c3}
    Threshold = 3
    Timeout = 2
    FailureCap = 4
INVARIANTS
    TypeOK
    OpenHoldsOnlyStragglers
    ProbationCountsThisPeriod
PROPERTIES
    TripNeedsConsecutiveFailures
    ProbeOnlyAfterCalm
    ClosedOnlyByProbation
    OpenEventuallyProbed
    RecoversForGood
