SPECIFICATION FairSpec
CONSTANTS
    Callers = {c1, c2}
    FailureThreshold = 3
    SuccessThreshold = 3
    MaxRequests = 3
PROPERTY BreakerRecovers
