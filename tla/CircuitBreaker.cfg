SPECIFICATION FairSpec
CONSTANTS
    Callers = {c1, c2, c3}
    FailureThreshold = 3
    SuccessThreshold = 3
    MaxRequests = 5
INVARIANTS
    TypeOK
    ClosedBelowThreshold
    BudgetSpent
PROPERTY OpenEnds
