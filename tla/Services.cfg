SPECIFICATION MCServicesSpec
CONSTANTS
    PoolWorkers = {w1, w2}
    Tasks = {t1, t2, t3}
    Parents = {t1}
    Timed = {t2}
    BufferSize = 1
    NoTask = notask
    Triggers = {x1, x2}
    NoTrigger = notrigger
    Runs = {n1, n2}
    FailureThreshold = 2
    MaxRetryAttempts = 2
    MaxEdits = 3
    Invalid = {2}
    Reloads = {r1, r2}
    Observers = {o1}
    Callers = {q1, q2}
    Asked <- MCAskedLone
    Nobody = nobody
    e1 = e1
    e2 = e2
    e3 = e3
    g1 = g1
    g2 = g2
    Events = {e1, e2, e3}
    Groups = {g1, g2}
    GroupOf <- MCGroupOf
    MaxSize = 2
    FlushCap = 1
    Mirrors = {m1}
    Starters = {h1, h2}
    NoTicker = noticker
    MaxErrorCount = 4
INVARIANTS
    PanicOnlyAfterLateStart
    AttemptsBounded
    QuietMeansCurrent
    InstanceShared
    BatchedOnce StopFlushes
PROPERTIES
    ShutdownReturns AcceptedTaskRuns
    OutageEscalates
    ConfigConverges
    GetterReturns
    BatchedEventLeaves
    MirrorRecovers ChecksCease
CHECK_DEADLOCK FALSE
