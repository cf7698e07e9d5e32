SPECIFICATION MCStoresSpec
CONSTANTS
    KeyIds = {k1, k2}
    Holder = holder
    Loggers = {g1}
    MaxKeysPerUser = 1
    MaxCrashes = 1
    Uploads = {u1, u2, u3}
    Chunks = 2
    RepoKeys = {f1, f2}
    Kept = {f2}
    MaxWrites = 3
    MaxMishaps = 2
    MaxPuts = 3
    Eternal = {2}
    Touches = {x1, x2}
    MaxPurges = 2
    Requests = {r1, r2, r3}
    MaxVersion = 3
    Channels = {c1}
    Senders = {s1, s2}
    Burst = 1
    Minute = 2
    Hour = 4
    BurstSize = 2
    MaxPerMinute = 3
    MaxPerHour = 4
    MaxClock = 6
    Artifacts = {a1, a2}
    Copiers = {w1, w2}
    MaxVersions = 2
    Checking = {TRUE, FALSE}
    OntoItself = TRUE
    SyncFiles = {m1, m2}
    SyncWorkers = {y1, y2}
    SyncOptions <- MCSyncOptions
    MaxSyncEdits = 2
    AuditEvents = {v1, v2, v3}
    AuditBuffer = 2
    FileSize = 1
    MaxFiles = 1
    Sweepers = {p1, p2}
    MaxSeconds = 3
INVARIANTS
    KeyQuotaHeld RevocationSticks
    BlobWholeAtRest StoredIsPresent
    FileNotOlder RemovalSticks
    S3MetaNotNewer S3EntryKept
    StaleOnlyFromFlight
    AlertLimitHeld UnregisteredIsSilent
    BackupCurrent SyncedIsCurrent
    AuditEventKept CloseDrains
CHECK_DEADLOCK FALSE
