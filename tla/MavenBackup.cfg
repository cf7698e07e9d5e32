SPECIFICATION BackupSpec
CONSTANTS
    Artifacts = {a1}
    Copiers = {w1}
    MaxVersions = 1
    Checking = {TRUE}
    OntoItself = TRUE
INVARIANT BackupComplete
CHECK_DEADLOCK FALSE
