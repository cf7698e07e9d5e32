SPECIFICATION Spec
CONSTANTS
    Keys = {k1, k2}
    Procs = {p1, p2}
    Touchers = {g1}
    Sizes = {1}
    TTLs = {0, 1}
    DefaultTTL = 0
    MaxSize = 1
    MaxPuts = 2
    MaxFaults = 2
    NoKey = NoKey
    NoOne = NoOne
SYMMETRY Symmetry
INVARIANTS
    TypeOK
    PurgeOnlyExpired
    MetadataNotNewer
PROPERTY CacheContract
