SPECIFICATION Spec
CONSTANTS
    Keys = {k1}
    Procs = {p1}
    Touchers = {g1}
    Sizes = {1}
    TTLs = {1}
    DefaultTTL = 0
    MaxSize = 1
    MaxPuts = 1
    MaxFaults = 1
    NoKey = NoKey
    NoOne = NoOne
INVARIANT HitIsComplete
