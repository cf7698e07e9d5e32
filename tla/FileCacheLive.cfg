SPECIFICATION FairSpec
CONSTANTS
    Keys = {k1}
    Procs = {p1, p2}
    Touchers = {g1}
    Sizes = {1}
    TTLs = {1}
    DefaultTTL = 0
    MaxSize = 1
    MaxPuts = 2
    MaxFaults = 1
    NoKey = NoKey
    NoOne = NoOne
PROPERTY OperationsReturn
