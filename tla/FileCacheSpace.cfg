SPECIFICATION Spec
CONSTANTS
    Keys = {k1, k2}
    Procs = {p1, p2}
    Touchers = {g1}
    Sizes = {1, 3}
    TTLs = {1}
    DefaultTTL = 0
    MaxSize = 2
    MaxPuts = 3
    MaxFaults = 0
    NoKey = NoKey
    NoOne = NoOne
SYMMETRY Symmetry
INVARIANTS
    MetadataDescribesData
    SizeBounded
