CONSTANTS
    Orgs = {oA}
    Workflows = {wA, wB}
    ORG_SCOPE = org
    Readers = {r1, r2}
    MAX_ENTRIES = 2
    TTL = 2
    MaxCompute = 1
    MaxTime = 3
    MaxWrites = 2
SPECIFICATION CacheSpec
INVARIANTS MapBounded StalenessBounded StaleOnlyByOverlap
SYMMETRY Sym
CHECK_DEADLOCK FALSE
