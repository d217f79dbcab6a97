CONSTANTS
    Orgs = {oA, oB}
    Bodies = {b1, b2}
    NoOrg = none
    NoHash = null
    MaxAppends = 4
    MaxTampers = 1
SPECIFICATION Spec
INVARIANTS ChainVerifies ReadStaysCurrent EntriesInCallOrder TamperingStaysVisible
CHECK_DEADLOCK FALSE
