CONSTANTS
    Runs = {r1, r2}
    Others = {x1}
    NoScope = none
    Requests = {q1, q2}
    e1 = e1
    e2 = e2
    e3 = e3
    e4 = e4
    Order <- MCOrder
    First = e2
    Coupled <- MCCoupled
    MaxRequests = 2
SPECIFICATION Spec
INVARIANTS ScopeRestored
CHECK_DEADLOCK FALSE
