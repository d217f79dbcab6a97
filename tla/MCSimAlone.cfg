CONSTANTS
    Runs = {r1, r2}
    Others = {x1}
    NoScope = none
    Requests = {q1}
    e1 = e1
    e2 = e2
    e3 = e3
    e4 = e4
    Order <- MCOrder
    First = e2
    Coupled <- MCCoupled
    MaxRequests = 6
SPECIFICATION Spec
INVARIANTS EventsInOwnCase StepsOnce
PROPERTIES StepAdvances
CHECK_DEADLOCK FALSE
