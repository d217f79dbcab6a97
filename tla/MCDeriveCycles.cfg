CONSTANTS
    Workflows = {wA}
    MaxPasses = 2
    NoWorkflow = none
    meetings = meetings
    quarters = quarters
    planned = planned
    opened = opened
    closed = closed
    m = m
    q1 = q1
    q2 = q2
    acme = acme
    Tables = {meetings, quarters}
    Events = {planned, opened, closed}
    Ids = {m, q1, q2}
    Root <- MCRoot
    TableOf <- MCTableOf
    CreateOf <- MCCreateOf
    CycleOf <- MCCycleOf
    Subject <- MCSubject
    NoId = noid
    Clients = {c1, c2}
    Ops = {"pull", "derive", "restart"}
    MaxOps = 3
    EMIT_CHUNK = 2
SPECIFICATION Spec
INVARIANTS NoDuplicateDerived
SYMMETRY ClientSymmetry
CHECK_DEADLOCK FALSE
