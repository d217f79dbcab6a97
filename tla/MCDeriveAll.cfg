CONSTANTS
    Workflows = {wA}
    MaxPasses = 3
    NoWorkflow = none
    meetings = meetings
    quarters = quarters
    planned = planned
    opened = opened
    closed = closed
    m = m
    q1 = q1
    q2 = q2
    acme = acme
    Tables = {quarters}
    Events = {opened, closed}
    Ids = {q1}
    Root <- MCRoot
    TableOf <- MCTableOf
    CreateOf <- MCCreateOf
    CycleOf <- MCCycleOf
    Subject <- MCSubject
    NoId = noid
    Clients = {c1, c2}
    Ops = {"pull", "derive", "command", "rebuild", "purge", "reset", "restart"}
    MaxOps = 3
    EMIT_CHUNK = 1
SPECIFICATION FairSpec
INVARIANTS CallOrder PromisedEventsLogged
PROPERTIES RequestsEnd
CHECK_DEADLOCK FALSE
