CONSTANTS
    order = order
    task = task
    note = note
    q1 = q1
    q2 = q2
    placed = placed
    assigned = assigned
    done = done
    noted = noted
    opened = opened
    Ids = {order, task, note, q1, q2}
    Roots = {order}
    Refs <- MCRefs
    CycleOf <- MCCycleOf
    Siblings <- MCSiblings
    Plan <- MCPlan
    Creates = {placed, assigned, noted, opened}
    OpenedBy <- MCOpenedBy
    Carriers = {assigned, noted}
    Pinned = {pinned}
    None = none
    Clients = {c1, c2}
    MaxOps = 3
    Keys <- MCKeys
    Graphs <- MCGraphs
SPECIFICATION ActionsSpec
INVARIANTS CaseKept CasesAnchored PathsAgree SweepIsExact NeverWedged FreshIsCurrent
SYMMETRY Symmetric
CHECK_DEADLOCK FALSE
