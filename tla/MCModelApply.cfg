CONSTANTS
    order = order
    mail = mail
    m1 = m1
    m2 = m2
    Models = {m1, m2}
    Entities = {order, mail}
    Ents <- MCEnts
    Sourced = {order}
    Actuated = {mail}
    Clients = {c1, c2}
    None = None
    Earlier = Earlier
    MaxOps = 3
    MaxActs = 1
SPECIFICATION ApplySpec
INVARIANTS LoneApplyAgrees PointsAtOwnVersion LoneDeleteLeavesNothing EvidenceKept
SYMMETRY Sym
CHECK_DEADLOCK FALSE
