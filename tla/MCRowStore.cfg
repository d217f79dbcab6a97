CONSTANTS
    s = s
    x = x
    open = open
    paid = paid
    paid0 = paid0
    t1 = t1
    t2 = t2
    Declared = {s}
    Extras = {x}
    Vals = {open, paid, paid0, t1, t2}
    None = none
    Absent = absent
    Wall = wall
    NoRow = norow
    Connectors = {c1, c2}
    Callers = {u}
    Affine <- MCAffine
    Records <- MCRecords
    Roles <- MCRoles
    Patches <- MCPatches
    MaxOps = 6
SPECIFICATION Spec
INVARIANTS RepullSettles
PROPERTIES NoLostUpdate PullsKeepWitnessed
SYMMETRY Sym
CHECK_DEADLOCK FALSE
