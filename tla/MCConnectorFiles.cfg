CONSTANTS
    c1 = c1
    c2 = c2
    t1 = t1
    t2 = t2
    e1 = e1
    Ids = {1, 2}
    Targets = {t1, t2}
    Events = {e1}
    Clients = {c1, c2}
    Choices = {Proposed}
    None = None
    Imported = Imported
    Proposed = Proposed
    MaxOps = 4
    MaxPulls = 1
SPECIFICATION Spec
INVARIANTS RegistryFresh RulesBound OneUnlessRevived
PROPERTY ProgressKept
SYMMETRY Sym
CHECK_DEADLOCK FALSE
