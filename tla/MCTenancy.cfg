CONSTANTS
    Ids = {super, boss, guest}
    Admins = {super}
    Boss = boss
    Orgs = {home, next}
    Home = home
    Flows = {f1, f2}
    Clients = {c1, c2}
    MaxOps = 4
    None = none
SPECIFICATION Spec
INVARIANTS MembersCanSignIn OrgsStayWhole DanglingOnlyLate
PROPERTIES LoneDeletionCascades TenantsIsolated
CHECK_DEADLOCK FALSE
