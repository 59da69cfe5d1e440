CONSTANTS
    w1 = w1
    w2 = w2
    Worker = {w1, w2}
    Tenant = {"home", "abroad"}
    employs <- MCEmploys
    Company = {1, 2, 3}
    MaxSessions = 2
    MaxIds = 4
    TenantSwitch = TRUE
    OneAdmin = TRUE
    DbAnswers = TRUE
    NoId = 0
    NoCompany = 0
CONSTRAINT Focus
SYMMETRY WorkerSymmetry
SPECIFICATION Spec
CHECK_DEADLOCK FALSE
INVARIANTS TypeOK StoreBounded ObservedIdsStayAnonymous AlwaysAMember ActsForAnEmployer
PROPERTY FloodSparesUsers
