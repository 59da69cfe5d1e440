CONSTANTS
    Thread <- MCThread
    Tenant = {"main", "branch"}
    DefaultTenant = "main"
    PoolSize = 1
    NoTenant = ""
    Code = {"billing", "gone"}
    registered = {"billing"}
    Loop <- MCLoop
    Runner <- MCRunner
    tenants <- MCTenants
    Limit = 2
    MaxFailures = 1
    NoCode = ""
    Asking <- MCAsking
    asksIn <- MCAsksIn
    MaxJobs = 1
    MaxPerUser = 1
    MaxRunning = 2
    DailyCap = 1
    Loads <- MCLoads
    MaxCrashes = 1
SPECIFICATION Spec
CHECK_DEADLOCK FALSE
INVARIANTS TypeOK NoOverlap RightDatabase
PROPERTIES EndsOnce DueJobsRun JobsEnd
