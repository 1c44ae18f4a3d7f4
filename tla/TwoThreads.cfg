\* Two databases and two worker goroutines.
CONSTANTS
    d1 = d1
    d2 = d2
    DB = {d1, d2}
    UserSecrets = {}
    NoSecret = NoSecret
    NoSvc = NoSvc
    Policies = {"Delete"}
    UserOps = {}
    IsCluster = FALSE
    WaitForInitialRestore = FALSE
    NumThreads = 2
    MaxRetries = 1
    MaxLag = 2
    MaxUid = 2
    MaxEdits = 0
    MaxFaults = 0
    MaxCrashes = 0
SPECIFICATION Spec
SYMMETRY Symmetry
INVARIANTS GoverningServiceOwn
\* the databases come to rest when the users have used up their operations
CHECK_DEADLOCK FALSE
