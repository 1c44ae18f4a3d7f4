\* A cluster that waits for its initial restore.
CONSTANTS
    d1 = d1
    DB = {d1}
    UserSecrets = {}
    NoSecret = NoSecret
    NoSvc = NoSvc
    Policies = {"Delete"}
    UserOps = {"restore"}
    IsCluster = TRUE
    WaitForInitialRestore = TRUE
    NumThreads = 2
    MaxRetries = 1
    MaxLag = 2
    MaxUid = 1
    MaxEdits = 0
    MaxFaults = 0
    MaxCrashes = 0
SPECIFICATION FairSpec
PROPERTIES RestoredBecomesReady
\* the databases come to rest when the users have used up their operations
CHECK_DEADLOCK FALSE
