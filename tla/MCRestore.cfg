\* A standalone database that waits for its initial restore.
CONSTANTS
    d1 = d1
    DB = {d1}
    UserSecrets = {}
    NoSecret = NoSecret
    NoSvc = NoSvc
    Policies = {"Delete"}
    UserOps = {"restore", "provisioned", "spec"}
    IsCluster = FALSE
    WaitForInitialRestore = TRUE
    NumThreads = 2
    MaxRetries = 1
    MaxLag = 2
    MaxUid = 1
    MaxEdits = 1
    MaxFaults = 1
    MaxCrashes = 1
SPECIFICATION FairSpec
PROPERTIES RestoredBecomesReady
\* the databases come to rest when the users have used up their operations
CHECK_DEADLOCK FALSE
