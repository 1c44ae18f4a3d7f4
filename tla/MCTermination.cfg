\* One database that is deleted, at any time, under each policy; the policy
\* changes once, two calls fail, and a failing key is dropped at once.
CONSTANTS
    d1 = d1
    DB = {d1}
    UserSecrets = {}
    NoSecret = NoSecret
    NoSvc = NoSvc
    Policies = {"Halt", "Delete", "WipeOut"}
    UserOps = {"policy", "delete"}
    IsCluster = FALSE
    WaitForInitialRestore = FALSE
    NumThreads = 2
    MaxRetries = 0
    MaxLag = 1
    MaxUid = 1
    MaxEdits = 1
    MaxFaults = 2
    MaxCrashes = 0
SPECIFICATION FairSpec
INVARIANTS TypeOK PvcKeptUnderHalt SecretKeptUnlessWipeOut
PROPERTIES DeletionCompletes
\* the databases come to rest when the users have used up their operations
CHECK_DEADLOCK FALSE
