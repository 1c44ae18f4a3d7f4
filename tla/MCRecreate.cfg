\* One name used for two databases in turn; volumes and secrets of the first
\* are kept or wait for the garbage collector when the second comes.
CONSTANTS
    d1 = d1
    DB = {d1}
    UserSecrets = {}
    NoSecret = NoSecret
    NoSvc = NoSvc
    Policies = {"Halt", "Delete"}
    UserOps = {"delete"}
    IsCluster = FALSE
    WaitForInitialRestore = FALSE
    NumThreads = 2
    MaxRetries = 1
    MaxLag = 2
    MaxUid = 2
    MaxEdits = 0
    MaxFaults = 0
    MaxCrashes = 0
SPECIFICATION Spec
INVARIANTS FinalizerHeld ObservedApplied CredentialsMatch
\* the databases come to rest when the users have used up their operations
CHECK_DEADLOCK FALSE
