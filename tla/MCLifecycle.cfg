\* One database that is edited, halted, resumed and paused while calls fail and
\* the operator restarts.  The one failure is within the retries.
CONSTANTS
    d1 = d1
    DB = {d1}
    UserSecrets = {}
    NoSecret = NoSecret
    NoSvc = NoSvc
    Policies = {"Delete"}
    UserOps = {"halt", "spec", "pause"}
    IsCluster = FALSE
    WaitForInitialRestore = FALSE
    NumThreads = 2
    MaxRetries = 1
    MaxLag = 2
    MaxUid = 1
    MaxEdits = 2
    MaxFaults = 1
    MaxCrashes = 1
SPECIFICATION FairSpec
INVARIANTS ObservedApplied GoverningServiceKept HaltedMeansGone CredentialsMatch
PROPERTIES Converges
\* the databases come to rest when the users have used up their operations
CHECK_DEADLOCK FALSE
