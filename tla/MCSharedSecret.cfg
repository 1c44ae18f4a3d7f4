\* Two databases that may share a secret are wiped out.  Both are clusters that
\* wait for their restore, so that they have no offshoots yet.
CONSTANTS
    d1 = d1
    d2 = d2
    s1 = s1
    DB = {d1, d2}
    UserSecrets = {s1}
    NoSecret = NoSecret
    NoSvc = NoSvc
    Policies = {"WipeOut", "Delete"}
    UserOps = {"delete"}
    IsCluster = TRUE
    WaitForInitialRestore = TRUE
    NumThreads = 2
    MaxRetries = 0
    MaxLag = 2
    MaxUid = 2
    MaxEdits = 0
    MaxFaults = 0
    MaxCrashes = 1
SPECIFICATION Spec
SYMMETRY Symmetry
INVARIANTS SharedSecretKept
\* the databases come to rest when the users have used up their operations
CHECK_DEADLOCK FALSE
