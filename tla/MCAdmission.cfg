\* One database, created through the webhooks or stored before they were on,
\* and two users whose requests overlap each other and the operator's.
CONSTANTS
    d1 = d1
    u1 = u1
    u2 = u2
    DB = {d1}
    Users = {u1, u2}
    Versions = {"v1", "v2"}
    ClusterVersions = {"v2"}
    Claims = {"c1", "c2"}
    Secrets = {"s1", "own"}
    OwnSecret = "own"
    Creations <- MCCreations
    Edits <- MCEdits
    Legacy <- MCLegacy
    MaxRequests = 2
    MaxRestarts = 1
SPECIFICATION FairSpec
INVARIANTS TypeOK FinalizedIsWellFormed
PROPERTIES WriteOnce DoNotTerminateKept OperatorNotBlocked
\* users stop when they have used up their requests
CHECK_DEADLOCK FALSE
