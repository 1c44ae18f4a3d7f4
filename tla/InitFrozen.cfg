\* Two databases: one is provisioned, spec.init of the other is edited.
CONSTANTS
    d1 = d1
    d2 = d2
    u1 = u1
    DB = {d1, d2}
    Users = {u1}
    Versions = {"v1"}
    ClusterVersions = {}
    Claims = {"c1"}
    Secrets = {"own"}
    OwnSecret = "own"
    Creations <- Nothing
    Edits <- InitEdits
    Legacy <- MCLegacy
    MaxRequests = 1
    MaxRestarts = 0
SPECIFICATION Spec
INVARIANTS InitEditableBeforeProvisioned
CHECK_DEADLOCK FALSE
