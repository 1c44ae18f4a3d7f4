\* One database that waits for its initial restore, is paused, edited and deleted,
\* beside the other writers of its status; one call fails or the operator restarts.
CONSTANTS
    MaxGen = 3
    MaxChanges = 1
    MaxFaults = 1
    Agents = {"none", "builtin", "operator"}
    Edits = {"agent", "delete", "pause"}
    Restores = {"cluster", "standalone"}
SPECIFICATION MCSpec
INVARIANTS MonitorAppliedOrWarned NoStrayAgent NothingForgotten
\* the database comes to rest when the users have used up their edits
CHECK_DEADLOCK FALSE
