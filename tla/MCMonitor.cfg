\* One database with either agent or none, edited and halted, beside the other
\* writers of its status; one call fails or the operator restarts once.
CONSTANTS
    MaxGen = 3
    MaxChanges = 1
    MaxFaults = 1
    Agents = {"none", "builtin", "operator"}
    Edits = {"agent", "halt"}
    Restores = {"none"}
SPECIFICATION MCSpec
INVARIANTS TypeOK MonitorAppliedOrWarned NoStrayAgent HaltedUnmonitored NothingForgotten
PROPERTIES StatusIsAtomic
\* the database comes to rest when the users have used up their edits
CHECK_DEADLOCK FALSE
