------------------------------- MODULE Monitor -------------------------------
(***************************************************************************)
(* The runs of one database, with every way they end: the status is written *)
(* beside the other writers of StatusUpdate, then the monitoring agent of   *)
(* the spec is set up (ensureStatsService, manageMonitor) or, in halt and   *)
(* in terminate, taken away.  Two agents leave something behind in the      *)
(* cluster: "builtin" annotates the stats service, "operator" creates a     *)
(* ServiceMonitor that the stats service owns.                              *)
(* The calls of create before the status are one step, and the model ends   *)
(* with the object: Controller has both in detail.                          *)
(***************************************************************************)
EXTENDS StatusUpdate

CONSTANTS Agents,   \* values of spec.monitor.agent that users choose
          Edits,    \* what users and other controllers do to the object
          Restores  \* what a new database waits for: see restore

ASSUME MonitorAssumption ==
    /\ Agents \subseteq {"none", "builtin", "operator"} /\ "none" \in Agents
    /\ Edits \subseteq {"agent", "halt", "delete", "pause"}
    /\ Restores \subseteq {"none", "cluster", "standalone"}

VARIABLES
    agent, halted,  \* the spec: agent "none" is spec.monitor = nil
    deleting,       \* the object has a deletionTimestamp
    paused,         \* the condition Paused
    restore,        \* "none", or the mode of a database that waits for its
                    \* initial restore
    seen,           \* the object in the informer's store
    news,           \* the status has changed since the informer's last event
    dirty,          \* its key is in the operator's queue
    rc,             \* where the run is
    my,             \* the run's copy of the object
    svc,            \* the stats service
    serviceMonitor, \* the ServiceMonitor
    old,            \* the agent that getOldAgent returned
    warned          \* the last run ended with a warning event

specVars    == <<agent, halted, deleting>>
condVars    == <<paused, restore>>
runVars     == <<rc, my, old, warned>>
shootVars   == <<svc, serviceMonitor>>
watcherVars == <<sts, stsSeen, stsDirty>>
inputVars   == <<specVars, condVars, seen, news, dirty>>
monitorVars == <<inputVars, runVars, shootVars>>
mvars       == <<statusVars, monitorVars>>

Object == [gen |-> gen, agent |-> agent, halted |-> halted, deleting |-> deleting,
           paused |-> paused, restore |-> restore]

\* What a run uses of its copy.
Copy(o) == [gen |-> o.gen, agent |-> o.agent, restore |-> o.restore]
NoCopy  == [gen |-> 0, agent |-> "none", restore |-> "none"]

\* recorded: the annotation that names the agent; scrape: those of "builtin"
NoService == [exists |-> FALSE, recorded |-> "", scrape |-> FALSE]

RunLocs == {"idle", "sts", "ready", "stats", "old", "delete", "agent", "record",
            "halt", "haltSvcs", "haltMonitor", "halted", "fail",
            "terminate", "finalizer", "gone"}

RestoreModes == {"none", "cluster", "standalone"}

\* The object, the informer's cache of it and the work queue.
InputOK ==
    /\ agent \in Agents /\ halted \in BOOLEAN /\ deleting \in BOOLEAN
    /\ paused \in BOOLEAN /\ restore \in RestoreModes
    /\ news \in BOOLEAN /\ dirty \in BOOLEAN
    /\ seen \in [gen: 1..MaxGen, agent: Agents, halted: BOOLEAN, deleting: BOOLEAN,
                 paused: BOOLEAN, restore: RestoreModes]

\* The run of the reconcile loop: an idle worker holds no copy.
RunOK ==
    /\ rc \in RunLocs /\ my \in [gen: 0..MaxGen, agent: Agents, restore: RestoreModes]
    /\ old \in Agents \cup {""} /\ warned \in BOOLEAN
    /\ rc = "idle" => my = NoCopy

\* What monitoring creates: nothing is recorded on a Service that is gone.
ShootOK ==
    /\ svc \in [exists: BOOLEAN, recorded: (Agents \ {"none"}) \cup {""}, scrape: BOOLEAN]
    /\ ~svc.exists => svc.recorded = "" /\ ~svc.scrape
    /\ serviceMonitor \in {"none", "owned", "orphan"}

\* Every variable of the composition keeps its type.
TypeOK == StatusTypeOK /\ InputOK /\ RunOK /\ ShootOK

MInit ==
    /\ StatusInit
    /\ agent \in Agents /\ halted = FALSE /\ deleting = FALSE
    /\ paused = FALSE /\ restore \in Restores
    /\ seen = Object /\ news = FALSE /\ dirty = TRUE
    /\ rc = "idle" /\ my = NoCopy /\ old = "" /\ warned = FALSE
    /\ svc = NoService /\ serviceMonitor = "none"

-----------------------------------------------------------------------------
(* Users, other controllers and the informer, as long as the object exists. *)

Exists == rc # "gone"

Edit ==
    /\ Exists /\ SpecChanges
    /\ \/ "agent" \in Edits /\ agent' \in Agents \ {agent} /\ UNCHANGED <<halted, deleting>>
       \/ "halt" \in Edits /\ halted' = ~halted /\ UNCHANGED <<agent, deleting>>
       \/ "delete" \in Edits /\ ~deleting /\ deleting' = TRUE /\ UNCHANGED <<agent, halted>>
    /\ UNCHANGED <<writerVars, watchVars, faults, condVars, seen, news, dirty, runVars, shootVars>>

\* A condition that another controller writes: the resourceVersion moves.
Condition ==
    /\ Exists /\ fresh' = {} /\ news' = TRUE
    /\ UNCHANGED <<status, gen, writerVars, watcherVars, faults, specVars, seen, dirty, runVars,
                   shootVars>>

Pause ==
    /\ "pause" \in Edits /\ ~paused /\ paused' = TRUE /\ UNCHANGED restore
    /\ changes < MaxChanges /\ changes' = changes + 1
    /\ Condition

Unpause ==
    paused /\ paused' = FALSE /\ UNCHANGED <<restore, changes>> /\ Condition

\* DataRestored becomes true.
Restored ==
    restore # "none" /\ restore' = "none" /\ UNCHANGED <<paused, changes>> /\ Condition

\* Intermediate versions are skipped; they could only enqueue more often.
PxEvent ==
    /\ Exists /\ (seen # Object \/ news)
    /\ seen' = Object /\ news' = FALSE
    /\ dirty' = (dirty \/ news \/ deleting \/ status.obsGen # gen)
    /\ UNCHANGED <<statusVars, specVars, condVars, runVars, shootVars>>

\* The informer repeats what it has; the status in its store is the present one.
Resync ==
    /\ Exists /\ ~news /\ ~dirty /\ (seen.deleting \/ status.obsGen # seen.gen)
    /\ dirty' = TRUE
    /\ UNCHANGED <<statusVars, specVars, condVars, seen, news, runVars, shootVars>>

-----------------------------------------------------------------------------
(* The run.  A step goes on to location l; a failing monitoring call ends    *)
(* the run with a warning event, and the key is forgotten.                   *)

Go(l) == rc' = l /\ UNCHANGED <<my, old, warned>>

Return(w) == rc' = "idle" /\ my' = NoCopy /\ old' = "" /\ warned' = w

\* The status, and what pushFailureEvent writes after an error.
Report(phase, l) ==
    /\ Begin("operator", [phase |-> phase, obsGen |-> my.gen])
    /\ Go(l)

\* A monitoring call that changes the offshoots.  When it fails, its change may
\* have been made all the same.
MonitorCall(l, change, next) ==
    /\ rc = l
    /\ \/ change /\ (IF next = "idle" THEN Return(FALSE) ELSE Go(next)) /\ UNCHANGED faults
       \/ (change \/ UNCHANGED shootVars) /\ Fault /\ Return(TRUE)
    /\ UNCHANGED <<objectVars, writerVars, watchVars, inputVars>>

\* Bug: a paused database is not deleted either.
RunBug ==
    /\ dirty /\ rc = "idle" /\ dirty' = FALSE
    /\ \/ seen.paused /\ Return(FALSE)
       \/ /\ ~seen.paused /\ my' = Copy(seen) /\ warned' = FALSE /\ old' = ""
          /\ rc' = IF seen.deleting THEN "terminate" ELSE IF seen.halted THEN "halt" ELSE "sts"
    /\ UNCHANGED <<statusVars, specVars, condVars, seen, news, shootVars>>

\* A deletion comes before everything else; a paused database is left alone.
Run ==
    /\ dirty /\ rc = "idle" /\ dirty' = FALSE
    /\ \/ seen.paused /\ ~seen.deleting /\ Return(FALSE)
       \/ /\ ~seen.paused \/ seen.deleting
          /\ my' = Copy(seen) /\ warned' = FALSE /\ old' = ""
          /\ rc' = IF seen.deleting THEN "terminate" ELSE IF seen.halted THEN "halt" ELSE "sts"
    /\ UNCHANGED <<statusVars, specVars, condVars, seen, news, shootVars>>

\* Bug: the error is only logged.
ValidationFailsBug ==
    /\ rc = "sts" /\ Fault /\ Return(FALSE)
    /\ UNCHANGED <<objectVars, writerVars, watchVars, inputVars, shootVars>>

\* create ends when the validation refuses the object or one of its calls fails:
\* with a warning event and without an error, so that the key is forgotten.
ValidationFails ==
    /\ rc = "sts" /\ Fault /\ Return(TRUE)
    /\ UNCHANGED <<objectVars, writerVars, watchVars, inputVars, shootVars>>

CreatedSts == IF sts = "none" THEN "notReady" ELSE sts

\* create ends without an error, an event or a status while the initial restore
\* is awaited: a cluster before its StatefulSet, a standalone database after.
WaitForInitialRestore ==
    /\ rc = "sts" /\ my.restore # "none" /\ Return(FALSE)
    /\ SetSts(IF my.restore = "standalone" THEN CreatedSts ELSE sts)
    /\ UNCHANGED <<objectVars, writerVars, changes, faults, inputVars, shootVars>>

\* create up to the status: the StatefulSet is there.  The wait for its pods may
\* expire, and any call may fail.
EnsureStatefulSet ==
    /\ rc = "sts" /\ my.restore # "cluster"
    /\ \/ /\ SetSts(CreatedSts)
          /\ \/ my.restore = "none" /\ Report("Ready", "ready")
             \/ sts # "ready" /\ Report("NotReady", "fail")
          /\ UNCHANGED faults
       \/ UNCHANGED watcherVars /\ Fault /\ Report("NotReady", "fail")
    /\ UNCHANGED <<objectVars, changes, inputVars, shootVars>>

SetReady ==
    /\ rc = "ready"
    /\ \/ at["operator"] = "done" /\ End("operator") /\ Go("stats")
       \/ at["operator"] \in {"failed", "getFailed"} /\ Report("NotReady", "fail")
    /\ UNCHANGED <<objectVars, watchVars, faults, inputVars, shootVars>>

ensureStatsService ==
    MonitorCall("stats",
        /\ svc' = IF my.agent = "none" THEN svc ELSE [svc EXCEPT !.exists = TRUE]
        /\ UNCHANGED serviceMonitor, "old")

\* An error is taken for "no agent".
getOldAgent ==
    /\ rc = "old"
    /\ \E a \in {svc.recorded, ""} :
          /\ IF a = svc.recorded THEN UNCHANGED faults ELSE Fault
          /\ \/ a \notin {"", my.agent} /\ rc' = "delete" /\ old' = a /\ UNCHANGED <<my, warned>>
             \/ a \in {"", my.agent} /\ my.agent = "none" /\ Return(FALSE)
             \/ a \in {"", my.agent} /\ my.agent # "none" /\ Go("agent")
    /\ UNCHANGED <<objectVars, writerVars, watchVars, inputVars, shootVars>>

\* agent.Delete: its error, if there was nothing to delete, is only logged.
Delete(a) ==
    /\ svc' = IF a = "builtin" THEN [svc EXCEPT !.scrape = FALSE] ELSE svc
    /\ serviceMonitor' = IF a = "operator" THEN "none" ELSE serviceMonitor

\* Bug: the old agent is not deleted when monitoring is switched off.
DeleteOldAgentBug ==
    /\ rc = "delete"
    /\ \/ my.agent # "none" /\ Delete(old) /\ UNCHANGED faults
       \/ my.agent = "none" /\ UNCHANGED <<shootVars, faults>>
    /\ IF my.agent = "none" THEN Return(FALSE) ELSE Go("agent")
    /\ UNCHANGED <<objectVars, writerVars, watchVars, inputVars>>

DeleteOldAgent ==
    /\ rc = "delete"
    /\ \/ Delete(old) /\ UNCHANGED faults
       \/ Fault /\ UNCHANGED shootVars
    /\ IF my.agent = "none" THEN Return(FALSE) ELSE Go("agent")
    /\ UNCHANGED <<objectVars, writerVars, watchVars, inputVars>>

\* agent.CreateOrUpdate.  A ServiceMonitor of an earlier stats service cannot
\* get a second controller: it is left as it is, and the call fails.
CreateOrUpdate ==
    /\ svc' = IF my.agent = "builtin" THEN [svc EXCEPT !.scrape = TRUE] ELSE svc
    /\ serviceMonitor' = IF my.agent = "operator" /\ serviceMonitor = "none"
                         THEN "owned" ELSE serviceMonitor

\* Bug: the error about the second controller is dropped.
addOrUpdateMonitorBug == MonitorCall("agent", CreateOrUpdate, "record")

addOrUpdateMonitor ==
    IF rc = "agent" /\ my.agent = "operator" /\ serviceMonitor = "orphan"
    THEN Return(TRUE) /\ UNCHANGED <<statusVars, inputVars, shootVars>>
    ELSE MonitorCall("agent", CreateOrUpdate, "record")

setNewAgent ==
    MonitorCall("record",
        svc' = [svc EXCEPT !.recorded = my.agent] /\ UNCHANGED serviceMonitor, "idle")

-----------------------------------------------------------------------------
(* halt. *)

HaltCall(l, change, next) ==
    /\ rc = l
    /\ \/ change /\ Go(next) /\ UNCHANGED <<writerVars, faults>>
       \/ (change \/ UNCHANGED <<watcherVars, shootVars>>) /\ Fault /\ Report("NotReady", "fail")
    /\ UNCHANGED <<objectVars, changes, inputVars>>

\* Bug: Halted is reported at once.
HaltStatefulSetBug ==
    /\ rc = "halt" /\ SetSts("none") /\ Report("Halted", "halted")
    /\ UNCHANGED <<objectVars, changes, faults, inputVars, shootVars>>

HaltStatefulSet ==
    HaltCall("halt", SetSts("none") /\ UNCHANGED shootVars, "haltSvcs")

\* A ServiceMonitor whose stats service goes is left to the garbage collector.
Orphaned == IF serviceMonitor = "owned" THEN "orphan" ELSE serviceMonitor

HaltServices ==
    HaltCall("haltSvcs",
        /\ svc' = NoService
        /\ serviceMonitor' = Orphaned
        /\ UNCHANGED watcherVars, "haltMonitor")

\* An error of deleteMonitor is only logged; waitUntilPaused may expire.
HaltMonitor ==
    /\ rc = "haltMonitor"
    /\ \/ Delete(my.agent) /\ UNCHANGED faults /\ Report("Halted", "halted")
       \/ UNCHANGED shootVars /\ Fault /\ Report("Halted", "halted")
       \/ Delete(my.agent) /\ Fault /\ Report("NotReady", "fail")
    /\ UNCHANGED <<objectVars, watchVars, inputVars>>

SetHalted ==
    /\ rc = "halted"
    /\ \/ at["operator"] = "done" /\ End("operator") /\ Return(FALSE)
       \/ at["operator"] \in {"failed", "getFailed"} /\ Report("NotReady", "fail")
    /\ UNCHANGED <<objectVars, watchVars, faults, inputVars, shootVars>>

\* runPerconaXtraDB returns the error after pushFailureEvent, which has made an
\* event of it.  The key is retried, or dropped after too many retries.
PushFailureEvent ==
    /\ rc = "fail" /\ at["operator"] \in {"done", "failed"}
    /\ End("operator") /\ Return(TRUE) /\ dirty' \in {dirty, TRUE}
    /\ UNCHANGED <<objectVars, watchVars, faults, specVars, condVars, seen, news, shootVars>>

-----------------------------------------------------------------------------
(* terminate. *)

\* The error is returned without an event: the key is retried, or dropped.
TerminateFails == Fault /\ Return(FALSE) /\ dirty' \in {dirty, TRUE} /\ UNCHANGED shootVars

\* The owner references (see Controller), then deleteMonitor, whose error is
\* only logged.
terminate ==
    /\ rc = "terminate"
    /\ \/ Delete(my.agent) /\ Go("finalizer") /\ UNCHANGED <<faults, dirty>>
       \/ UNCHANGED shootVars /\ Fault /\ Go("finalizer") /\ UNCHANGED dirty
       \/ TerminateFails
    /\ UNCHANGED <<objectVars, writerVars, watchVars, specVars, condVars, seen, news>>

RemoveFinalizer ==
    /\ rc = "finalizer"
    /\ \/ Go("gone") /\ UNCHANGED <<faults, dirty, shootVars>>
       \/ TerminateFails
    /\ UNCHANGED <<objectVars, writerVars, watchVars, specVars, condVars, seen, news>>

-----------------------------------------------------------------------------
(* The process ends: a crash, or the nil result of a failed Get that         *)
(* pushFailureEvent dereferences.                                            *)

Restart ==
    /\ ForgetCalls
    /\ seen' = Object /\ news' = FALSE /\ dirty' = TRUE /\ Return(FALSE)
    /\ UNCHANGED <<specVars, condVars, shootVars>>

Crash == Exists /\ Fault /\ Restart

PushFailurePanics ==
    rc = "fail" /\ at["operator"] = "getFailed" /\ Restart /\ UNCHANGED faults

\* The garbage collector: the stats service goes with the object.
CollectService ==
    /\ ~Exists /\ svc.exists /\ svc' = NoService /\ serviceMonitor' = Orphaned
    /\ UNCHANGED <<statusVars, inputVars, runVars>>

CollectServiceMonitor ==
    /\ serviceMonitor = "orphan" /\ serviceMonitor' = "none"
    /\ UNCHANGED <<statusVars, inputVars, runVars, svc>>

OperatorStep ==
    \/ Run \/ ValidationFails \/ WaitForInitialRestore \/ EnsureStatefulSet \/ SetReady
    \/ ensureStatsService \/ getOldAgent \/ DeleteOldAgent \/ addOrUpdateMonitor \/ setNewAgent
    \/ HaltStatefulSet \/ HaltServices \/ HaltMonitor \/ SetHalted
    \/ PushFailureEvent \/ PushFailurePanics
    \/ terminate \/ RemoveFinalizer

StatusCall(w) ==
    /\ Exists /\ CallOf(w) /\ news' = (news \/ status' # status)
    /\ UNCHANGED <<specVars, condVars, seen, dirty, runVars, shootVars>>

StsWatcher == Exists /\ (WatcherStep \/ PodsChange) /\ UNCHANGED monitorVars

MNext ==
    \/ OperatorStep
    \/ Edit \/ Pause \/ Unpause \/ Restored
    \/ PxEvent \/ Resync \/ Crash \/ CollectService \/ CollectServiceMonitor
    \/ \E w \in Writers : StatusCall(w)
    \/ StsWatcher

MSpec == MInit /\ [][MNext]_mvars

-----------------------------------------------------------------------------
(* Properties. *)

Settled == rc = "idle" /\ ~dirty /\ seen = Object /\ ~news

Active == (IF svc.scrape THEN {"builtin"} ELSE {})
          \cup (IF serviceMonitor = "owned" THEN {"operator"} ELSE {})

\* A run that finds this ends without doing its work, and without an event.
Waits(o) == o.paused \/ (~o.halted /\ o.restore # "none")

\* The errors of validation and of monitoring are swallowed
\* (percona_xtradb.go:39-49, 161-185): when the operator has come to rest and
\* the database is neither paused nor waiting for its initial restore, the
\* agent asked for is set up, or an event says that it is not.
MonitorAppliedOrWarned ==
    Settled /\ ~deleting /\ ~halted /\ agent # "none" /\ ~Waits(Object) => agent \in Active \/ warned

\* However the edits and the runs interleave, no other agent is left behind
\* (monitor.go:89-108).  Left out are a failing call or restart (the error of
\* deleting the old agent is only logged), and the runs that end before they get
\* there, after which the old agent stays: those that find the database paused
\* or waiting, and those that end with a warning event.
NoStrayAgent ==
    Settled /\ faults = 0 /\ ~warned /\ ~Waits(Object)
        => Active \subseteq (IF halted THEN {} ELSE {agent})

\* A database that reports Halted has no stats service and no ServiceMonitor
\* that the garbage collector leaves, although its status is written by others
\* at the same time and its calls fail (dormant.go:186-210).
HaltedUnmonitored ==
    status.phase = "Halted" => ~svc.exists /\ serviceMonitor # "owned"

\* No conflict, failed call or restart loses a wake-up silently.  When the
\* operator has come to rest the status reports the generation unless a warning
\* event says why not, or the database is paused or waits for its initial
\* restore; a deletion rests only after a failed call, until the resync.  When
\* the watcher has come to rest, ReplicaReady says whether the pods of an
\* existing StatefulSet are ready (handler.go:97-109, workqueue.go:54-77,
\* percona_xtradb.go:39-80, 135-148, statefulset/controller.go:112-131).
NothingForgotten ==
    /\ Settled => IF deleting THEN faults > 0
                             ELSE status.obsGen = gen \/ warned \/ Waits(Object)
    /\ stsSeen = sts /\ ~stsDirty /\ at["watcher"] = "idle" /\ sts # "none"
       => status.replicaReady = (sts = "ready")
=============================================================================
