---------------------------- MODULE StatusUpdate ----------------------------
(***************************************************************************)
(* The writers of the status of one PerconaXtraDB, one action per API call: *)
(* the operator (UpdatePerconaXtraDBStatus, which repeats its update after  *)
(* a conflict), and the worker and the delete handler of the StatefulSet    *)
(* watcher (SetCondition, which does not).  The restore controller writes   *)
(* its conditions as the watcher's worker does.                             *)
(***************************************************************************)
EXTENDS Integers

CONSTANTS MaxGen,     \* bound: generations of the spec
          MaxChanges, \* bound: changes of the pods' readiness (and, in
                      \* Monitor, times the database is paused)
          MaxFaults   \* bound: failing API calls and ends of the process

ASSUME StatusUpdateAssumption == MaxGen \in Nat \ {0} /\ MaxChanges \in Nat /\ MaxFaults \in Nat

VARIABLES
    status, gen, \* status and metadata.generation of the object
    fresh,       \* writers whose copy (while they update) has the current
                 \* resourceVersion
    at,          \* at[w]: the call that writer w makes next
    copy,        \* copy[w]: the status in w's copy of the object
    want,        \* want[w]: the fields that w sets, and their values
    sts,         \* the StatefulSet in the API server
    stsSeen,     \* the StatefulSet in the informer's store
    stsDirty,    \* its key is in the watcher's queue
    changes, faults

objectVars  == <<status, gen, fresh>>
writerVars  == <<at, copy, want>>
watchVars   == <<sts, stsSeen, stsDirty, changes>>
statusVars  == <<objectVars, writerVars, watchVars, faults>>

A == INSTANCE AtomicStatus

Writers == {"operator", "watcher", "handler"}
Calls   == {"idle", "get", "update", "refresh", "done", "failed", "getFailed"}
NoStatus == [phase |-> "", obsGen |-> 0, replicaReady |-> FALSE]
Nothing == [f \in {} |-> TRUE]

\* What a writer may set.
Share(w) == {Nothing} \cup (IF w = "operator" THEN [phase: A!Phases, obsGen: 0..MaxGen]
                                            ELSE [replicaReady: BOOLEAN])

\* The types of the object, of its writers' local state, and of the StatefulSet.
ObjectOK == status \in A!Status /\ gen \in 1..MaxGen /\ fresh \subseteq Writers

WritersOK ==
    /\ at \in [Writers -> Calls] /\ copy \in [Writers -> A!Status]
    /\ DOMAIN want = Writers /\ \A w \in Writers : want[w] \in Share(w)

WatchOK ==
    /\ sts \in {"none", "notReady", "ready"} /\ stsSeen \in {"none", "notReady", "ready"}
    /\ stsDirty \in BOOLEAN
    /\ changes \in 0..MaxChanges /\ faults \in 0..MaxFaults

StatusTypeOK == ObjectOK /\ WritersOK /\ WatchOK

\* The finalizer is there, and create has just written the phase Provisioning.
StatusInit ==
    /\ status = [NoStatus EXCEPT !.phase = "Provisioning"] /\ gen = 1 /\ fresh = {}
    /\ at = [w \in Writers |-> "idle"] /\ copy = [w \in Writers |-> NoStatus]
    /\ want = [w \in Writers |-> Nothing]
    /\ sts = "none" /\ stsSeen = "none" /\ stsDirty = FALSE
    /\ changes = 0 /\ faults = 0

-----------------------------------------------------------------------------
(* The calls of an update.  A committed change moves the resourceVersion:   *)
(* no copy is fresh any more.  An update that changes nothing does not.      *)

Fault == faults < MaxFaults /\ faults' = faults + 1
Goto(w, call) == at' = [at EXCEPT ![w] = call]

\* The copy is dropped with the result.
Finish(w, result) == Goto(w, result) /\ copy' = [copy EXCEPT ![w] = NoStatus]

Transform(s, w) == [f \in DOMAIN s |-> IF f \in DOMAIN want[w] THEN want[w][f] ELSE s[f]]

Begin(w, change) ==
    /\ at[w] \in {"idle", "done", "failed", "getFailed"}
    /\ Goto(w, "get") /\ want' = [want EXCEPT ![w] = change] /\ UNCHANGED copy

\* The caller takes the result.
End(w) ==
    /\ at[w] \in {"done", "failed", "getFailed"} /\ Goto(w, "idle")
    /\ want' = [want EXCEPT ![w] = Nothing] /\ UNCHANGED copy

Get(w) ==
    /\ at[w] \in {"get", "refresh"} /\ Goto(w, "update")
    /\ copy' = [copy EXCEPT ![w] = status] /\ fresh' = fresh \cup {w}
    /\ UNCHANGED <<status, gen, want, watchVars, faults>>

\* When the Get after a conflict fails, the old copy is used again if the error
\* is retryable.  A failed first Get leaves the operator without a result.
GetFails(w) ==
    /\ Fault
    /\ \/ at[w] = "get" /\ Finish(w, IF w = "operator" THEN "getFailed" ELSE "failed")
       \/ at[w] = "refresh" /\ Finish(w, "failed")
       \/ at[w] = "refresh" /\ Goto(w, "update") /\ UNCHANGED copy
    /\ UNCHANGED <<objectVars, want, watchVars>>

Committed(w) ==
    /\ at[w] = "update" /\ w \in fresh
    /\ status' = Transform(copy[w], w)
    /\ fresh' = IF status' = status THEN fresh \ {w} ELSE {}
    /\ UNCHANGED <<gen, want, watchVars>>

UpdateStatus(w) == Committed(w) /\ Finish(w, "done") /\ UNCHANGED faults

\* The reply is lost, or the call fails.  The operator repeats the update
\* with the copy it has: for it, a failed call is no step.
ReplyLost(w) ==
    /\ Committed(w) /\ Fault
    /\ IF w = "operator" THEN UNCHANGED <<at, copy>> ELSE Finish(w, "failed")

UpdateFails(w) ==
    /\ w # "operator" /\ at[w] = "update" /\ Fault /\ Finish(w, "failed")
    /\ fresh' = fresh \ {w}
    /\ UNCHANGED <<status, gen, want, watchVars>>

\* PollImmediate gives up.
TimesOut(w) ==
    /\ w = "operator" /\ at[w] = "update" /\ Fault /\ Finish(w, "failed")
    /\ fresh' = fresh \ {w}
    /\ UNCHANGED <<status, gen, want, watchVars>>

\* Bug: the update is repeated on the old copy with the new resourceVersion.
ConflictBug(w) ==
    /\ at[w] = "update" /\ w \notin fresh
    /\ IF w = "operator" THEN fresh' = fresh \cup {w} /\ UNCHANGED <<at, copy>>
                         ELSE Finish(w, "failed") /\ UNCHANGED fresh
    /\ UNCHANGED <<status, gen, want, watchVars, faults>>

Conflict(w) ==
    /\ at[w] = "update" /\ w \notin fresh
    /\ IF w = "operator" THEN Goto(w, "refresh") /\ UNCHANGED copy ELSE Finish(w, "failed")
    /\ UNCHANGED <<objectVars, want, watchVars, faults>>

CallOf(w) == \/ Get(w) \/ GetFails(w) \/ UpdateStatus(w) \/ ReplyLost(w)
             \/ UpdateFails(w) \/ TimesOut(w) \/ Conflict(w)

-----------------------------------------------------------------------------
(* The StatefulSet watcher. *)

SetSts(s) == sts' = s /\ UNCHANGED <<stsSeen, stsDirty>>

\* The readiness of the pods changes.
PodsChange ==
    /\ sts # "none" /\ changes < MaxChanges /\ changes' = changes + 1
    /\ SetSts(IF sts = "ready" THEN "notReady" ELSE "ready")
    /\ UNCHANGED <<objectVars, writerVars, faults>>

\* An event reaches the informer.  Add and update enqueue the key; the delete
\* handler sets the condition itself, and no event is handled meanwhile.
StsEvent ==
    /\ stsSeen # sts /\ at["handler"] = "idle"
    /\ stsSeen' = sts
    /\ IF sts = "none"
       THEN Begin("handler", [replicaReady |-> FALSE]) /\ UNCHANGED stsDirty
       ELSE stsDirty' = TRUE /\ UNCHANGED writerVars
    /\ UNCHANGED <<objectVars, sts, changes, faults>>

HandlerReturns ==
    End("handler") /\ UNCHANGED <<objectVars, watchVars, faults>>

\* Bug: the watcher sets the phase too, which is the operator's.
processStatefulSetBug ==
    /\ stsDirty /\ at["watcher"] = "idle" /\ stsDirty' = FALSE
    /\ IF stsSeen = "none" THEN UNCHANGED writerVars
       ELSE Begin("watcher", [replicaReady |-> stsSeen = "ready",
                              phase |-> IF stsSeen = "ready" THEN "Ready" ELSE "NotReady"])
    /\ UNCHANGED <<objectVars, sts, stsSeen, changes, faults>>

processStatefulSet ==
    /\ stsDirty /\ at["watcher"] = "idle" /\ stsDirty' = FALSE
    /\ IF stsSeen = "none" THEN UNCHANGED writerVars
       ELSE Begin("watcher", [replicaReady |-> stsSeen = "ready"])
    /\ UNCHANGED <<objectVars, sts, stsSeen, changes, faults>>

\* A failed key is retried; one that is dropped comes back with the resync.
\* Bug: the error is only logged.
WatcherReturnsBug ==
    End("watcher") /\ UNCHANGED <<objectVars, watchVars, faults>>

WatcherReturns ==
    /\ End("watcher") /\ stsDirty' = (stsDirty \/ at["watcher"] # "done")
    /\ UNCHANGED <<objectVars, sts, stsSeen, changes, faults>>

WatcherStep == StsEvent \/ HandlerReturns \/ processStatefulSet \/ WatcherReturns

\* The process ends and starts again: the informers list what is there, the
\* queues hold the keys of what they listed.
ForgetCalls ==
    /\ at' = [w \in Writers |-> "idle"] /\ fresh' = {}
    /\ stsSeen' = sts /\ stsDirty' = (sts # "none")
    /\ copy' = [w \in Writers |-> NoStatus] /\ want' = [w \in Writers |-> Nothing]
    /\ UNCHANGED <<status, gen, sts, changes>>

SpecChanges ==
    gen < MaxGen /\ gen' = gen + 1 /\ fresh' = {} /\ UNCHANGED status

-----------------------------------------------------------------------------
(* Properties. *)

\* Each change of the status is one writer's change of its own fields, on top
\* of all the changes before it: no writer takes back what another one wrote
\* (util/perconaxtradb.go:121-145, conditions.go:59-80).
StatusIsAtomic == A!Spec
=============================================================================
