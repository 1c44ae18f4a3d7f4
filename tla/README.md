# A TLA+ specification of the Percona XtraDB operator

The repository is a Kubernetes operator: it watches `PerconaXtraDB` objects and
makes a StatefulSet, services, RBAC objects, a secret and an AppBinding for each
of them. This directory models that control loop, checks it with TLC on small
instances and proves its safety properties with TLAPS for instances of any size.

Paths below are relative to `src/`; `queue.go`, `delaying_queue.go` are those of
`vendor/k8s.io/client-go/util/workqueue/`, `worker.go` and `handler.go` those of
`vendor/kmodules.xyz/client-go/tools/queue/`; the other short names are files of
`pkg/controller/`.

## 1. Inventory

| Component | State | Operations | Where |
|---|---|---|---|
| work queue and worker loop | `queue`, `dirty`, `processing`; keys in back-off; failures per key | Add, Get, Done, AddRateLimited, Forget, ShutDown, processNextEntry | `queue.go`, `delaying_queue.go`, `worker.go`, `handler.go` |
| reconcile loop | the field `GoverningService`; the informer's store | initWatcher, runPerconaXtraDB, pushFailureEvent | `workqueue.go`, `controller.go` |
| create | offshoots in the API server, status of the object | validation, services, RBAC, secret, StatefulSet, wait for pods, AppBinding, status | `percona_xtradb.go`, `service.go`, `rbac.go`, `secret.go`, `statefulset.go`, `appbinding.go` |
| halt | offshoots | haltDatabase, waitUntilPaused | `percona_xtradb.go`, `dormant.go` |
| terminate | owner references of claims and secrets, finalizer | removeOwnerReferenceFromOffshoots, setOwnerReferenceToOffshoots, wipeOutDatabase, secretsUsedByPeers | `percona_xtradb.go`, `dormant.go` |
| admission webhooks | a package-level set of immutable fields, whether Initialize was called | Initialize, Admit of the mutator and of the validator (create, update, delete) | `pkg/admission/` |
| initial restore | condition DataRestored | processRestoreSession | `vendor/kubedb.dev/apimachinery/pkg/controller/initializer/stash/` |
| status updates | status of the object | UpdatePerconaXtraDBStatus (repeats on conflict), SetCondition (does not) | `vendor/kubedb.dev/apimachinery/client/clientset/versioned/typed/kubedb/v1alpha2/util/perconaxtradb.go` |
| monitoring | stats service with its annotations, ServiceMonitor | ensureStatsService, getOldAgent, addOrUpdateMonitor, setNewAgent, deleteMonitor | `monitor.go`, `service.go` |
| StatefulSet watcher | its informer's store and queue, condition ReplicaReady | event handlers, processStatefulSet | `vendor/kubedb.dev/apimachinery/pkg/controller/statefulset/` |
| command line, API server, pod specification, tests | none | | `pkg/cmds`, `pkg/server`, `statefulset.go`, `test/e2e` |

How they interact. An informer keeps a copy of all `PerconaXtraDB` objects and calls
an event handler for each change; the handler puts the key of the object into the
work queue. `NumThreads` goroutines (2, `pkg/cmds/server/options.go:70`; no flag
changes it) take keys from the queue, read the object from the informer's store, and
run create, halt or terminate, which are sequences of API calls. An error goes back
to the worker loop, which tries the key again up to `MaxNumRequeues` times (5 by
default). A resync timer (10 minutes) repeats an update event for every object.
Outside the process, users edit and delete objects through the webhooks, the
StatefulSet controller makes pods and claims, the garbage collector removes objects
whose owner is gone, and Stash restores backups; a second controller in the process
turns the result of a restore into the condition DataRestored. A third one watches
the StatefulSets and writes the condition ReplicaReady. After a create has written
the status it sets up monitoring. The operator's own patches of its objects pass its
own webhooks, which run in the same process.

What is hard here:

- every reconcile works on a copy of its object that may be old, and mixes it
  with replies that are newer than the cache;
- events, back-off timers, workers and shutdown act on one queue;
- the goroutines share the controller's fields;
- any call can fail, the process can stop between two calls, and what was done
  before is not undone; errors are retried a bounded number of times;
- a name can be used again while the offshoots of the earlier object still exist;
- deletion is split between the operator (owner references) and the garbage
  collector, and decided by a policy that may change meanwhile;
- admission requests overlap, share a variable without a lock, and decide on what
  they read before the commit;
- several writers replace the same status, and replies can be lost;
- monitoring errors are swallowed after the status is written, and the record of
  the agent in use lives on an object that halt deletes.

`PROJECT.json` lists these hazards one by one at their lines. What makes the
components correct: no key is worked on twice at a time and none is lost (work
queue); what the status says is what is there, and the operator gets there
(create, halt); what the termination policy keeps is kept and what it gives up
goes (terminate); the object under work cannot disappear (reconcile loop); what
is immutable stays and the operator is not locked out (webhooks); no writer undoes
another one's change and no wake-up is lost (status); the agent of the spec, and
no other, watches a running database (monitoring).

## 2. Modules

| Module | What it is |
|---|---|
| `KeyQueue` | what the work queue promises: keys are marked, taken when nobody has them, released |
| `WorkQueue` | the queue and the worker loop as coded; implements `KeyQueue` |
| `WorkQueueProofs` | inductive invariant of `WorkQueue`, its safety theorems, the refinement |
| `Controller` | the reconcile loop over `KeyQueue`, with everything around it |
| `Admission` | the webhooks as coded, between the requests of users and operator and the API server's commit |
| `AtomicStatus` | what the writers of the status promise each other |
| `StatusUpdate` | the calls of the three writers and the StatefulSet watcher; no specification of its own |
| `Monitor` | composes `StatusUpdate` with the reconcile runs of one database and all their ends: status, monitoring, halt, terminate, the early returns; implements `AtomicStatus` |
| `ControllerProofs` | inductive invariant of `Controller`, type correctness, finalizer, secrets and claims |
| `SharingProofs` | what databases share: the field `GoverningService`, secrets used by peers; extends `ControllerProofs` |
| `HaltProofs` | what is reported Halted is gone; extends `SharingProofs` |
| `CredentialsProofs` | volumes and secrets have the same password; extends `SharingProofs` |
| `ReadyProofs` | what is reported Ready is in place; extends `HaltProofs` and `CredentialsProofs` |
| `AdmissionProofs` | inductive invariant of `Admission` and its safety theorems |
| `MonitorProofs` | inductive invariant of `Monitor`, its safety theorems, the refinement of `AtomicStatus` |
| `MCWorkQueue`, `MCController`, `MCAdmission`, `MCMonitor` | instances for TLC |

### WorkQueue

The variables are the fields of `Type` (`queue`, `dirty`, `processing`,
`shuttingDown`), the keys in the heap of the delaying queue (`waiting`), the
counters of the rate limiter (`failures`), and per goroutine the key it holds
and its place in `processNextEntry`. Each method that holds the lock of the
queue is one step: `Enqueue` (an informer event), `WaitingLoop` (a back-off
ends), `Get`, `Quit` (Get on an empty queue that shuts down), `Succeed`, `Retry`
and `Drop` (what `processNextEntry` does with the result), `Done`, `ShutDown`.
What reconcile does is left open: it returns nil or an error. Back-off delays
are arbitrary. After ShutDown, Add and AddAfter do nothing, so that a key in
back-off is dropped; the code does the same.

### Controller

The work queue appears as `KeyQueue`: `dirty` is its `need`, and a database is
busy while `pc[d] # "idle"`. Because no two goroutines have the same key, the
local state of the goroutine that works on `d` is indexed by `d`; at most
`NumThreads` databases are busy.

- `px[d]` is the object in the API server, `watch` the versions that the
  informer has still to see (one sequence for all objects, as in one watch),
  `cache` the informer's store, `my[d]` the goroutine's copy.
- `res`, `sts`, `pods`, `pvc`, `secrets` are the offshoots, reduced to what the
  properties tell apart: the uid in the controller reference (`Absent`: no such
  object, `Unowned`: no owner), for a StatefulSet also its governing service,
  the revision of the spec and the secret it refers to, for claims and secrets
  the password they hold.
- `governingService` is the field `Controller.GoverningService`.
- `asked` is a history variable: under which policies an incarnation was being
  deleted and which databases existed when its deletion was asked for.

One action is one API call of create, halt and terminate, with the local code up
to the next call; `Error` says where an error goes from each call (swallowed in
validation, returned by the finalizer patches and by terminate, reported with
pushFailureEvent by the rest). `NotFound` is the certain error when the object
is gone, `CallFails` any other one, `CreateRejected` and `TerminateRejected` the
API server's refusal of a second controller reference or of a new serviceName.
A finalizer patch that changes nothing is not sent and cannot fail (`Silent`).

Deliberate abstractions:

- the informer's store and its handler are updated in one step; a restart is one
  step;
- a call that fails after it took effect is the same as the next call failing;
- the service account, role and binding are one object, as are the claims of a
  database and its pods; halt deletes the services in one step and its waits are
  one wait; PodDisruptionBudgets and Deployments are never made by this operator;
- `spec.monitor` is nil, so that nothing happens after Ready was written, and
  deleteMonitor at the end of terminate has nothing to do (what happens otherwise is
  in `Monitor`); the webhooks are part of the user's request
  (they are split in `Admission`); a status update is one step, which the
  refinement of `AtomicStatus` justifies;
- ensureStatefulSet patches in nearly every pass and then waits for the pods: the
  claim template and a securityContext that the user left out are written without
  the defaults that the API server has filled in. With Ephemeral storage and a
  securityContext of the user's, the patch can be empty and the wait is skipped.
  Neither is in the model's spec, so that `EnsureStatefulSet` allows both when the
  StatefulSet is as desired;
- objects of strangers under the names the operator uses do not occur (the
  operator checks a label before it touches one);
- the conditions ReplicaReady (see `StatusUpdate`) and DataRestoreStarted are left
  out, nothing in the operator reads them; Provisioned and Paused are written by others;
- orphaned pods (their StatefulSet is gone) may still be Ready: the wait for pods
  selects them by label;
- users, the StatefulSet controller, the garbage collector and Stash are not in
  this repository; they are modelled from what the code expects of them.

### Admission

`px[d]` is the stored object with the fields of the spec that a webhook reads; `""`
and 0 are fields that are not set. A request goes through `mutate`, `validate`,
`insert`, `list` and `commit`, and every client has one under way: each user, and the
operator for each database (the clients in `DB`). `Mutate` is the API server's read
with the mutator's Admit, `Validate` the validator's up to the comparison of an
update, `Insert` and `List` the two accesses of getPreconditionFunc to the set
`preconditionSpecFields`, `Commit` the API server's compare-and-swap, which starts
again after a conflict: a request is `fresh` while the object still has the
resourceVersion that was read, and `Outdated` marks the requests on an object when it
is written. `ConcurrentMapAccess` is what the Go runtime may do when an insertion
meets another access: it ends the process. `DeleteAllowed` reads the stored object at
the time of the call, as the validator's own Get does. Initially objects may be
stored without defaults: the webhooks are switched on by flags. They have no
finalizer yet: what the operator has already worked on while the webhooks were off is
excluded by `Init`, since nothing would have checked it (FinalizedIsWellFormed is
about what passed them). Environment variables, the length of the cluster name and
the monitor are one field that is valid or not; resources without a name (the
deletion of a collection) reach the validator without name and are let through, as in
the code.

### StatusUpdate and Monitor

`at[w]`, `copy[w]` and `want[w]` are the local state of a writer: the operator,
the worker of the StatefulSet watcher and its delete handler. `fresh` holds the
writers whose copy still has the resourceVersion of the object, so that no
counter is needed. The operator repeats an update after any error with the copy it has (the
test of the outer `err` in `util/perconaxtradb.go:141` is never true), and after a
conflict with a new one; the watcher returns the error to its worker loop, and
its delete handler only logs it. A reply can be lost after the commit.

`Monitor` adds the object (`agent`, `halted`, `deleting`, the conditions `paused` and
`restore`), the informer's copy of it (`seen`), the key in the queue (`dirty`) and the
run (`rc`, `my`). The status writes of the run go through `Begin` and `End` of
`StatusUpdate` and interleave call by call with the watcher's. A run goes one of these
ways:

- create: `EnsureStatefulSet` (its calls up to the status, in one step), `SetReady`,
  then ensureStatsService and manageMonitor call by call;
- create that ends early and returns nil, so that the key is forgotten:
  `ValidationFails` (`percona_xtradb.go:39-49`; an event, no status) when the
  validation refuses the object or one of its calls fails, and
  `WaitForInitialRestore` (lines 66-80 and 135-148; neither event nor status) for a
  cluster before its StatefulSet, for a standalone database after it;
- halt: the StatefulSet, the stats service, the agent, the status;
- terminate (`workqueue.go:54-65`): the agent is deleted, then the finalizer; the model
  ends with the object, whose stats service is collected;
- a paused database is left alone (`workqueue.go:75-77`), unless it is being deleted;
- an error: before the status it is reported with pushFailureEvent, in monitoring with
  an event only, in terminate it is only returned. A retry, and a key dropped because
  its retries are used up, are both possible after every returned error (they are
  counted in `Controller`). A refusal by the validation counts as a failure.

`PxEvent` and `Resync` follow `handler.go:97-109`: an update enqueues the key if the
object is being deleted, is not observed, or its status has changed. Of the two
agents, "builtin" annotates the stats service (`scrape`) and "operator" makes a
ServiceMonitor, which the stats service owns and which is an "orphan" once that is
gone. The finalizer is there and the phase Provisioning is written when the model
begins. Who writes Paused and DataRestored is outside: `Condition`.

### Mutants

The definitions named `...Bug` are plausible mistakes in the definition that
follows them. Each property of a passing run is violated when one of them
replaces its original; `PROJECT.json` lists which.

## 3. Runs

Every run ends within three minutes on two cores.

| Run | Checks | Shows |
|---|---|---|
| `work_queue` | TypeOK, MutualExclusion, QueueOfDirty, NoLostKey, ProcessingIsHeld, ExitedMeansDrained, KeyQueueSpec, EventIsProcessed, FailedKeyIsRetried | the queue loses no event, hands out no key twice, drains on shutdown, retries failures, and implements `KeyQueue` |
| `lifecycle` | ObservedApplied, GoverningServiceKept, HaltedMeansGone, CredentialsMatch, Converges | through two edits, halts, resumes or pauses, a failing call and a restart (also by the panic in pushFailureEvent) the status is true, and the desired state is reached |
| `termination` | TypeOK, PvcKeptUnderHalt, SecretKeptUnlessWipeOut, DeletionCompletes | nothing is given up that the policy keeps, with a policy change and two failures within the deletion, and the deletion completes although there is no retry |
| `recreate` | FinalizerHeld, ObservedApplied, CredentialsMatch | a name used again while caches and the garbage collector lag |
| `restore` | RestoredBecomesReady | a standalone database becomes Ready after its restore |
| `shared_secret` | SharedSecretKept | a wipe-out spares a secret that another database uses |
| `admission` | TypeOK, FinalizedIsWellFormed, WriteOnce, DoNotTerminateKept, OperatorNotBlocked | two requests of users overlap each other and the operator's patches, while versions are removed and the process ends: immutable fields stay, DoNotTerminate holds for a deletion by name, and the operator gets its finalizer on and off |
| `monitor` | TypeOK, MonitorAppliedOrWarned, NoStrayAgent, HaltedUnmonitored, NothingForgotten, StatusIsAtomic | two edits of agent or halt, a change of readiness and a failure or restart: the writers of the status implement `AtomicStatus`, no wake-up is lost silently, and monitoring follows the spec or a warning says that it does not |
| `monitor_waits` | MonitorAppliedOrWarned, NoStrayAgent, NothingForgotten | the runs that end early: a database that waits for its restore (cluster or standalone), a pause, a refused or failing validation, and a deletion in each of these; once that is over, the agent is set up and the status written, or an event says why not |

Three runs end in a violation: what a comment, a test or the API documentation
says is not what the code does. `PROJECT.json` quotes the lines.

| Run | Property | What happens |
|---|---|---|
| `two_threads` | GoverningServiceOwn | two goroutines in create: one overwrites the shared field before the other uses it |
| `cluster_restore` | RestoredBecomesReady | a cluster waits for DataRestored, which is set through an AppBinding it has not made yet |
| `init_frozen` | InitEditableBeforeProvisioned | an update of one provisioned database makes spec.init immutable for all |

Outside the instances above, five things do not hold. A database created again
accepts the governing service of the earlier one, which the garbage collector then
removes (GoverningServiceKept with `MaxUid = 2`). If the earlier one was wiped out,
it also takes over its secret, which is collected too (CredentialsMatch with the
policy WipeOut in `recreate`). Claims that a StatefulSet creates after terminate
listed them stay for ever. With `MaxLag = 5`, one failure, a restart and a user's
secret (or `MaxLag = 3` and two failures), a run from a copy older than the reported
spec patches the StatefulSet back and is ended by the restart; the validation of the
next run fails, which is swallowed, and the key is forgotten (ObservedApplied). With
more failing calls than retries (`MaxRetries = 0`, `MaxFaults = 3`), a late create
makes a StatefulSet after Halted was reported, and the halt that would delete it
fails and is dropped from the queue (HaltedMeansGone). The theorems of `HaltProofs`,
`CredentialsProofs` and `ReadyProofs` exclude these causes by their hypotheses and
prove the four properties for everything else.

Properties worth a word:

- `Settled` is the premise of ObservedApplied, GoverningServiceKept and
  HaltedMeansGone. Between two reconciles the status may say "observed" while a
  run from an older copy is about to start: the reply to the finalizer patch is
  newer than the cache of the next run, which can even make a StatefulSet again
  that was just halted. Another event always follows; the properties speak of
  the states in which the operator has nothing left to do.
- SharedSecretKept speaks of databases that existed when the deletion was asked
  for. A database created later with the same secret may be missed.
- Converges needs a failure budget within the retries. With `MaxRetries = 1` and
  two failures it does not hold: pushFailureEvent writes NotReady together with
  the observed generation, an error in the validation of the retry is swallowed
  and the key forgotten, and the resync ignores an object that is observed. For
  deletions there is no such limit (`termination` has no retry at all and two
  failures), because the handler always enqueues an object that is being deleted.
- WriteOnce and InitEditableBeforeProvisioned are about the same shared set: the
  first says that it freezes enough, the second that it freezes too much.
- OperatorNotBlocked excludes specs that the webhooks would refuse as new ones:
  if the version of a database is removed from the catalog, even the patch that
  takes its finalizer away is refused, and its deletion hangs.
- DoNotTerminateKept covers the deletion by name; the validator lets a deletion of
  a collection pass without a look at the policy.
- NoStrayAgent speaks of behaviours without failures. After one, an agent can be
  left that no record names: a failed Delete is only logged, and a run that ends
  between CreateOrUpdate and setNewAgent leaves its agent unrecorded.
  Nor does it speak of runs that end before they reach the agent: while a database is
  paused, waits for its restore or is refused by the validation, the agent of the
  earlier spec stays.
- NothingForgotten does not say that the generation is always reported: a validation
  error leaves an event and no status, and a paused or waiting database not even that.
  It says that these are the only cases, and that a deletion, which comes before all of
  them, rests only after a failed call (until the next resync).
- NothingForgotten speaks of ReplicaReady while a StatefulSet exists: the delete
  handler does not repeat a conflicting update, so that the condition of a halted
  database may be out of date.

### Bounds

`MaxUid` counts objects created altogether: 1 is a single life, 2 on one name is a
recreation. `MaxEdits` counts accepted user edits, 2 allows halt and resume, or an
edit while the previous one is applied. `MaxFaults` and `MaxCrashes` count failing
calls and restarts at any place: each property is about what one of them does to a
run of calls, and one of each can meet. `MaxLag` bounds the versions the informer is
behind: with 2 a goroutine starts from a copy two versions old, and its own writes
overtake the cache. (When `watch` is full, a writer waits; all orders with a shorter
lag remain.) `MaxRetries` is 0 or 1 where what happens to a dropped key matters.
Three keys and two workers in `work_queue` let a key be held, marked again and queued
behind another. Generations and passwords are bounded through the edits and
creations. `shared_secret` uses clusters that wait for their restore, so that the two
databases have no offshoots and all orders of two terminations can be explored.
`MaxLag` is 1 in `termination`, whose two failures need the room. In `admission`, one
database and two requests let a user's request meet another one, the operator's
patch, the provisioning and a restart at every step of its course; `init_frozen` has
two databases. The edits halt the database, set DoNotTerminate, choose a secret and a
storage type, and set spec.init. In `monitor` the database is created with the agent
that leaves most behind, `MaxGen = 3` allows two edits (switch and switch back, halt
and resume), `MaxChanges = 1` one change of the pods' readiness beside them (or, in
`monitor_waits`, one pause), and `MaxFaults = 1` one failing call, lost reply or
restart at any place. `monitor_waits` begins with a database that waits for its
restore, in both ways, and its edits switch the agent, pause and delete. All instances
of `Controller` have two goroutines; with one database the second has nothing to do.
Deadlock is not checked: a system whose users have stopped comes to rest.

### Fairness

`WorkQueue!Fairness`: goroutines are scheduled (reconcile returns, since every
wait in it has a timeout) and back-off timers fire. No event and no shutdown is
forced. `Controller!Fairness`: the informer delivers, the resync timer ticks,
workers go on, and Kubernetes' own controllers work. Taking a key from the queue
is strongly fair per database: the queue is first in first out, so that a key
is not overtaken for ever, which is what EventIsProcessed says of `WorkQueue`.
Users, failures, crashes and Stash owe nothing. `Admission!FairSpec`: the API
server and the webhooks answer, the process comes up again and initialises its
webhooks, and the operator repeats its finalizer patches (an object without
observed generation, or being deleted, is enqueued by every resync). `Monitor`
needs no fairness: its properties are safety properties of states of rest.

## 4. Proofs

TLAPS checks the following theorems for every value of the constants: any number
of databases, workers, users, edits, incarnations, failures and restarts, and any
lag of the informer. The assumptions are the `ASSUME`s of the modules (bounds are
naturals, the sets of names are disjoint, policies and agents are known ones);
`AdmissionAssumption` also says that specs are closed under the edits of users.
Some theorems about `Controller` have a hypothesis more, without which they are
false; the table says which. `NoneWipedOut` and `NoneDeleted` say of the history
`asked` that no wipe-out, and no deletion of a database with its finalizer, has been
asked for so far; `Lasting` is `NoneDeleted` unless users bring no secrets;
`SoundValidation` says of a step that it is no failing call of
validatePerconaXtraDB. Every invariant below was checked with TLC before it was
proved. Each proof has one step per action.

| Module | Theorem | Statement |
|---|---|---|
| `WorkQueueProofs` | TypeCorrect | `Spec => []TypeOK`; a key is never retried more than MaxRetries times in a row |
| | KeysAreExclusive | `Spec => []MutualExclusion` |
| | NothingIsLost | `Spec => []NoLostKey` |
| | QueueIsOfDirty, ProcessingIsExact | `Spec => []QueueOfDirty`, `Spec => []ProcessingIsHeld` |
| | ShutDownDrains | `Spec => []ExitedMeansDrained` |
| | ImplementsKeyQueue | `Spec => KeyQueueSpec` |
| `ControllerProofs` | TypeCorrect | `Spec => []TypeOK` |
| | FinalizerIsHeld | `Spec => []FinalizerHeld` |
| | SecretsAreKept | `Spec => []SecretKeptUnlessWipeOut` |
| | ClaimsAreKept | `Spec => []PvcKeptUnderHalt` |
| `SharingProofs` | GoverningServiceIsOwn | `Spec /\ []Alone => []GoverningServiceOwn`; `Alone`: at most one run is between the assignment and the use of the shared field |
| | SharedSecretsAreKept | `Spec => []SharedSecretKept` |
| `HaltProofs` | HaltedAreGoneSoFar | `Spec => [](faults \leq MaxRetries => HaltedMeansGone)` |
| | HaltedAreGone | `Spec => []HaltedMeansGone` if `MaxFaults \leq MaxRetries` |
| `CredentialsProofs` | CredentialsAgree | `Spec => [](NoneWipedOut /\ Lasting => CredentialsMatch)` |
| `ReadyProofs` | ObservedIsApplied | `Spec => [](faults = 0 /\ NoneWipedOut => ObservedApplied)` |
| | ObservedIsAppliedDespiteFaults | `Spec /\ [][SoundValidation]_vars => [](faults \leq MaxRetries /\ NoneWipedOut => ObservedApplied)` |
| | GoverningServiceStays | both forms for GoverningServiceKept, with `NoneDeleted` |
| `AdmissionProofs` | TypeCorrect | `Spec => []TypeOK` |
| | FinalizedAreWellFormed | `Spec => []FinalizedIsWellFormed` |
| | FieldsAreWrittenOnce | `Spec => WriteOnce` |
| | DoNotTerminateIsKept | `Spec => DoNotTerminateKept` |
| `MonitorProofs` | TypeCorrect | `MSpec => []TypeOK` |
| | MonitorIsAppliedOrWarned | `MSpec => []MonitorAppliedOrWarned` |
| | NoAgentIsStray | `MSpec => []NoStrayAgent` |
| | HaltedIsUnmonitored | `MSpec => []HaltedUnmonitored` |
| | NothingIsForgotten | `MSpec => []NothingForgotten` |
| | WritersImplementAtomicStatus | `MSpec => StatusIsAtomic` |

**WorkQueueProofs.** MutualExclusion is not inductive: Get hands out the head of
the queue, and nothing in MutualExclusion says that this key is not held already.
QueueOfDirty says so by way of `processing`, and ProcessingIsHeld connects
`processing` with what the workers hold. NoLostKey needs the same two facts for
Done. For ExitedMeansDrained the invariant also says that a worker leaves only
after ShutDown, after which Add accepts nothing. `IInv` is the conjunction of all
of them; the lemmas say what Tail and Append do to a queue without duplicates.

**ControllerProofs.** FinalizerHeld compares a run with the live object, but a run
begins with the informer's copy, which may be versions and even an incarnation
behind. The invariant therefore speaks of all versions of a database that are in
the store or on their way (`Positions`, `Version`), in the order the informer gets
them. `DeletedFirst`: versions under deletion come before or after all the others,
depending on whether the live object is under deletion. `FinalizerSeen`: a finalizer
is set only after the informer has got the end of the incarnation before, so that
a version with finalizer that is not under deletion is one of the live object.
`RunSeen`: what this means for the run in progress, which for create and halt is
FinalizerHeld. `Asked`: every version under deletion, also the copy of a run, has
a policy that the history `asked` knows; with `Terminating` (terminate does what the
policy of its copy says) this gives `OwnersAsked`: secrets and claims are owned only
by incarnations that were to be deleted so. `SecretPicked` and `SecretNamed` serve
the type of StatefulSets. The invariant has two halves, `Reconciling` for the
objects with the runs on them and `Offshoots`, because most steps leave one alone.

**SharingProofs.** The field `GoverningService` is assigned in create and used some
calls later. `Alone` says that at most one run is in this stretch, while any number of
goroutines are busy elsewhere: it is what a lock over these calls would give. Then the
field names the database of that run (`Named`), and failed calls, stale copies and
restarts do no harm. The code has no such lock and two goroutines, and the run
`two_threads` shows what follows: the hypothesis is the exact border. For the secrets
that databases share: there is one watch for all objects, so that a peer that
existed when a deletion was asked for reaches the informer before that deletion
does (`PeersSeen`), and terminate, which began with it, finds the peer in the store
(`PeersCached`). `UidsFresh`, `LiveLast` and `SecretsNamed` keep incarnations and the
names of their secrets apart, `OwnSecretKept` is the part of the property that
concerns a secret the operator itself has made.

**HaltProofs.** The hard case is a create that began before the halt and makes
the StatefulSet again after Halted was reported. The invariant says that a halt
then follows. `Order`: the informer gets the live version last, nothing ahead of it,
and every change of spec or finalizer with a version for which the handler enqueues
the key. `Overtaken`: a create whose database is halted has such a wake-up behind
it. `PauseSeen`: so has a run that returns because its copy, or the reply to its
finalizer patch, is paused. `InHand`: what is reported Halted is gone, or there is a
wake-up, or a halt is under way. `Emptied`: that halt has deleted what comes before
its location. `Retried`: a key has been retried at most as often as calls have
failed, so that a failing halt is not dropped until more calls have failed than a key
is retried. Without that hypothesis the property is false (section 3).

**CredentialsProofs.** CredentialsMatch compares what the first start of the pods
wrote into the volume with a secret that may have been named, made and patched by
several runs. The invariant follows the secret: one that exists has a password, which
no step changes (`Whole`); every version, copy and live object names a secret that
exists (`Backed`), namely the one of the live object, or none while that has the one
the operator made (`Follows`), so that a run that stopped between the creation of the
secret and the patch is repeated with the same secret. StatefulSet and volume
therefore go with one secret for good (`Anchored`, `Key`, `Initialised`). A wipe-out
breaks `Whole`, since the secret is made again with another password. Deletions
without wipe-out are harmless as long as the secrets are the operator's, because their
name is that of the database; a user may give the next database of that name another
secret over the old volume (`Lasting`).

**ReadyProofs.** The difficulty is that of `HaltProofs`, with the opposite sign: a run
from an older copy may patch the StatefulSet back, or a halt delete it, after Ready
was reported for a newer spec. `Faithful`: copies with the generation of the live
object have its spec, so that only a copy with another generation can do harm.
`Superseded`: such a run has a wake-up behind it. `Waiting`: so has a run that returns
early since its copy waits for a restore, or is paused. `Built`: create has made what
comes before its location. `Returning`: what is reported is in place, or a run is to
come or under way, which fails no more often than it is retried. `Governed` does the
same for the governing service. Two ways remain in which a run ends with nil without
having done its work, both in validation: a call that fails there is only logged
(hence `SoundValidation`, or no failure at all) and so is a secret that is gone
(hence `NoneWipedOut`; `CredentialsProofs` shows that no other secret goes). With
`faults \leq MaxRetries` no key is dropped. Restarts, stale copies, halts, resumes,
pauses and restores are not limited.

**AdmissionProofs.** `Course` follows a request: while it is fresh, what it read is
the stored object; after the mutator its new object is the old one, patched and with
defaults (`Prepared`); after the validator it is well formed and keeps the immutable
fields of the old one (`Admitted`), where spec.init is compared because the insertion
into the shared set came before the list. Commit compares the version, so that
WriteOnce and DoNotTerminateKept follow for the object that is replaced, whatever the
overlapping requests did to the shared set.

**MonitorProofs.** For the refinement: an update that the API server accepts was made
from an exact copy (`FreshCopies`), so that it changes the writer's own fields only;
the operator writes the status for its run only (`Reporting`), and the generation
goes from the object to the store, the run and the status without ever going back
(`GenOrder`). For the other properties: equal generations mean equal specs
(`Copies`), and conditions differ only while an event is on its way; a run that is
behind the store leaves its key in the queue, and an idle operator whose status is
behind has its key in the queue, has left an event, or has found the database paused
or waiting (`WakeUps`); agents are set up on a stats service that is there and after
Ready (`ServiceFirst`, `Phased`), before they are recorded (`AgentSetUp`), and
without failures one at a time (`OneAgent`). `Watching` is the same as WakeUps for
the StatefulSet watcher.

Only model-checked:

- liveness (EventIsProcessed, FailedKeyIsRetried, Converges, DeletionCompletes,
  RestoredBecomesReady, OperatorNotBlocked): fairness is out of the prover's reach;
- ObservedApplied, GoverningServiceKept, CredentialsMatch and HaltedMeansGone outside
  the hypotheses of their theorems: the runs check instances beyond them (a failing
  validation in `lifecycle`, for example), and section 3 says where they are false.

## 5. Plan

Done: all modules of section 2, and a theorem for every safety property that a
passing run checks.

Left: an abstract `Lifecycle` of one database (absent, provisioning, ready, halted,
deleting) that `Controller` implements.

### Not modelled

- Command line, API server wiring and registration of the webhooks (`pkg/cmds`,
  `pkg/server`): they set up the parts above and keep no state of their own.
- The construction of the pod specification (`statefulset.go`): a pure function of
  spec and version, of which `Controller` keeps the revision.
- Objects of strangers under the operator's names: the operator refuses them after
  a look at a label.
- PodDisruptionBudgets and Deployments: deleted and waited for in halt, but never
  made by this operator.
- RestoreBatch, Stash itself, metrics, and the length of back-off delays.
