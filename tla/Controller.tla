----------------------------- MODULE Controller -----------------------------
(***************************************************************************)
(* The reconcile loop of the Percona XtraDB operator: the API objects, the  *)
(* informer's cache of them, the worker goroutines that run create, halt    *)
(* and terminate (one action per API call), and around them the users, the  *)
(* StatefulSet controller, the garbage collector, Stash, API errors and     *)
(* operator crashes.                                                        *)
(*                                                                         *)
(* The work queue appears as its abstract specification KeyQueue (which     *)
(* WorkQueue implements): `dirty' is need, a database is busy while its     *)
(* location is not "idle".  Hence the local state of the goroutine that     *)
(* works on database d is indexed by d.                                     *)
(***************************************************************************)
EXTENDS Integers, Sequences, FiniteSets

CONSTANTS
    DB,                    \* names of the PerconaXtraDB objects (one namespace)
    UserSecrets,           \* names of secrets that users bring themselves
    NoSecret,              \* spec.databaseSecret is nil
    NoSvc,                 \* Controller.GoverningService before any create
    Policies,              \* termination policies that users choose from
    UserOps,               \* the kinds of user operations of this instance
    IsCluster,             \* spec.replicas > 1
    WaitForInitialRestore, \* spec.init.waitForInitialRestore
    NumThreads,            \* worker goroutines
    MaxRetries,            \* MaxNumRequeues
    MaxLag,                \* bound: versions the informer is behind
    MaxUid,                \* bound: objects created altogether
    MaxEdits,              \* bound: spec and condition edits of users
    MaxFaults,             \* bound: failing API calls and expired waits
    MaxCrashes             \* bound: ends of the operator process

AllPolicies == {"Halt", "Delete", "WipeOut", "DoNotTerminate"}

ASSUME ControllerAssumption ==
    /\ NoSecret \notin DB \cup UserSecrets
    /\ NoSvc \notin DB
    /\ DB \cap UserSecrets = {}
    /\ Policies \subseteq AllPolicies
    /\ IsCluster \in BOOLEAN /\ WaitForInitialRestore \in BOOLEAN
    /\ NumThreads \in Nat /\ MaxRetries \in Nat /\ MaxUid \in Nat
    /\ MaxLag \in Nat /\ MaxEdits \in Nat /\ MaxFaults \in Nat /\ MaxCrashes \in Nat

VARIABLES
    px,               \* px[d]: the PerconaXtraDB object in the API server
    watch,            \* versions of the objects the informer has not seen yet
    cache,            \* cache[d]: the informer's store (pxInformer, pxLister)
    dirty,            \* keys waiting in the work queue
    failures,         \* failures[d]: NumRequeues of the key
    pc,               \* pc[d]: where the goroutine that holds d is, or "idle"
    my,               \* my[d]: that goroutine's copy of the object
    governingService, \* the field Controller.GoverningService
    res,              \* res[d][k]: owner of the offshoot of kind k
    sts,              \* sts[d]: the StatefulSet
    pods,             \* pods[d]: the pods of the StatefulSet
    pvc,              \* pvc[d]: the data volume claims
    secrets,          \* secrets[s]: the Secret objects
    restore,          \* restore[d]: phase of the RestoreSession for d
    asked,            \* history: what was asked for when incarnation u was
                      \* deleted (the policies since, the peers at that time)
    uids, passwords,  \* counters of the uids and passwords handed out
    edits, faults, crashes

objVars    == <<px, watch, asked>>
workVars   == <<cache, dirty, failures, pc, my, governingService>>
shootVars  == <<res, sts, pods, pvc, secrets>>
countVars  == <<uids, passwords, edits, faults, crashes>>
vars == <<objVars, workVars, shootVars, restore, countVars>>

-----------------------------------------------------------------------------
(* Data.  An owner is the uid of the PerconaXtraDB in the controller owner   *)
(* reference of an object (the API server accepts one such reference only). *)

Absent  == -1                     \* the object does not exist
Unowned == 0                      \* it exists without owner reference
Owner   == {Absent, Unowned} \cup 1..MaxUid

\* gvr: governing service; rbac: service account, role and role binding;
\* svc: database service; app: AppBinding
Kinds == {"gvr", "rbac", "svc", "app"}

\* The secret name d stands for d's own secret, px.Name + "-auth".
SecretNames == DB \cup UserSecrets

Phases == {"", "Provisioning", "Ready", "NotReady", "Halted"}

\* A PerconaXtraDB object; uid 0 is "no such object".  rev is the rest of the
\* spec that goes into the StatefulSet.
Px == [uid: 0..MaxUid, gen: Nat, del: BOOLEAN, fin: BOOLEAN,
       halted: BOOLEAN, policy: AllPolicies, rev: Nat,
       secret: SecretNames \cup {NoSecret},
       phase: Phases, obsGen: Nat,
       paused: BOOLEAN, provisioned: BOOLEAN, restored: BOOLEAN]

NoPx == [uid |-> 0, gen |-> 0, del |-> FALSE, fin |-> FALSE,
         halted |-> FALSE, policy |-> "Delete", rev |-> 0,
         secret |-> NoSecret, phase |-> "", obsGen |-> 0,
         paused |-> FALSE, provisioned |-> FALSE, restored |-> FALSE]

Exists(o) == o.uid # 0

Status(o) == <<o.phase, o.obsGen, o.paused, o.provisioned, o.restored>>

Sts == [owner: Owner, svc: DB \cup {NoSvc}, rev: Nat,
        secret: SecretNames \cup {NoSecret}]

NoSts == [owner |-> Absent, svc |-> NoSvc, rev |-> 0, secret |-> NoSecret]

\* pw 0: no credentials (a secret without keys, a volume never initialised)
Stored   == [owner: Owner, pw: Nat]
NoStored == [owner |-> Absent, pw |-> 0]

CreateLocs == {"validate", "provisioning", "gvr", "rbac", "svc", "secret",
               "secretPatch", "sts", "pods", "app", "ready"}
HaltLocs   == {"halt", "haltApp", "haltSts", "haltRbac", "haltSvcs",
               "waitPaused", "halted"}
TermLocs   == {"releasePvc", "releaseSecret", "wipeOut", "ownPvc",
               "removeFinalizer"}
Locations  == {"idle", "addFinalizer", "fail"} \cup CreateLocs \cup HaltLocs \cup TermLocs

\* The objects and their versions under way; the operator's own state; the
\* offshoots; the counters.
ObjOK ==
    /\ px \in [DB -> Px]
    /\ watch \in Seq([db: DB, obj: Px])
    /\ asked \in [1..MaxUid -> [policies: SUBSET AllPolicies, peers: SUBSET (0..MaxUid)]]

WorkOK ==
    /\ cache \in [DB -> Px] /\ my \in [DB -> Px]
    /\ dirty \in SUBSET DB
    /\ failures \in [DB -> 0..MaxRetries]
    /\ pc \in [DB -> Locations]
    /\ governingService \in DB \cup {NoSvc}

ShootOK ==
    /\ res \in [DB -> [Kinds -> Owner]]
    /\ sts \in [DB -> Sts]
    /\ pods \in [DB -> {"none", "starting", "running", "orphaned"}]
    /\ pvc \in [DB -> Stored] /\ secrets \in [SecretNames -> Stored]
    /\ restore \in [DB -> {"none", "Running", "Succeeded", "Failed"}]

CountOK ==
    /\ uids \in 0..MaxUid /\ passwords \in Nat
    /\ edits \in Nat /\ faults \in Nat /\ crashes \in Nat

\* Every variable of the controller and of its environment keeps its type.
TypeOK == ObjOK /\ WorkOK /\ ShootOK /\ CountOK

Init ==
    /\ px = [d \in DB |-> NoPx] /\ cache = px /\ my = px
    /\ watch = << >>
    /\ dirty = {}
    /\ failures = [d \in DB |-> 0]
    /\ pc = [d \in DB |-> "idle"]
    /\ governingService = NoSvc
    /\ res = [d \in DB |-> [k \in Kinds |-> Absent]]
    /\ sts = [d \in DB |-> NoSts]
    /\ pods = [d \in DB |-> "none"]
    /\ pvc = [d \in DB |-> NoStored]
    /\ secrets = [s \in SecretNames |->
                    IF s \in DB THEN NoStored ELSE [owner |-> Unowned, pw |-> 1]]
    /\ restore = [d \in DB |-> "none"]
    /\ asked = [u \in 1..MaxUid |-> [policies |-> {}, peers |-> {}]]
    /\ uids = 0 /\ passwords = 1
    /\ edits = 0 /\ faults = 0 /\ crashes = 0

-----------------------------------------------------------------------------
(* The API server and the informer.                                         *)

\* The history of a deletion: the policies since, and the peers when it came.
Deletion(d, o) ==
    [policies |-> asked[o.uid].policies \cup {o.policy},
     peers    |-> IF px[d].del THEN asked[o.uid].peers ELSE {px[e].uid : e \in DB \ {d}}]

\* The object of d becomes o; a request that changes nothing makes no event.
SetPx(d, o) ==
    /\ Len(watch) < MaxLag \/ o = px[d]
    /\ px' = [px EXCEPT ![d] = o]
    /\ watch' = IF o = px[d] THEN watch ELSE Append(watch, [db |-> d, obj |-> o])
    /\ asked' = IF o.del THEN [asked EXCEPT ![o.uid] = Deletion(d, o)] ELSE asked

\* Definitions named ...Bug are plausible mistakes in the definition that
\* follows; each is used to show that a property can fail.

\* The handler ignores objects whose generation was not observed,
EnqueuesBugSpec(old, new) ==
    \/ ~Exists(old) \/ ~Exists(new)
    \/ new.del
    \/ Status(old) # Status(new)

\* ... and objects that are being deleted.
EnqueuesBugDel(old, new) ==
    \/ ~Exists(old) \/ ~Exists(new)
    \/ Status(old) # Status(new)

\* NewChangeHandler: which event puts the key of the object into the queue.
Enqueues(old, new) ==
    \/ ~Exists(old) \/ ~Exists(new)
    \/ new.del
    \/ new.obsGen # new.gen
    \/ Status(old) # Status(new)

\* The informer stores the next version and calls the event handler.
Deliver ==
    /\ watch # << >>
    /\ LET e == Head(watch) IN
        /\ cache' = [cache EXCEPT ![e.db] = e.obj]
        /\ dirty' = IF Enqueues(cache[e.db], e.obj) THEN dirty \cup {e.db} ELSE dirty
    /\ watch' = Tail(watch)
    /\ UNCHANGED <<px, asked, failures, pc, my, governingService, shootVars, restore, countVars>>

\* The periodic resync: an update event with old = new.
Resync(d) ==
    /\ Exists(cache[d])
    /\ Enqueues(cache[d], cache[d])
    /\ d \notin dirty
    /\ dirty' = dirty \cup {d}
    /\ UNCHANGED <<objVars, cache, failures, pc, my, governingService,
                   shootVars, restore, countVars>>

-----------------------------------------------------------------------------
(* The worker loop around runPerconaXtraDB.                                  *)

Goto(d, l) == pc' = [pc EXCEPT ![d] = l]

\* reconcile returns: the goroutine gives the key back.
Leave(d) == Goto(d, "idle") /\ my' = [my EXCEPT ![d] = NoPx]

\* ... with nil: Forget.
ReturnNil(d) ==
    /\ Leave(d)
    /\ failures' = [failures EXCEPT ![d] = 0]
    /\ UNCHANGED dirty

\* One retry too many.
ReturnErrBug(d) ==
    /\ Leave(d)
    /\ IF failures[d] <= MaxRetries
       THEN /\ failures' = [failures EXCEPT ![d] = @ + 1]
            /\ dirty' = dirty \cup {d}
       ELSE /\ failures' = [failures EXCEPT ![d] = 0]
            /\ UNCHANGED dirty

\* ... with an error: back into the queue until the retries are used up.
ReturnErr(d) ==
    /\ Leave(d)
    /\ IF failures[d] < MaxRetries
       THEN /\ failures' = [failures EXCEPT ![d] = @ + 1]
            /\ dirty' = dirty \cup {d}
       ELSE /\ failures' = [failures EXCEPT ![d] = 0]
            /\ UNCHANGED dirty

\* The next location; "return" ends the reconcile with nil.
Continue(d, l) ==
    IF l = "return" THEN ReturnNil(d)
    ELSE Goto(d, l) /\ UNCHANGED <<failures, dirty, my>>

\* Delete takes the secrets too.
TerminateLocBug(policy) == IF policy = "Halt" THEN "releasePvc" ELSE "wipeOut"

\* terminate: where its first call is, by termination policy.
TerminateLoc(policy) ==
    CASE policy = "Halt"    -> "releasePvc"
      [] policy = "WipeOut" -> "wipeOut"
      [] OTHER              -> "releaseSecret"

\* runPerconaXtraDB up to its first API call: the object comes from the cache.
RunPerconaXtraDB(d) ==
    /\ d \in dirty
    /\ pc[d] = "idle"
    /\ Cardinality({e \in DB : pc[e] # "idle"}) < NumThreads
    /\ dirty' = dirty \ {d}
    /\ LET o == cache[d]
           l == CASE ~Exists(o)       -> "idle"
                  [] o.del /\ ~o.fin  -> "idle"
                  [] o.del /\ o.fin   -> TerminateLoc(o.policy)
                  [] OTHER            -> "addFinalizer"
       IN /\ Goto(d, l)
          /\ my' = [my EXCEPT ![d] = IF l = "idle" THEN NoPx ELSE o]
          /\ failures' = IF l = "idle" THEN [failures EXCEPT ![d] = 0] ELSE failures
    /\ UNCHANGED <<objVars, cache, governingService, shootVars, restore, countVars>>

\* create and halt use the cached copy instead of the reply.
AddFinalizerBug(d) ==
    /\ pc[d] = "addFinalizer"
    /\ my[d].fin \/ Exists(px[d])
    /\ IF my[d].fin THEN UNCHANGED objVars ELSE SetPx(d, [px[d] EXCEPT !.fin = TRUE])
    /\ IF my[d].paused
       THEN ReturnNil(d)
       ELSE /\ Goto(d, IF my[d].halted THEN "halt" ELSE "validate")
            /\ my' = [my EXCEPT ![d].fin = TRUE]
            /\ UNCHANGED <<failures, dirty>>
    /\ UNCHANGED <<cache, governingService, shootVars, restore, countVars>>

\* Patch of the finalizer list against the cached copy.  With the finalizer in
\* the copy the patch is empty and the copy is used on; otherwise the reply is
\* the live object, whatever incarnation has the name now.
AddFinalizer(d) ==
    /\ pc[d] = "addFinalizer"
    /\ my[d].fin \/ Exists(px[d])
    /\ LET o == IF my[d].fin THEN my[d] ELSE [px[d] EXCEPT !.fin = TRUE] IN
        /\ IF my[d].fin THEN UNCHANGED objVars ELSE SetPx(d, o)
        /\ IF o.paused
           THEN ReturnNil(d)
           ELSE /\ Goto(d, IF o.halted THEN "halt" ELSE "validate")
                /\ my' = [my EXCEPT ![d] = o]
                /\ UNCHANGED <<failures, dirty>>
    /\ UNCHANGED <<cache, governingService, shootVars, restore, countVars>>

-----------------------------------------------------------------------------
(* create: one action per call.                                              *)

\* Both conditions are asked for.
AwaitsRestoreBug(o) == WaitForInitialRestore /\ (~o.provisioned \/ ~o.restored)

\* Does create return before the StatefulSet (cluster), or before Ready
\* (standalone), because the initial restore has not succeeded yet?
AwaitsRestore(o) == WaitForInitialRestore /\ ~o.provisioned /\ ~o.restored

\* Services are made at the first provisioning only.
AfterPhaseBug(o) == IF o.phase = "Provisioning" THEN "gvr" ELSE "rbac"

AfterPhase(o) == IF IsCluster /\ AwaitsRestore(o) THEN "return" ELSE "gvr"
AfterApp(o)   == IF ~IsCluster /\ AwaitsRestore(o) THEN "return" ELSE "ready"

\* Strict validation; what it finds invalid is reported and create returns nil.
ValidatePerconaXtraDB(d) ==
    /\ pc[d] = "validate"
    /\ LET s == my[d].secret IN
        Continue(d, IF s # NoSecret /\ secrets[s].owner = Absent THEN "return"
                    ELSE IF my[d].phase = "" THEN "provisioning"
                    ELSE AfterPhase(my[d]))
    /\ UNCHANGED <<objVars, cache, governingService, shootVars, restore, countVars>>

\* UpdatePerconaXtraDBStatus: read, modify and write of the live status; its
\* loop over conflicts makes it one step.
SetPhase(d, phase, obsGen) == SetPx(d, [px[d] EXCEPT !.phase = phase, !.obsGen = obsGen])

SetProvisioning(d) ==
    /\ pc[d] = "provisioning"
    /\ Exists(px[d])
    /\ SetPhase(d, "Provisioning", px[d].obsGen)
    /\ LET o == [my[d] EXCEPT !.phase = "Provisioning", !.obsGen = px[d].obsGen,
                              !.paused = px[d].paused, !.restored = px[d].restored,
                              !.provisioned = px[d].provisioned]
       IN IF AfterPhase(o) = "return"
          THEN ReturnNil(d)
          ELSE /\ Goto(d, AfterPhase(o))
               /\ my' = [my EXCEPT ![d] = o]
               /\ UNCHANGED <<failures, dirty>>
    /\ UNCHANGED <<cache, governingService, shootVars, restore, countVars>>

\* createPerconaXtraDBGoverningService: "already exists" is fine, whoever owns
\* it; the name goes into the field that all goroutines share.
CreateGoverningService(d) ==
    /\ pc[d] = "gvr"
    /\ res' = [res EXCEPT ![d]["gvr"] = IF @ = Absent THEN my[d].uid ELSE @]
    /\ governingService' = d
    /\ Goto(d, "rbac")
    /\ UNCHANGED <<objVars, cache, dirty, failures, my, sts, pods, pvc, secrets,
                   restore, countVars>>

\* ensureRBACStuff, ensureService, ensureAppBinding: create the object with
\* its owner reference or patch the one that is ours.
EnsureOffshoot(d) ==
    /\ pc[d] \in {"rbac", "svc", "app"}
    /\ res[d][pc[d]] \in {Absent, my[d].uid}
    /\ res' = [res EXCEPT ![d][pc[d]] = my[d].uid]
    /\ Continue(d, CASE pc[d] = "rbac" -> "svc"
                     [] pc[d] = "svc"  -> "secret"
                     [] OTHER          -> AfterApp(my[d]))
    /\ UNCHANGED <<objVars, cache, governingService, sts, pods, pvc, secrets,
                   restore, countVars>>

\* The secret is written whether it exists or not.
CreateDatabaseSecretBug(d) ==
    /\ pc[d] = "secret"
    /\ my[d].secret = NoSecret
    /\ passwords' = passwords + 1
    /\ secrets' = [secrets EXCEPT ![d] = [owner |-> Unowned, pw |-> passwords']]
    /\ Goto(d, "secretPatch")
    /\ UNCHANGED <<objVars, cache, dirty, failures, my, governingService,
                   res, sts, pods, pvc, restore, uids, edits, faults, crashes>>

\* createDatabaseSecret: a fresh password unless the secret is already there.
CreateDatabaseSecret(d) ==
    /\ pc[d] = "secret"
    /\ my[d].secret = NoSecret
    /\ IF secrets[d].owner = Absent
       THEN /\ passwords' = passwords + 1
            /\ secrets' = [secrets EXCEPT ![d] = [owner |-> Unowned, pw |-> passwords']]
       ELSE UNCHANGED <<passwords, secrets>>
    /\ Goto(d, "secretPatch")
    /\ UNCHANGED <<objVars, cache, dirty, failures, my, governingService,
                   res, sts, pods, pvc, restore, uids, edits, faults, crashes>>

\* ... and spec.databaseSecret is patched to name it; a spec change, so the
\* live generation moves on while the copy keeps its own.
PatchDatabaseSecret(d) ==
    /\ pc[d] = "secretPatch"
    /\ Exists(px[d])
    /\ SetPx(d, IF px[d].secret = d THEN px[d]
                ELSE [px[d] EXCEPT !.secret = d, !.gen = @ + 1])
    /\ my' = [my EXCEPT ![d].secret = d]
    /\ Goto(d, "sts")
    /\ UNCHANGED <<cache, dirty, failures, governingService, shootVars,
                   restore, countVars>>

\* upgradeDatabaseSecret: CreateOrPatchSecret makes an empty one if need be.
UpgradeDatabaseSecret(d) ==
    /\ pc[d] = "secret"
    /\ my[d].secret # NoSecret
    /\ secrets' = [secrets EXCEPT ![my[d].secret] =
                     IF @.owner = Absent THEN [owner |-> Unowned, pw |-> 0] ELSE @]
    /\ Goto(d, "sts")
    /\ UNCHANGED <<objVars, cache, dirty, failures, my, governingService,
                   res, sts, pods, pvc, restore, countVars>>

\* The StatefulSet that the copy asks for.
DesiredSts(d) == [owner |-> my[d].uid, svc |-> governingService,
                  rev |-> my[d].rev, secret |-> my[d].secret]

\* A set that exists is taken whoever owns it, as with the governing service.
EnsureStatefulSetBug(d) ==
    /\ pc[d] = "sts"
    /\ sts' = [sts EXCEPT ![d] = IF @.owner = Absent THEN DesiredSts(d)
                                ELSE [DesiredSts(d) EXCEPT !.owner = sts[d].owner]]
    /\ \/ Goto(d, "pods")
       \/ sts'[d] = sts[d] /\ Goto(d, "app")
    /\ UNCHANGED <<objVars, cache, dirty, failures, my, governingService,
                   res, pods, pvc, secrets, restore, countVars>>

\* ensureStatefulSet: created or patched, the pods are waited for.  Nearly every
\* pass patches: the claim template (UpsertVolumeClaim) and a securityContext
\* that the user left out are written without the defaults that the API server
\* filled in.  Only with Ephemeral storage and a securityContext of the user's
\* may a set that has all it should have be left unchanged, and not waited for.
EnsureStatefulSet(d) ==
    /\ pc[d] = "sts"
    /\ \/ sts[d].owner = Absent
       \/ sts[d].owner = my[d].uid /\ sts[d].svc = governingService
    /\ sts' = [sts EXCEPT ![d] = DesiredSts(d)]
    /\ \/ Goto(d, "pods")
       \/ sts[d] = DesiredSts(d) /\ Goto(d, "app")
    /\ UNCHANGED <<objVars, cache, dirty, failures, my, governingService,
                   res, pods, pvc, secrets, restore, countVars>>

\* checkStatefulSetPodStatus: pods are found by label, so that those of a
\* StatefulSet deleted before may be counted as long as they are still Ready.
CheckPodStatus(d) ==
    /\ pc[d] = "pods"
    /\ pods[d] \in {"running", "orphaned"}
    /\ Goto(d, "app")
    /\ UNCHANGED <<objVars, cache, dirty, failures, my, governingService,
                   shootVars, restore, countVars>>

\* The generation is taken from the live object.
SetReadyBug(d) ==
    /\ pc[d] = "ready"
    /\ Exists(px[d])
    /\ SetPhase(d, "Ready", px[d].gen)
    /\ ReturnNil(d)
    /\ UNCHANGED <<cache, governingService, shootVars, restore, countVars>>

\* The status of a finished create.  spec.monitor is nil, so what follows
\* (ensureStatsService, manageMonitor) changes nothing.
SetReady(d) ==
    /\ pc[d] = "ready"
    /\ Exists(px[d])
    /\ SetPhase(d, "Ready", my[d].gen)
    /\ ReturnNil(d)
    /\ UNCHANGED <<cache, governingService, shootVars, restore, countVars>>

-----------------------------------------------------------------------------
(* halt                                                                      *)

Halt(d) ==
    /\ pc[d] = "halt"
    /\ Goto(d, IF my[d].policy = "Halt" THEN "haltApp" ELSE "fail")
    /\ UNCHANGED <<objVars, cache, dirty, failures, my, governingService,
                   shootVars, restore, countVars>>

\* haltDatabase deletes, in this order, AppBindings, StatefulSets, RBAC and
\* services by label (there are no PodDisruptionBudgets and Deployments).
HaltDatabase(d) ==
    /\ pc[d] \in {"haltApp", "haltRbac", "haltSvcs"}
    /\ LET gone == CASE pc[d] = "haltApp"  -> {"app"}
                     [] pc[d] = "haltRbac" -> {"rbac"}
                     [] OTHER              -> {"gvr", "svc"}
       IN res' = [res EXCEPT ![d] = [k \in Kinds |-> IF k \in gone THEN Absent ELSE @[k]]]
    /\ Goto(d, CASE pc[d] = "haltApp"  -> "haltSts"
                 [] pc[d] = "haltRbac" -> "haltSvcs"
                 [] OTHER              -> "waitPaused")
    /\ UNCHANGED <<objVars, cache, dirty, failures, my, governingService,
                   sts, pods, pvc, secrets, restore, countVars>>

\* The StatefulSet is deleted with background propagation: its pods are left
\* to the garbage collector.
DropSts(d) ==
    /\ sts' = [sts EXCEPT ![d] = NoSts]
    /\ pods' = [pods EXCEPT ![d] = IF @ = "none" THEN "none" ELSE "orphaned"]

HaltStatefulSet(d) ==
    /\ pc[d] = "haltSts"
    /\ DropSts(d)
    /\ Goto(d, "haltRbac")
    /\ UNCHANGED <<objVars, cache, dirty, failures, my, governingService,
                   res, pvc, secrets, restore, countVars>>

\* The pods are not waited for.
WaitUntilPausedBug(d) ==
    /\ pc[d] = "waitPaused"
    /\ Goto(d, "halted")
    /\ UNCHANGED <<objVars, cache, dirty, failures, my, governingService,
                   shootVars, restore, countVars>>

\* waitUntilPaused
WaitUntilPaused(d) ==
    /\ pc[d] = "waitPaused"
    /\ pods[d] = "none"
    /\ sts[d].owner = Absent
    /\ \A k \in {"gvr", "svc", "rbac"} : res[d][k] = Absent
    /\ Goto(d, "halted")
    /\ UNCHANGED <<objVars, cache, dirty, failures, my, governingService,
                   shootVars, restore, countVars>>

SetHalted(d) ==
    /\ pc[d] = "halted"
    /\ Exists(px[d])
    /\ SetPhase(d, "Halted", my[d].gen)
    /\ ReturnNil(d)
    /\ UNCHANGED <<cache, governingService, shootVars, restore, countVars>>

-----------------------------------------------------------------------------
(* Failures of create and halt.                                              *)

\* pushFailureEvent, then the error goes to the work queue.
PushFailureEvent(d) ==
    /\ pc[d] = "fail"
    /\ Exists(px[d])
    /\ SetPhase(d, "NotReady", my[d].gen)
    /\ ReturnErr(d)
    /\ UNCHANGED <<cache, governingService, shootVars, restore, countVars>>

\* The process starts (again): fresh controller, and the informer's first list
\* is one add event per object.
StartOperator ==
    /\ cache' = px
    /\ watch' = << >>
    /\ dirty' = {d \in DB : Exists(px[d])}
    /\ failures' = [d \in DB |-> 0]
    /\ pc' = [d \in DB |-> "idle"]
    /\ my' = [d \in DB |-> NoPx]
    /\ governingService' = NoSvc
    /\ UNCHANGED <<px, asked, shootVars, restore>>

\* pushFailureEvent when the first Get of UpdatePerconaXtraDBStatus fails: the
\* nil result is dereferenced and the panic ends the process.
PushFailurePanics(d) ==
    /\ pc[d] = "fail"
    /\ ~Exists(px[d]) \/ crashes < MaxCrashes
    /\ crashes' = IF Exists(px[d]) THEN crashes + 1 ELSE crashes
    /\ StartOperator
    /\ UNCHANGED <<uids, passwords, edits, faults>>

Crash ==
    /\ crashes < MaxCrashes
    /\ crashes' = crashes + 1
    /\ StartOperator
    /\ UNCHANGED <<uids, passwords, edits, faults>>

\* Locations whose call addresses the PerconaXtraDB object itself.
ObjectLocs == {"addFinalizer", "provisioning", "secretPatch", "ready", "halted",
               "removeFinalizer"}

\* How an error leaves the call at d's location.  Validation swallows it; the
\* finalizer patches and terminate return it; create and halt report it first.
Error(d) ==
    /\ CASE pc[d] = "validate" -> ReturnNil(d)
         [] pc[d] \in TermLocs \cup {"addFinalizer", "fail"} -> ReturnErr(d)
         [] OTHER -> Goto(d, "fail") /\ UNCHANGED <<failures, dirty, my>>
    /\ UNCHANGED <<objVars, cache, governingService, shootVars, restore,
                   uids, passwords, edits, crashes>>

\* A finalizer patch that changes nothing is not sent.
Silent(d) == pc[d] \in {"idle", "halt"} \/ (pc[d] = "addFinalizer" /\ my[d].fin)

\* An API call fails, or a wait expires.
CallFails(d) ==
    /\ ~Silent(d)
    /\ faults < MaxFaults
    /\ faults' = faults + 1
    /\ Error(d)

\* The object is gone: every call that names it is answered with NotFound.
NotFound(d) ==
    /\ pc[d] \in ObjectLocs
    /\ ~Silent(d)
    /\ ~Exists(px[d])
    /\ Error(d)
    /\ UNCHANGED faults

\* The API server rejects a second controller reference on an object (left by
\* an earlier incarnation), and a change of a StatefulSet's serviceName.
Rejected(d) ==
    \/ pc[d] \in {"rbac", "svc", "app"} /\ res[d][pc[d]] \notin {Absent, my[d].uid}
    \/ pc[d] = "sts" /\ sts[d].owner # Absent
                     /\ (sts[d].owner # my[d].uid \/ sts[d].svc # governingService)

CreateRejected(d) ==
    /\ Rejected(d)
    /\ Goto(d, "fail")
    /\ UNCHANGED <<objVars, cache, dirty, failures, my, governingService,
                   shootVars, restore, countVars>>

-----------------------------------------------------------------------------
(* terminate                                                                 *)

\* RemoveOwnerReference: only the reference to this incarnation goes.
Released(o, uid) == IF o.owner = uid THEN [o EXCEPT !.owner = Unowned] ELSE o

\* EnsureOwnerReference on an existing object; on a missing one nothing.
MayOwn(o, uid) == o.owner \in {Absent, Unowned, uid}
Owned(o, uid)  == IF o.owner = Absent THEN o ELSE [o EXCEPT !.owner = uid]

\* removeOwnerReferenceFromOffshoots, first half
ReleasePvc(d) ==
    /\ pc[d] = "releasePvc"
    /\ pvc' = [pvc EXCEPT ![d] = Released(@, my[d].uid)]
    /\ Goto(d, "releaseSecret")
    /\ UNCHANGED <<objVars, cache, dirty, failures, my, governingService,
                   res, sts, pods, secrets, restore, countVars>>

\* Halt goes on to the calls of Delete.
ReleaseSecretBug(d) ==
    /\ pc[d] = "releaseSecret"
    /\ secrets' = [s \in SecretNames |->
                     IF s = my[d].secret THEN Released(secrets[s], my[d].uid) ELSE secrets[s]]
    /\ Goto(d, "ownPvc")
    /\ UNCHANGED <<objVars, cache, dirty, failures, my, governingService,
                   res, sts, pods, pvc, restore, countVars>>

\* its second half, and the first half of setOwnerReferenceToOffshoots for a
\* policy other than WipeOut
ReleaseSecret(d) ==
    /\ pc[d] = "releaseSecret"
    /\ secrets' = [s \in SecretNames |->
                     IF s = my[d].secret THEN Released(secrets[s], my[d].uid) ELSE secrets[s]]
    /\ Goto(d, IF my[d].policy = "Halt" THEN "removeFinalizer" ELSE "ownPvc")
    /\ UNCHANGED <<objVars, cache, dirty, failures, my, governingService,
                   res, sts, pods, pvc, restore, countVars>>

\* Peers are not looked at.
SecretsUsedByPeersBug(d) == {}

\* secretsUsedByPeers: the peers are those of the informer's store.
SecretsUsedByPeers(d) == {cache[e].secret : e \in {f \in DB \ {d} : Exists(cache[f])}}

\* wipeOutDatabase
WipeOutDatabase(d) ==
    /\ pc[d] = "wipeOut"
    /\ LET unused == {my[d].secret} \ (SecretsUsedByPeers(d) \cup {NoSecret}) IN
        /\ \A s \in unused : MayOwn(secrets[s], my[d].uid)
        /\ secrets' = [s \in SecretNames |->
                         IF s \in unused THEN Owned(secrets[s], my[d].uid) ELSE secrets[s]]
    /\ Goto(d, "ownPvc")
    /\ UNCHANGED <<objVars, cache, dirty, failures, my, governingService,
                   res, sts, pods, pvc, restore, countVars>>

\* setOwnerReferenceToOffshoots, second half
OwnPvc(d) ==
    /\ pc[d] = "ownPvc"
    /\ MayOwn(pvc[d], my[d].uid)
    /\ pvc' = [pvc EXCEPT ![d] = Owned(@, my[d].uid)]
    /\ Goto(d, "removeFinalizer")
    /\ UNCHANGED <<objVars, cache, dirty, failures, my, governingService,
                   res, sts, pods, secrets, restore, countVars>>

\* The patch that drops the finalizer names the object, not the incarnation;
\* a deleting object without finalizers is gone.
RemoveFinalizer(d) ==
    /\ pc[d] = "removeFinalizer"
    /\ Exists(px[d])
    /\ SetPx(d, IF px[d].del THEN NoPx ELSE [px[d] EXCEPT !.fin = FALSE])
    /\ ReturnNil(d)
    /\ UNCHANGED <<cache, governingService, shootVars, restore, countVars>>

\* A claim or secret that still has another incarnation's controller reference.
TerminateRejected(d) ==
    /\ \/ pc[d] = "ownPvc" /\ ~MayOwn(pvc[d], my[d].uid)
       \/ pc[d] = "wipeOut" /\ my[d].secret \notin SecretsUsedByPeers(d) \cup {NoSecret}
                            /\ ~MayOwn(secrets[my[d].secret], my[d].uid)
    /\ ReturnErr(d)
    /\ UNCHANGED <<objVars, cache, governingService, shootVars, restore, countVars>>

-----------------------------------------------------------------------------
(* Users.  The admission webhooks are part of each request.                  *)

CreatePx(d) ==
    /\ ~Exists(px[d])
    /\ uids < MaxUid
    /\ uids' = uids + 1
    /\ \E p \in Policies, s \in UserSecrets \cup {NoSecret} :
          SetPx(d, [NoPx EXCEPT !.uid = uids', !.gen = 1, !.policy = p, !.secret = s])
    /\ UNCHANGED <<workVars, shootVars, restore, passwords, edits, faults, crashes>>

\* An accepted change of the spec moves the generation.
Edit(d, op) ==
    /\ op \in UserOps
    /\ edits < MaxEdits
    /\ edits' = edits + 1
    /\ Exists(px[d])
    /\ UNCHANGED <<workVars, shootVars, restore, uids, passwords, faults, crashes>>

\* spec.halted := TRUE; the mutator refuses DoNotTerminate and sets Halt.
EditHalt(d) ==
    /\ Edit(d, "halt")
    /\ ~px[d].halted
    /\ px[d].policy # "DoNotTerminate"
    /\ SetPx(d, [px[d] EXCEPT !.halted = TRUE, !.policy = "Halt", !.gen = @ + 1])

EditResume(d) ==
    /\ Edit(d, "halt")
    /\ px[d].halted
    /\ SetPx(d, [px[d] EXCEPT !.halted = FALSE, !.gen = @ + 1])

\* spec.terminationPolicy, also while the object is being deleted; a halted
\* database keeps Halt.
EditPolicy(d) ==
    /\ Edit(d, "policy")
    /\ ~px[d].halted
    /\ \E p \in Policies \ {px[d].policy} :
          SetPx(d, [px[d] EXCEPT !.policy = p, !.gen = @ + 1])

EditSpec(d) ==
    /\ Edit(d, "spec")
    /\ SetPx(d, [px[d] EXCEPT !.rev = @ + 1, !.gen = @ + 1])

\* Conditions that others write: Paused, and Provisioned.
EditPaused(d) ==
    /\ Edit(d, "pause")
    /\ SetPx(d, [px[d] EXCEPT !.paused = ~@])

EditProvisioned(d) ==
    /\ Edit(d, "provisioned")
    /\ ~px[d].provisioned
    /\ SetPx(d, [px[d] EXCEPT !.provisioned = TRUE])

\* The validating webhook refuses DoNotTerminate; without finalizer the object
\* goes at once, with it the deletion timestamp is set.
DeletePx(d) ==
    /\ "delete" \in UserOps
    /\ Exists(px[d])
    /\ ~px[d].del
    /\ px[d].policy # "DoNotTerminate"
    /\ SetPx(d, IF px[d].fin THEN [px[d] EXCEPT !.del = TRUE, !.gen = @ + 1] ELSE NoPx)
    /\ UNCHANGED <<workVars, shootVars, restore, countVars>>

-----------------------------------------------------------------------------
(* StatefulSet controller and garbage collector of Kubernetes.               *)

CreatePods(d) ==
    /\ sts[d].owner # Absent
    /\ pods[d] = "none"
    /\ pods' = [pods EXCEPT ![d] = "starting"]
    /\ pvc' = [pvc EXCEPT ![d] = IF @.owner = Absent THEN [owner |-> Unowned, pw |-> 0] ELSE @]
    /\ UNCHANGED <<objVars, workVars, res, sts, secrets, restore, countVars>>

\* The first start initialises the data directory with the password.
StartPods(d) ==
    /\ pods[d] = "starting"
    /\ secrets[sts[d].secret].pw # 0
    /\ pods' = [pods EXCEPT ![d] = "running"]
    /\ pvc' = [pvc EXCEPT ![d].pw = IF @ = 0 THEN secrets[sts[d].secret].pw ELSE @]
    /\ UNCHANGED <<objVars, workVars, res, sts, secrets, restore, countVars>>

DeletePods(d) ==
    /\ pods[d] = "orphaned"
    /\ pods' = [pods EXCEPT ![d] = "none"]
    /\ UNCHANGED <<objVars, workVars, res, sts, pvc, secrets, restore, countVars>>

\* An owner reference to an incarnation that no longer exists.
Dangling(owner) == owner \in 1..MaxUid /\ \A d \in DB : px[d].uid # owner

CollectOffshoot(d, k) ==
    /\ Dangling(res[d][k])
    /\ res' = [res EXCEPT ![d][k] = Absent]
    /\ UNCHANGED <<objVars, workVars, sts, pods, pvc, secrets, restore, countVars>>

CollectSts(d) ==
    /\ Dangling(sts[d].owner)
    /\ DropSts(d)
    /\ UNCHANGED <<objVars, workVars, res, pvc, secrets, restore, countVars>>

\* A claim in use by pods is protected.
CollectPvc(d) ==
    /\ Dangling(pvc[d].owner)
    /\ pods[d] = "none"
    /\ pvc' = [pvc EXCEPT ![d] = NoStored]
    /\ UNCHANGED <<objVars, workVars, res, sts, pods, secrets, restore, countVars>>

CollectSecret(s) ==
    /\ Dangling(secrets[s].owner)
    /\ secrets' = [secrets EXCEPT ![s] = NoStored]
    /\ UNCHANGED <<objVars, workVars, res, sts, pods, pvc, restore, countVars>>

-----------------------------------------------------------------------------
(* Stash and the operator's controller for its RestoreSessions.              *)

\* A user asks for the initial restore.
CreateRestoreSession(d) ==
    /\ "restore" \in UserOps
    /\ restore[d] = "none"
    /\ Exists(px[d])
    /\ restore' = [restore EXCEPT ![d] = "Running"]
    /\ UNCHANGED <<objVars, workVars, shootVars, countVars>>

\* Stash restores a standalone database through its AppBinding into the
\* running pods, a cluster into volume claims.
RunRestore(d) ==
    /\ restore[d] = "Running"
    /\ IsCluster \/ (res[d]["app"] # Absent /\ pods[d] = "running")
    /\ \E phase \in {"Succeeded", "Failed"} : restore' = [restore EXCEPT ![d] = phase]
    /\ UNCHANGED <<objVars, workVars, shootVars, countVars>>

\* After a failed restore the user tries again.
RetryRestore(d) ==
    /\ restore[d] = "Failed"
    /\ restore' = [restore EXCEPT ![d] = "Running"]
    /\ UNCHANGED <<objVars, workVars, shootVars, countVars>>

\* processRestoreSession: the database is found through the controller
\* reference of the AppBinding; without AppBinding the session is an error.
ProcessRestoreSession(d) ==
    /\ restore[d] \in {"Succeeded", "Failed"}
    /\ res[d]["app"] # Absent
    /\ Exists(px[d])
    /\ px[d].restored # (restore[d] = "Succeeded")
    /\ SetPx(d, [px[d] EXCEPT !.restored = (restore[d] = "Succeeded")])
    /\ UNCHANGED <<workVars, shootVars, restore, countVars>>

-----------------------------------------------------------------------------
CreateStep(d) ==
    \/ ValidatePerconaXtraDB(d) \/ SetProvisioning(d) \/ CreateGoverningService(d)
    \/ EnsureOffshoot(d) \/ CreateDatabaseSecret(d) \/ PatchDatabaseSecret(d)
    \/ UpgradeDatabaseSecret(d) \/ EnsureStatefulSet(d) \/ CheckPodStatus(d)
    \/ SetReady(d) \/ CreateRejected(d)

HaltStep(d) ==
    \/ Halt(d) \/ HaltDatabase(d) \/ HaltStatefulSet(d) \/ WaitUntilPaused(d)
    \/ SetHalted(d)

\* terminate.  spec.monitor is nil, so that deleteMonitor, its last call, changes
\* nothing here; module Monitor has it.
TerminateStep(d) ==
    \/ ReleasePvc(d) \/ ReleaseSecret(d) \/ WipeOutDatabase(d) \/ OwnPvc(d)
    \/ RemoveFinalizer(d) \/ TerminateRejected(d)

WorkerStep(d) ==
    \/ AddFinalizer(d) \/ CreateStep(d) \/ HaltStep(d) \/ TerminateStep(d)
    \/ PushFailureEvent(d) \/ NotFound(d)

UserStep(d) ==
    \/ CreatePx(d) \/ EditHalt(d) \/ EditResume(d) \/ EditPolicy(d) \/ EditSpec(d)
    \/ EditPaused(d) \/ EditProvisioned(d) \/ DeletePx(d) \/ CreateRestoreSession(d)

KubernetesStep(d) ==
    \/ CreatePods(d) \/ StartPods(d) \/ DeletePods(d)
    \/ \E k \in Kinds : CollectOffshoot(d, k)
    \/ CollectSts(d) \/ CollectPvc(d)

StashStep(d) == RunRestore(d) \/ RetryRestore(d) \/ ProcessRestoreSession(d)

FaultStep(d) == CallFails(d) \/ PushFailurePanics(d)

Next ==
    \/ Deliver
    \/ \E d \in DB :
          \/ Resync(d) \/ RunPerconaXtraDB(d) \/ WorkerStep(d) \/ FaultStep(d)
          \/ UserStep(d) \/ KubernetesStep(d) \/ StashStep(d)
    \/ \E s \in SecretNames : CollectSecret(s)
    \/ Crash

Spec == Init /\ [][Next]_vars

(***************************************************************************)
(* The informer and the goroutines run, watches deliver, the resync timer   *)
(* ticks and Kubernetes' own controllers work; a key in the queue is not    *)
(* overtaken for ever (the queue is first in first out: EventIsProcessed of *)
(* WorkQueue), hence strong fairness of its Get.  Users, faults, crashes    *)
(* and Stash itself owe nothing.                                            *)
(***************************************************************************)
Fairness ==
    /\ WF_vars(Deliver)
    /\ \A d \in DB : /\ WF_vars(Resync(d))
                     /\ SF_vars(RunPerconaXtraDB(d))
                     /\ WF_vars(WorkerStep(d))
                     /\ WF_vars(KubernetesStep(d))
                     /\ WF_vars(ProcessRestoreSession(d))
    /\ \A s \in SecretNames : WF_vars(CollectSecret(s))

FairSpec == Spec /\ Fairness

-----------------------------------------------------------------------------
(* Safety.                                                                   *)

(* What create and halt work on cannot be deleted under them: from the       *)
(* finalizer patch (workqueue.go:67) to their last call, the live object is  *)
(* the incarnation of the goroutine's copy and has the finalizer.  Without   *)
(* it pushFailureEvent (controller.go:193) would dereference the nil result  *)
(* of a NotFound, and offshoots would be made for an owner that is gone.     *)
FinalizerHeld ==
    \A d \in DB : pc[d] \in CreateLocs \cup HaltLocs \cup {"fail"} =>
        /\ px[d].uid = my[d].uid
        /\ px[d].fin

\* The operator, not paused, has nothing left to do for d and says that it has
\* acted on the latest spec.  (Before that it may be at work on an old copy: the
\* reply to the finalizer patch is newer than the cache of the next run.)
Settled(d, phase) ==
    /\ pc[d] = "idle" /\ d \notin dirty /\ cache[d] = px[d]
    /\ Exists(px[d]) /\ ~px[d].del /\ ~px[d].paused
    /\ px[d].phase = phase
    /\ px[d].obsGen = px[d].gen

(* status.observedGeneration (percona_xtradb.go:153) never says more than    *)
(* what was applied: a Ready database whose spec is observed has the         *)
(* StatefulSet of exactly this spec and of this incarnation, and its         *)
(* service, RBAC objects and AppBinding, although each reconcile worked on a *)
(* copy that edits overtook.  (With longer lags it takes that validation's   *)
(* own calls succeed: ReadyProofs.)                                          *)
ObservedApplied ==
    \A d \in DB : Settled(d, "Ready") /\ ~px[d].halted =>
        /\ sts[d].owner = px[d].uid
        /\ sts[d].rev = px[d].rev
        /\ sts[d].secret = px[d].secret
        /\ \A k \in Kinds \ {"gvr"} : res[d][k] = px[d].uid

(* ... and its governing service, which gives its pods their names.  Only    *)
(* service.go:197 takes an object that exists already whoever owns it.       *)
GoverningServiceKept ==
    \A d \in DB : Settled(d, "Ready") /\ ~px[d].halted => res[d]["gvr"] # Absent

(* A database reported Halted for its present spec has left nothing running  *)
(* (haltDatabase and waitUntilPaused, dormant.go:37-212), through resumes,   *)
(* partial halts, retries, restarts and stale copies.                        *)
HaltedMeansGone ==
    \A d \in DB : Settled(d, "Halted") /\ px[d].halted =>
        /\ sts[d].owner = Absent
        /\ pods[d] = "none"
        /\ \A k \in Kinds : res[d][k] = Absent

(* "If TerminationPolicy is "halt", keep PVCs and Secrets intact"            *)
(* (percona_xtradb.go:212): a volume claim is left to the garbage collector  *)
(* only if another policy was in force at some time after the deletion was   *)
(* asked for, whatever failed and was repeated in between.                   *)
PvcKeptUnderHalt ==
    \A d \in DB : Dangling(pvc[d].owner) => asked[pvc[d].owner].policies \ {"Halt"} # {}

(* "If TerminationPolicy is "delete", delete PVCs and keep snapshots,secrets *)
(* intact" (percona_xtradb.go:220): only a wipe-out costs a secret.          *)
SecretKeptUnlessWipeOut ==
    \A s \in SecretNames :
        Dangling(secrets[s].owner) => "WipeOut" \in asked[secrets[s].owner].policies

(* "isSecretUsed gets the DBList of same kind, then checks if our required   *)
(* secret is used by those" (dormant.go:230): a secret of a database that    *)
(* existed when the deletion was asked for never gets the deleted one as its *)
(* owner.  The list comes from the informer's store, which lags.             *)
SharedSecretKept ==
    \A e \in DB : Exists(px[e]) /\ px[e].secret # NoSecret =>
        LET u == secrets[px[e].secret].owner IN
        u \in (1..MaxUid) \ {px[e].uid} => px[e].uid \notin asked[u].peers

(* The password the data directory was initialised with is the one clients   *)
(* are given (secret.go:37-84), also when the operator stops between the     *)
(* creation of the secret and the patch that names it, and when a database   *)
(* is created again over volumes or secrets that were kept.                  *)
CredentialsMatch ==
    \A d \in DB : pods[d] = "running" /\ px[d].secret # NoSecret
                    /\ sts[d].owner = px[d].uid =>
        secrets[px[d].secret].pw = pvc[d].pw

(* "two deployments with the same key are never processed in parallel" is    *)
(* said to make parallel processing safe (worker.go:79-80): a StatefulSet is *)
(* governed by the service of its own database, although its name passes     *)
(* through the field Controller.GoverningService (percona_xtradb.go:87),     *)
(* which all goroutines share.  Two of them in create at the same time       *)
(* violate it (options.go:70 fixes two).                                     *)
GoverningServiceOwn ==
    \A d \in DB : sts[d].owner # Absent => sts[d].svc = d

-----------------------------------------------------------------------------
(* Liveness, under FairSpec.                                                 *)

(* Reconciliation converges: once users and faults stop, every database      *)
(* that is not paused is Ready with running pods, or Halted, and observed.   *)
(* Holds while no key fails more often than it is retried (worker.go:92-108  *)
(* drops it then, and the resync leaves a NotReady database alone).          *)
Converges ==
    <>[](\A d \in DB : Exists(px[d]) /\ ~px[d].paused =>
            /\ Settled(d, IF px[d].halted THEN "Halted" ELSE "Ready")
            /\ ~px[d].halted => pods[d] = "running")

(* A deletion that was accepted completes (workqueue.go:55-65), also when    *)
(* the retries are used up: the handler always enqueues an object that is    *)
(* being deleted, so that the resync picks it up again.                      *)
DeletionCompletes == \A d \in DB : px[d].del ~> ~px[d].del

(* "Rest of the processing will execute after the the restore process        *)
(* completed" (percona_xtradb.go:77): a database whose initial restore       *)
(* succeeded becomes Ready.                                                  *)
RestoredBecomesReady ==
    \A d \in DB : restore[d] = "Succeeded" ~> px[d].phase = "Ready"

=============================================================================
