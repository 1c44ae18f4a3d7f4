--------------------------- MODULE SharingProofs ---------------------------
(***************************************************************************)
(* Proofs about Controller for every value of its constants, the number of  *)
(* goroutines among them: the field Controller.GoverningService mixes up    *)
(* databases only if two runs are between its assignment and its use at the *)
(* same time, and a secret that databases share is never given to the one   *)
(* that is wiped out.                                                       *)
(*                                                                         *)
(* The first bounds the race that two goroutines have: what a lock over     *)
(* these calls excludes is all there is to it; failed calls, stale copies,  *)
(* restarts and other runs elsewhere in their course cannot do it.  The     *)
(* second is about a lagging informer.  wipeOutDatabase asks the        *)
(* informer's store which secrets the peers use; a peer counts if it        *)
(* existed when the deletion was asked for.  The store has it then, because *)
(* all versions come through one watch in the order in which they were      *)
(* made (PeersSeen): the run began with the deletion, so what came before   *)
(* it is stored (PeersCached).  Steps are sorted by what they do to the     *)
(* objects (Put: Later, Ended or Created), to the runs (TermStays) and to   *)
(* the owners of secrets (OwnersLost); only wipeOutDatabase makes an owner. *)
(***************************************************************************)
EXTENDS ControllerProofs

----------------------------------------------------------------------------
(* The governing service *)

(* Between the assignment of Controller.GoverningService and its use.        *)
NamedLocs == {"rbac", "svc", "secret", "secretPatch", "sts"}

\* At most one run is there, whatever else the goroutines do.
Alone == \A d, e \in DB : pc[d] \in NamedLocs /\ pc[e] \in NamedLocs => d = e

\* The shared field names the service of the database of that run.
Named == \A d \in DB : pc[d] \in NamedLocs => governingService = d

OwnName == Named /\ GoverningServiceOwn

(* The run on d goes on or returns without naming a service.                 *)
GoesOnNamed(d) ==
    /\ pc[d] # "idle"
    /\ \E l : Goto(d, l) /\ (l \in NamedLocs => pc[d] \in NamedLocs)
    /\ governingService' = governingService

\* Such a step leaves the shared field to the run that has set it.
LEMMA RunNamed ==
    ASSUME WorkOK, OwnName, NEW d \in DB, GoesOnNamed(d)
    PROVE  Named'
  <1>1. PICK l : pc' = [pc EXCEPT ![d] = l] /\ (l \in NamedLocs => pc[d] \in NamedLocs)
    BY DEF GoesOnNamed, Goto
  <1>2. pc'[d] = l /\ \A e \in DB \ {d} : pc'[e] = pc[e]
    BY <1>1 DEF WorkOK
  <1> QED BY <1>1, <1>2 DEF OwnName, Named, GoesOnNamed

\* So does a step that touches neither runs nor field.
LEMMA NoRunNamed ==
    ASSUME OwnName, pc' = pc, governingService' = governingService
    PROVE  Named'
  BY DEF OwnName, Named

(* No StatefulSet is made.                                                   *)
LEMMA SetsKept ==
    ASSUME OwnName, \A d \in DB : sts'[d] = sts[d] \/ sts'[d].owner = Absent
    PROVE  GoverningServiceOwn'
  BY DEF OwnName, GoverningServiceOwn

\* The end of a run is a move to "idle".
LEMMA ReturnGoes ==
    ASSUME NEW d, ReturnNil(d) \/ ReturnErr(d)
    PROVE  Goto(d, "idle")
  BY DEF ReturnNil, ReturnErr, Leave

\* What the finalizer patch does to run, field and StatefulSet.
LEMMA FinalizerRun ==
    ASSUME NEW d \in DB, AddFinalizer(d)
    PROVE  GoesOnNamed(d) /\ sts' = sts
  <1>1. pc[d] # "idle" /\ UNCHANGED <<governingService, shootVars>>
    BY DEF AddFinalizer
  <1>2. \E l \in {"idle", "halt", "validate"} : Goto(d, l)
    BY ReturnGoes DEF AddFinalizer
  <1> QED BY <1>1, <1>2 DEF GoesOnNamed, NamedLocs, shootVars

\* Continue goes on or ends the run.
LEMMA ContinueGoes ==
    ASSUME NEW d, NEW l, Continue(d, l)
    PROVE  Goto(d, l) \/ Goto(d, "idle")
  BY ReturnGoes DEF Continue

\* The same for create: one call sets the field, one uses it.
LEMMA CreateRun ==
    ASSUME NEW d \in DB, CreateStep(d)
    PROVE  \/ GoesOnNamed(d) /\ sts' = sts
           \/ CreateGoverningService(d)
           \/ GoesOnNamed(d) /\ EnsureStatefulSet(d)
  <1>1. CASE ValidatePerconaXtraDB(d)
    <2>1. PICK l \in {"return", "provisioning", "gvr"} : Continue(d, l)
      BY <1>1, AfterLocs DEF ValidatePerconaXtraDB
    <2>2. pc[d] # "idle" /\ UNCHANGED <<governingService, shootVars>>
      BY <1>1 DEF ValidatePerconaXtraDB
    <2> QED BY <2>1, <2>2, ContinueGoes DEF GoesOnNamed, NamedLocs, shootVars
  <1>2. CASE SetProvisioning(d)
    <2>1. \E l \in {"idle", "gvr"} : Goto(d, l)
      BY <1>2, AfterLocs, ReturnGoes DEF SetProvisioning
    <2>2. pc[d] # "idle" /\ UNCHANGED <<governingService, shootVars>>
      BY <1>2 DEF SetProvisioning
    <2> QED BY <2>1, <2>2 DEF GoesOnNamed, NamedLocs, shootVars
  <1>3. CASE EnsureOffshoot(d)
    <2> DEFINE n == CASE pc[d] = "rbac" -> "svc"
                      [] pc[d] = "svc"  -> "secret"
                      [] OTHER          -> AfterApp(my[d])
    <2>1. pc[d] \in {"rbac", "svc", "app"} /\ Continue(d, n) /\ UNCHANGED <<governingService, sts>>
      BY <1>3 DEF EnsureOffshoot
    <2>2. n \in NamedLocs => pc[d] \in NamedLocs
      <3>1. AfterApp(my[d]) \in {"return", "ready"}
        BY AfterLocs
      <3>2. CASE pc[d] = "rbac" \/ pc[d] = "svc"
        BY <3>2 DEF NamedLocs
      <3>3. CASE pc[d] # "rbac" /\ pc[d] # "svc"
        <4>1. n = AfterApp(my[d])
          BY <3>3
        <4> HIDE DEF n
        <4> QED BY <3>1, <4>1 DEF NamedLocs
      <3> QED BY <3>2, <3>3
    <2> HIDE DEF n
    <2> QED BY <2>1, <2>2, ContinueGoes DEF GoesOnNamed, NamedLocs
  <1>4. CASE CreateDatabaseSecret(d) \/ UpgradeDatabaseSecret(d)
    BY <1>4 DEF CreateDatabaseSecret, UpgradeDatabaseSecret, GoesOnNamed, NamedLocs
  <1>5. CASE PatchDatabaseSecret(d)
    BY <1>5 DEF PatchDatabaseSecret, GoesOnNamed, NamedLocs, shootVars
  <1>6. CASE EnsureStatefulSet(d)
    <2>1. pc[d] = "sts" /\ governingService' = governingService
      BY <1>6 DEF EnsureStatefulSet
    <2>2. \E l \in {"app", "pods"} : Goto(d, l)
      BY <1>6 DEF EnsureStatefulSet
    <2> QED BY <1>6, <2>1, <2>2 DEF GoesOnNamed, NamedLocs
  <1>7. CASE CheckPodStatus(d)
    BY <1>7 DEF CheckPodStatus, GoesOnNamed, NamedLocs, shootVars
  <1>8. CASE SetReady(d)
    BY <1>8, ReturnGoes DEF SetReady, GoesOnNamed, NamedLocs, shootVars
  <1>9. CASE CreateRejected(d)
    BY <1>9 DEF CreateRejected, Rejected, GoesOnNamed, NamedLocs, shootVars
  <1> QED BY <1>1, <1>2, <1>3, <1>4, <1>5, <1>6, <1>7, <1>8, <1>9 DEF CreateStep

\* The same for halt.
LEMMA HaltRun ==
    ASSUME NEW d \in DB, HaltStep(d)
    PROVE  GoesOnNamed(d) /\ (sts' = sts \/ DropSts(d))
  <1>1. CASE Halt(d)
    <2>1. \E l \in {"haltApp", "fail"} : Goto(d, l)
      BY <1>1 DEF Halt
    <2> QED BY <1>1, <2>1 DEF Halt, GoesOnNamed, NamedLocs, shootVars
  <1>2. CASE HaltDatabase(d)
    <2>1. \E l \in {"haltSts", "haltSvcs", "waitPaused"} : Goto(d, l)
      BY <1>2 DEF HaltDatabase
    <2> QED BY <1>2, <2>1 DEF HaltDatabase, GoesOnNamed, NamedLocs
  <1>3. CASE HaltStatefulSet(d)
    BY <1>3 DEF HaltStatefulSet, GoesOnNamed, NamedLocs
  <1>4. CASE WaitUntilPaused(d)
    BY <1>4 DEF WaitUntilPaused, GoesOnNamed, NamedLocs, shootVars
  <1>5. CASE SetHalted(d)
    BY <1>5, ReturnGoes DEF SetHalted, GoesOnNamed, NamedLocs, shootVars
  <1> QED BY <1>1, <1>2, <1>3, <1>4, <1>5 DEF HaltStep

\* The same for terminate.
LEMMA TerminateRun ==
    ASSUME NEW d \in DB, TerminateStep(d)
    PROVE  GoesOnNamed(d) /\ sts' = sts
  <1>1. CASE ReleasePvc(d) \/ WipeOutDatabase(d) \/ OwnPvc(d)
    BY <1>1 DEF ReleasePvc, WipeOutDatabase, OwnPvc, GoesOnNamed, NamedLocs
  <1>2. CASE ReleaseSecret(d)
    <2>1. \E l \in {"removeFinalizer", "ownPvc"} : Goto(d, l)
      BY <1>2 DEF ReleaseSecret
    <2> QED BY <1>2, <2>1 DEF ReleaseSecret, GoesOnNamed, NamedLocs
  <1>3. CASE RemoveFinalizer(d)
    BY <1>3, ReturnGoes DEF RemoveFinalizer, GoesOnNamed, NamedLocs, shootVars
  <1>4. CASE TerminateRejected(d)
    BY <1>4, ReturnGoes DEF TerminateRejected, GoesOnNamed, NamedLocs, shootVars
  <1> QED BY <1>1, <1>2, <1>3, <1>4 DEF TerminateStep

\* The same for an error.
LEMMA ErrorRun ==
    ASSUME NEW d \in DB, pc[d] # "idle", Error(d)
    PROVE  GoesOnNamed(d) /\ sts' = sts
  <1>1. \E l \in {"idle", "fail"} : Goto(d, l)
    <2>1. CASE pc[d] = "validate"
      BY <2>1, ReturnGoes DEF Error
    <2>2. CASE pc[d] # "validate" /\ pc[d] \in TermLocs \cup {"addFinalizer", "fail"}
      BY <2>2, ReturnGoes DEF Error
    <2>3. CASE pc[d] # "validate" /\ pc[d] \notin TermLocs \cup {"addFinalizer", "fail"}
      BY <2>3 DEF Error
    <2> QED BY <2>1, <2>2, <2>3
  <1> QED BY <1>1 DEF Error, GoesOnNamed, NamedLocs, shootVars

(* The sets of d's are dropped.                                              *)
LEMMA DroppedSet ==
    ASSUME ShootOK, NEW d \in DB, DropSts(d)
    PROVE  \A e \in DB : sts'[e] = sts[e] \/ sts'[e].owner = Absent
  BY DEF ShootOK, DropSts, NoSts

\* Every step of a run keeps OwnName.  At CreateGoverningService it takes that
\* no other run is left that has set the field and not used it.
LEMMA WorkerRun ==
    ASSUME IInv, OwnName, Alone', NEW d \in DB, WorkerStep(d) \/ CallFails(d)
    PROVE  OwnName'
  <1>1. WorkOK /\ ShootOK
    BY DEF IInv, Reconciling, Offshoots
  <1>2. CASE GoesOnNamed(d) /\ (sts' = sts \/ DropSts(d))
    BY <1>1, <1>2, RunNamed, SetsKept, DroppedSet DEF OwnName
  <1>3. CASE CreateGoverningService(d)
    <2>1. /\ pc[d] # "idle" /\ governingService' = d /\ sts' = sts
          /\ pc' = [pc EXCEPT ![d] = "rbac"]
      BY <1>3 DEF CreateGoverningService, Goto
    <2>2. pc'[d] \in NamedLocs
      BY <1>1, <2>1 DEF WorkOK, NamedLocs
    <2>3. Named'
      BY <2>1, <2>2 DEF Alone, Named
    <2> QED BY <2>1, <2>3, SetsKept DEF OwnName
  <1>4. CASE GoesOnNamed(d) /\ EnsureStatefulSet(d)
    <2>1. pc[d] = "sts" /\ sts' = [sts EXCEPT ![d] = DesiredSts(d)]
      BY <1>4 DEF EnsureStatefulSet
    <2>2. governingService = d
      BY <2>1 DEF OwnName, Named, NamedLocs
    <2>3. sts'[d] = DesiredSts(d) /\ DesiredSts(d).svc = d /\ \A e \in DB \ {d} : sts'[e] = sts[e]
      BY <1>1, <2>1, <2>2 DEF ShootOK, DesiredSts
    <2>4. GoverningServiceOwn'
      BY <2>3 DEF OwnName, GoverningServiceOwn
    <2> QED BY <1>1, <1>4, <2>4, RunNamed DEF OwnName
  <1>5. CASE PushFailureEvent(d)
    <2>1. GoesOnNamed(d) /\ sts' = sts
      BY <1>5, ReturnGoes DEF PushFailureEvent, GoesOnNamed, NamedLocs, shootVars
    <2> QED BY <1>2, <2>1
  <1>6. CASE NotFound(d)
    BY <1>2, <1>6, ErrorRun DEF NotFound, ObjectLocs
  <1>7. CASE CallFails(d)
    BY <1>2, <1>7, ErrorRun DEF CallFails, Silent
  <1> QED BY <1>2, <1>3, <1>4, <1>5, <1>6, <1>7, FinalizerRun, CreateRun, HaltRun, TerminateRun
         DEF WorkerStep

(* A run begins before it names a service.                                   *)
LEMMA BeginNamed ==
    ASSUME IInv, OwnName, NEW d \in DB, RunPerconaXtraDB(d)
    PROVE  OwnName'
  <1>2. sts' = sts /\ governingService' = governingService
    BY DEF RunPerconaXtraDB, shootVars
  <1>3. PICK l : /\ pc' = [pc EXCEPT ![d] = l]
                 /\ l \in {"idle", "addFinalizer", "releasePvc", "wipeOut", "releaseSecret"}
    <2> DEFINE o == cache[d]
               k == CASE ~Exists(o)       -> "idle"
                      [] o.del /\ ~o.fin  -> "idle"
                      [] o.del /\ o.fin   -> TerminateLoc(o.policy)
                      [] OTHER            -> "addFinalizer"
    <2>1. pc' = [pc EXCEPT ![d] = k]
      BY DEF RunPerconaXtraDB, Goto
    <2>2. k = "idle" \/ k = TerminateLoc(o.policy) \/ k = "addFinalizer"
      OBVIOUS
    <2> HIDE DEF k
    <2> QED BY <2>1, <2>2, TerminateLocs
  <1>4. pc'[d] = l /\ \A e \in DB \ {d} : pc'[e] = pc[e]
    BY <1>3 DEF IInv, Reconciling, WorkOK
  <1>5. Named'
    BY <1>2, <1>3, <1>4 DEF OwnName, Named, NamedLocs
  <1> QED BY <1>2, <1>5, SetsKept DEF OwnName

(* Neither the goroutines nor the sets change.                               *)
LEMMA OthersNamed ==
    ASSUME IInv, OwnName, UNCHANGED <<pc, governingService>>, sts' = sts \/ \E d \in DB : DropSts(d)
    PROVE  OwnName'
  <1>1. \A e \in DB : sts'[e] = sts[e] \/ sts'[e].owner = Absent
    BY DroppedSet DEF IInv, Offshoots
  <1> QED BY <1>1, NoRunNamed, SetsKept DEF OwnName

\* After a restart there is no run.
LEMMA StartNamed ==
    ASSUME OwnName, StartOperator
    PROVE  OwnName'
  <1>1. pc' = [d \in DB |-> "idle"] /\ sts' = sts
    BY DEF StartOperator, shootVars
  <1>2. Named'
    BY <1>1 DEF Named, NamedLocs
  <1> QED BY <1>1, <1>2, SetsKept DEF OwnName

\* Every step keeps OwnName, if it leaves at most one run that has set the field.
LEMMA OwnNameInductive ==
    IInv /\ OwnName /\ Alone' /\ [Next]_vars => OwnName'
  <1> SUFFICES ASSUME IInv, OwnName, Alone', [Next]_vars PROVE OwnName'
    OBVIOUS
  <1>1. CASE Deliver
    BY <1>1, OthersNamed DEF Deliver, shootVars
  <1>2. ASSUME NEW d \in DB, Resync(d) \/ RunPerconaXtraDB(d)
        PROVE  OwnName'
    BY <1>2, OthersNamed, BeginNamed DEF Resync, shootVars
  <1>3. ASSUME NEW d \in DB, WorkerStep(d)
        PROVE  OwnName'
    BY <1>3, WorkerRun
  <1>4. ASSUME NEW d \in DB, FaultStep(d)
        PROVE  OwnName'
    BY <1>4, WorkerRun, StartNamed DEF FaultStep, PushFailurePanics
  <1>5. ASSUME NEW d \in DB, UserStep(d)
        PROVE  OwnName'
    <2>1. UNCHANGED <<workVars, shootVars>>
      BY <1>5 DEF UserStep, CreatePx, Edit, EditHalt, EditResume, EditPolicy, EditSpec, EditPaused,
                  EditProvisioned, DeletePx, CreateRestoreSession
    <2> QED BY <2>1, OthersNamed DEF workVars, shootVars
  <1>6. ASSUME NEW d \in DB, KubernetesStep(d)
        PROVE  OwnName'
    <2>1. UNCHANGED workVars /\ (sts' = sts \/ DropSts(d))
      BY <1>6 DEF KubernetesStep, CreatePods, StartPods, DeletePods, CollectOffshoot, CollectSts,
                  CollectPvc
    <2> QED BY <2>1, OthersNamed DEF workVars
  <1>7. ASSUME NEW d \in DB, StashStep(d)
        PROVE  OwnName'
    <2>1. UNCHANGED <<workVars, shootVars>>
      BY <1>7 DEF StashStep, RunRestore, RetryRestore, ProcessRestoreSession
    <2> QED BY <2>1, OthersNamed DEF workVars, shootVars
  <1>8. ASSUME NEW s \in SecretNames, CollectSecret(s)
        PROVE  OwnName'
    BY <1>8, OthersNamed DEF CollectSecret, workVars
  <1>9. CASE Crash
    BY <1>9, StartNamed DEF Crash
  <1>10. CASE UNCHANGED vars
    BY <1>10, OthersNamed DEF vars, workVars, shootVars
  <1> QED BY <1>1, <1>2, <1>3, <1>4, <1>5, <1>6, <1>7, <1>8, <1>9, <1>10 DEF Next

(* For any number of goroutines: a StatefulSet is governed by the service of *)
(* its own database as long as no two runs of create are between the         *)
(* assignment of the field Controller.GoverningService (percona_xtradb.go:87)*)
(* and its use for the StatefulSet (statefulset.go:187) at the same time.    *)
(* Only this overlap does the harm that the run two_threads shows; a failed  *)
(* call, a retry from a stale copy or a restart, which loses the field, also *)
(* ends the run that would have used it.                                     *)
THEOREM GoverningServiceIsOwn == Spec /\ []Alone => []GoverningServiceOwn
  <1>1. Init => OwnName
    BY DEF Init, OwnName, Named, NamedLocs, GoverningServiceOwn, NoSts
  <1>2. IInv /\ OwnName /\ Alone' /\ [Next]_vars => OwnName'
    BY OwnNameInductive
  <1>3. OwnName => GoverningServiceOwn
    BY DEF OwnName
  <1> QED BY <1>1, <1>2, <1>3, Invariance, PTL DEF Spec

----------------------------------------------------------------------------
(* Secrets that databases share *)

\* Uids are handed out in order, each to one object, and a deletion is recorded
\* when it is asked for.
UidsFresh ==
    /\ \A d \in DB : px[d].uid \leq uids /\ \A i \in Positions(d) : Version(d, i).uid \leq uids
    /\ \A d, e \in DB : px[d].uid = px[e].uid /\ px[d].uid # 0 => d = e
    /\ \A u \in 1..MaxUid : /\ asked[u].policies # {} => u \leq uids
                            /\ \A v \in asked[u].peers : v \leq uids
    /\ \A d \in DB : px[d].uid # 0 /\ ~px[d].del => asked[px[d].uid].policies = {}

\* The informer gets the live incarnation last.
LiveLast ==
    \A d \in DB : px[d].uid # 0 =>
        /\ \E j \in Positions(d) : Version(d, j).uid = px[d].uid
        /\ \A j, k \in Positions(d) : j < k /\ Version(d, j).uid = px[d].uid =>
              Version(d, k).uid = px[d].uid

\* A database names its own secret or one of the users', and the live object
\* that of its versions, or its own instead.
SecretsNamed ==
    \A d \in DB :
        /\ px[d].secret \in UserSecrets \cup {NoSecret, d}
        /\ \A i \in Positions(d) :
             /\ Version(d, i).secret \in UserSecrets \cup {NoSecret, d}
             /\ px[d].uid # 0 /\ Version(d, i).uid = px[d].uid =>
                  Version(d, i).secret = px[d].secret \/ px[d].secret = d

\* A deleted object was never its own peer, nor is the next one of its name.
NoPeer(d, o) == o.del /\ px[d].uid # 0 => px[d].uid \notin asked[o.uid].peers

\* A deletion reaches the informer after the peers that it had.
PeersSeen ==
    \A d \in DB :
        /\ NoPeer(d, px[d])
        /\ \A i \in Positions(d) :
             /\ NoPeer(d, Version(d, i))
             /\ Version(d, i).del => \A e \in DB \ {d} :
                  px[e].uid # 0 /\ px[e].uid \in asked[Version(d, i).uid].peers =>
                     \E j \in Positions(e) : j \leq i /\ Version(e, j).uid = px[e].uid

\* So terminate finds its peers in the informer's store.
PeersCached ==
    \A d \in DB : pc[d] \in TermLocs =>
        /\ my[d].secret \in UserSecrets \cup {NoSecret, d}
        /\ NoPeer(d, my[d])
        /\ \A e \in DB \ {d} :
             px[e].uid # 0 /\ px[e].uid \in asked[my[d].uid].peers => cache[e].uid = px[e].uid

\* A database's own secret is never owned by one that had it as a peer.
OwnSecretKept ==
    \A d \in DB : px[d].uid # 0 /\ secrets[d].owner \in 1..MaxUid =>
        px[d].uid \notin asked[secrets[d].owner].peers

Seen    == UidsFresh /\ LiveLast /\ SecretsNamed /\ PeersSeen
Sharing == Seen /\ PeersCached /\ OwnSecretKept /\ SharedSecretKept

----------------------------------------------------------------------------
(* Steps on objects *)

(* The object of d becomes o: what that does to all versions and to the      *)
(* history.                                                                  *)
Put(d, o) ==
    /\ px'[d] = o /\ \A e \in DB \ {d} : px'[e] = px[e]
    /\ \A e \in DB : \A i \in Positions(e)' :
          \/ i \in Positions(e) /\ Version(e, i)' = Version(e, i)
          \/ e = d /\ i = Len(watch) + 1 /\ Version(e, i)' = o
    /\ \A e \in DB : \A i \in Positions(e) :
          /\ i \in Int /\ i < Len(watch) + 1
          /\ i \in Positions(e)' /\ Version(e, i)' = Version(e, i)
    /\ o = px[d] \/ \E n \in Positions(d)' : n = Len(watch) + 1 /\ Version(d, n)' = o
    /\ Len(watch) \in Nat
    /\ \A u \in 1..MaxUid : asked'[u] = asked[u] \/ (o.del /\ u = o.uid)
    /\ o.del => asked'[o.uid].peers = IF px[d].del THEN asked[o.uid].peers
                                      ELSE {px[e].uid : e \in DB \ {d}}

\* A write changes the history of its own object only, at its deletion.
LEMMA PutHistory ==
    ASSUME ObjOK, NEW d \in DB, NEW o \in Px, o.del => o.uid \in 1..MaxUid, SetPx(d, o)
    PROVE  /\ \A u \in 1..MaxUid : asked'[u] = asked[u] \/ (o.del /\ u = o.uid)
           /\ o.del => asked'[o.uid].peers = IF px[d].del THEN asked[o.uid].peers
                                             ELSE {px[e].uid : e \in DB \ {d}}
  <1>1. CASE ~o.del
    BY <1>1 DEF SetPx
  <1>2. CASE o.del
    <2>1. asked' = [asked EXCEPT ![o.uid] = Deletion(d, o)] /\ o.uid \in 1..MaxUid
      BY <1>2 DEF SetPx
    <2>2. asked'[o.uid] = Deletion(d, o) /\ \A u \in (1..MaxUid) \ {o.uid} : asked'[u] = asked[u]
      BY <2>1 DEF ObjOK
    <2>3. Deletion(d, o).peers = IF px[d].del THEN asked[o.uid].peers
                                 ELSE {px[e].uid : e \in DB \ {d}}
      BY DEF Deletion
    <2> QED BY <1>2, <2>2, <2>3
  <1> QED BY <1>1, <1>2

\* What SetPx does to object, versions and history.
LEMMA PutFacts ==
    ASSUME ObjOK, NEW d \in DB, NEW o \in Px, o.del => o.uid \in 1..MaxUid, SetPx(d, o),
           cache' = cache
    PROVE  Put(d, o)
  <1>1. px'[d] = o /\ \A e \in DB \ {d} : px'[e] = px[e]
    BY SetPxFacts
  <1>2. \A e \in DB :
          /\ \A i \in Positions(e)' : \/ i \in Positions(e) /\ Version(e, i)' = Version(e, i)
                                      \/ e = d /\ i = Len(watch) + 1 /\ Version(e, i)' = o
          /\ \A i \in Positions(e) : i \in Int /\ i < Len(watch) + 1
    BY NewVersion
  <1>3. [db |-> d, obj |-> o] \in Entries /\ watch \in Seq(Entries) /\ Len(watch) \in Nat
    BY DEF Entries, ObjOK
  <1>4. CASE o = px[d]
    <2>1. watch' = watch
      BY <1>4 DEF SetPx
    <2>2. \A e \in DB : \A i \in Positions(e) :
             i \in Positions(e)' /\ Version(e, i)' = Version(e, i)
      BY <2>1 DEF Positions, Version
    <2> QED BY <1>1, <1>2, <1>3, <1>4, <2>2, PutHistory DEF Put
  <1>5. CASE o # px[d]
    <2>1. watch' = Append(watch, [db |-> d, obj |-> o])
      BY <1>5 DEF SetPx
    <2>2. /\ Len(watch') = Len(watch) + 1
          /\ \A i \in 1..Len(watch) : watch'[i] = watch[i]
          /\ watch'[Len(watch) + 1] = [db |-> d, obj |-> o]
      BY <1>3, <2>1, WatchAppend
    <2>3. ASSUME NEW e \in DB, NEW i \in Positions(e)
          PROVE  i \in Positions(e)' /\ Version(e, i)' = Version(e, i)
      <3>1. CASE i = 0
        BY <3>1 DEF Positions, Version
      <3>2. CASE i # 0
        <4>1. i \in 1..Len(watch) /\ watch[i].db = e
          BY <3>2 DEF Positions
        <4>2. i \in 1..Len(watch') /\ watch'[i] = watch[i]
          BY <1>3, <2>2, <4>1
        <4> QED BY <3>2, <4>1, <4>2 DEF Positions, Version
      <3> QED BY <3>1, <3>2
    <2>4. \E n \in Positions(d)' : n = Len(watch) + 1 /\ Version(d, n)' = o
      <3>1. PICK n : n = Len(watch) + 1
        OBVIOUS
      <3>2. n \in 1..Len(watch') /\ n # 0
        BY <1>3, <2>2, <3>1
      <3>3. watch'[n].db = d /\ watch'[n].obj = o
        BY <2>2, <3>1
      <3>4. n \in Positions(d)' /\ Version(d, n)' = o
        BY <3>2, <3>3 DEF Positions, Version
      <3> QED BY <3>1, <3>4
    <2> QED BY <1>1, <1>2, <1>3, <2>3, <2>4, PutHistory DEF Put
  <1> QED BY <1>4, <1>5

(* Another version of the live object, the end of an object, a new one.      *)
Later(d, o) ==
    /\ px[d].uid # 0 /\ o.uid = px[d].uid /\ (px[d].del => o.del)
    /\ o.secret \in {px[d].secret, d}

Ended(d, o) == o.uid = 0 /\ ~o.del /\ o.secret = NoSecret

Created(d, o) ==
    /\ px[d].uid = 0 /\ o.uid = uids + 1 /\ ~o.del
    /\ o.secret \in UserSecrets \cup {NoSecret}

(* What that does to the object of each name, and to the history.            *)
Evolves(e) ==
    \/ px'[e].uid = 0
    \/ px'[e].uid = px[e].uid /\ px'[e].secret \in {px[e].secret, e}
    \/ \A u \in 1..MaxUid : px'[e].uid \notin asked[u].peers

Frozen ==
    \A u \in 1..MaxUid : asked[u].policies # {} => asked'[u].peers = asked[u].peers

\* After a write every object has evolved, and the history of deletions is frozen.
LEMMA PutEvolves ==
    ASSUME IInv, UidsFresh, NEW d \in DB, NEW o \in Px, Put(d, o),
           Later(d, o) \/ Ended(d, o) \/ Created(d, o)
    PROVE  Frozen /\ \A e \in DB : Evolves(e)
  <1>1. Frozen
    <2> SUFFICES ASSUME NEW u \in 1..MaxUid, asked[u].policies # {}
                 PROVE  asked'[u].peers = asked[u].peers
      BY DEF Frozen
    <2>1. CASE asked'[u] = asked[u]
      BY <2>1
    <2>2. CASE o.del /\ u = o.uid
      <3>1. Later(d, o)
        BY <2>2 DEF Ended, Created
      <3>2. px[d].del
        BY <2>2, <3>1 DEF Later, UidsFresh
      <3> QED BY <2>2, <3>2 DEF Put
    <2> QED BY <2>1, <2>2 DEF Put
  <1>2. ASSUME NEW e \in DB \ {d}
        PROVE  Evolves(e)
    BY DEF Put, Evolves
  <1>3. Evolves(d)
    <2>1. px'[d] = o
      BY DEF Put
    <2>2. CASE Later(d, o)
      BY <2>1, <2>2 DEF Later, Evolves
    <2>3. CASE Ended(d, o)
      BY <2>1, <2>3 DEF Ended, Evolves
    <2>4. CASE Created(d, o)
      <3>1. uids \in Nat /\ o.uid = uids + 1
        BY <2>4 DEF IInv, Offshoots, CountOK, Created
      <3>2. \A u \in 1..MaxUid : \A v \in asked[u].peers : v \leq uids
        BY DEF UidsFresh
      <3>3. ~(o.uid \leq uids)
        BY <3>1
      <3> QED BY <2>1, <3>2, <3>3 DEF Evolves
    <2> QED BY <2>2, <2>3, <2>4
  <1> QED BY <1>1, <1>2, <1>3

(* Only runs of terminate that were there are there, with the same copy.     *)
TermStays == \A e \in DB : pc'[e] \in TermLocs => pc[e] \in TermLocs /\ my'[e] = my[e]

(* No secret gets an owner.                                                  *)
OwnersLost ==
    \A s \in SecretNames : secrets'[s].owner \in 1..MaxUid => secrets'[s].owner = secrets[s].owner

(* No peer of an earlier deletion comes back.                                *)
LEMMA PeersKept ==
    ASSUME Frozen, NEW e \in DB, Evolves(e), px'[e].uid # 0, NEW u \in 1..MaxUid,
           asked[u].policies # {}, px'[e].uid \in asked'[u].peers
    PROVE  /\ px'[e].uid = px[e].uid /\ px[e].uid \in asked[u].peers
           /\ px'[e].secret \in {px[e].secret, e}
  BY DEF Frozen, Evolves

\* Secrets that are not given away stay kept, however the objects evolve.
LEMMA SecretsStayKept ==
    ASSUME IInv, Sharing, Frozen, \A e \in DB : Evolves(e), OwnersLost, px' \in [DB -> Px]
    PROVE  OwnSecretKept' /\ SharedSecretKept'
  <1>1. ASSUME NEW s \in SecretNames, secrets'[s].owner \in 1..MaxUid
        PROVE  /\ secrets'[s].owner = secrets[s].owner
               /\ asked[secrets[s].owner].policies # {}
    BY <1>1 DEF OwnersLost, IInv, Offshoots, OwnersAsked
  <1>2. OwnSecretKept'
    <2> SUFFICES ASSUME NEW d \in DB, px'[d].uid # 0, secrets'[d].owner \in 1..MaxUid,
                        px'[d].uid \in asked'[secrets'[d].owner].peers
                 PROVE  FALSE
      BY DEF OwnSecretKept
    <2>1. d \in SecretNames
      BY DEF SecretNames
    <2>2. secrets'[d].owner = secrets[d].owner /\ asked[secrets[d].owner].policies # {}
      BY <1>1, <2>1
    <2>3. px'[d].uid = px[d].uid /\ px[d].uid \in asked[secrets[d].owner].peers
      BY <2>2, PeersKept
    <2> QED BY <2>2, <2>3 DEF Sharing, OwnSecretKept
  <1>3. SharedSecretKept'
    <2> SUFFICES ASSUME NEW e \in DB, px'[e].uid # 0, px'[e].secret # NoSecret,
                        NEW u \in 1..MaxUid, u = secrets'[px'[e].secret].owner,
                        u # px'[e].uid, px'[e].uid \in asked'[u].peers
                 PROVE  FALSE
      BY DEF SharedSecretKept, Exists
    <2>1. px'[e].secret \in SecretNames
      <3>1. px'[e] \in Px
        OBVIOUS
      <3> QED BY <3>1, PxFields
    <2>2. u = secrets[px'[e].secret].owner /\ asked[u].policies # {}
      BY <1>1, <2>1
    <2>3. /\ px'[e].uid = px[e].uid /\ px[e].uid \in asked[u].peers
          /\ px'[e].secret \in {px[e].secret, e}
      BY <2>2, PeersKept
    <2>4. CASE px'[e].secret = px[e].secret
      BY <2>2, <2>3, <2>4 DEF Sharing, SharedSecretKept, Exists
    <2>5. CASE px'[e].secret = e
      BY <2>2, <2>3, <2>5 DEF Sharing, OwnSecretKept
    <2> QED BY <2>3, <2>4, <2>5
  <1> QED BY <1>2, <1>3

\* Peers in the store stay there, however the objects evolve.
LEMMA PeersStayCached ==
    ASSUME IInv, Sharing, Frozen, \A e \in DB : Evolves(e), TermStays, cache' = cache
    PROVE  PeersCached'
  <1> SUFFICES ASSUME NEW d \in DB, pc'[d] \in TermLocs
               PROVE  /\ my'[d].secret \in UserSecrets \cup {NoSecret, d}
                      /\ NoPeer(d, my[d])'
                      /\ \A e \in DB \ {d} :
                           px'[e].uid # 0 /\ px'[e].uid \in asked'[my'[d].uid].peers =>
                             cache'[e].uid = px'[e].uid
    BY DEF PeersCached
  <1>1. my'[d] = my[d] /\ pc[d] \in TermLocs
    BY DEF TermStays
  <1>2. my[d].del /\ my[d].uid \in 1..MaxUid /\ asked[my[d].uid].policies # {}
    BY <1>1 DEF IInv, Reconciling, Terminating, Asked, Vouched
  <1>3. my'[d].secret \in UserSecrets \cup {NoSecret, d}
    BY <1>1 DEF Sharing, PeersCached
  <1>4. NoPeer(d, my[d])'
    BY <1>1, <1>2, PeersKept DEF Sharing, PeersCached, NoPeer
  <1>5. ASSUME NEW e \in DB \ {d}, px'[e].uid # 0, px'[e].uid \in asked'[my'[d].uid].peers
        PROVE  cache'[e].uid = px'[e].uid
    BY <1>1, <1>2, <1>5, PeersKept DEF Sharing, PeersCached
  <1> QED BY <1>3, <1>4, <1>5

(* The four parts about objects and versions, when the object of d becomes o. *)
Puts(d, o) ==
    /\ Put(d, o)
    /\ \/ uids' = uids /\ (Later(d, o) \/ Ended(d, o))
       \/ uids' = o.uid /\ Created(d, o)

\* A write uses no uid twice.
LEMMA PutUids ==
    ASSUME IInv, NEW d \in DB, NEW o \in Px, Puts(d, o), UidsFresh
    PROVE  /\ \A v \in Nat : v \leq uids => v \leq uids'
           /\ o.uid \leq uids'
           /\ Created(d, o) => ~(o.uid \leq uids)
  <1>1. uids \in Nat /\ o.uid \in Nat
    BY PxFields, ControllerAssumption DEF IInv, Offshoots, CountOK, ControllerAssumption
  <1>2. px[d].uid \leq uids
    BY DEF UidsFresh
  <1>3. CASE uids' = uids /\ Later(d, o)
    BY <1>1, <1>2, <1>3 DEF Later, Created
  <1>4. CASE uids' = uids /\ Ended(d, o)
    BY <1>1, <1>4 DEF Ended, Created
  <1>5. CASE uids' = o.uid /\ Created(d, o)
    <2>1. o.uid = uids + 1
      BY <1>5 DEF Created
    <2> QED BY <1>1, <1>5, <2>1
  <1> QED BY <1>3, <1>4, <1>5 DEF Puts

\* The conjuncts of Sharing after a write: uids, ...
LEMMA PutFresh ==
    ASSUME IInv, NEW d \in DB, NEW o \in Px, Puts(d, o), UidsFresh
    PROVE  UidsFresh'
  <1>1. /\ \A v \in Nat : v \leq uids => v \leq uids'
        /\ o.uid \leq uids'
        /\ Created(d, o) => ~(o.uid \leq uids)
    BY PutUids
  <1>2. \A e \in DB : px[e].uid \in Nat /\ px[e].uid \leq uids
    <2> TAKE e \in DB
    <2>1. px[e] \in Px
      BY DEF IInv, Reconciling, ObjOK
    <2> QED BY <2>1, PxFields DEF UidsFresh
  <1>3. ASSUME NEW e \in DB, NEW i \in Positions(e)
        PROVE  Version(e, i).uid \in Nat /\ Version(e, i).uid \leq uids
    <2>1. Version(e, i) \in Px
      <3>1. CASE i = 0
        BY <3>1 DEF Version, IInv, Reconciling, WorkOK
      <3>2. CASE i # 0
        <4>1. watch \in Seq(Entries) /\ i \in 1..Len(watch)
          BY <3>2 DEF Positions, IInv, Reconciling, ObjOK, Entries
        <4> QED BY <3>2, <4>1, WatchEntry DEF Version
      <3> QED BY <3>1, <3>2
    <2> QED BY <2>1, PxFields DEF UidsFresh
  <1>4. px'[d] = o /\ \A e \in DB \ {d} : px'[e] = px[e]
    BY DEF Puts, Put
  <1>5. \A e \in DB : px'[e].uid \leq uids' /\ \A i \in Positions(e)' : Version(e, i)'.uid \leq uids'
    <2>1. \A e \in DB : px'[e].uid \leq uids'
      BY <1>1, <1>2, <1>4
    <2>2. ASSUME NEW e \in DB, NEW i \in Positions(e)'
          PROVE  Version(e, i)'.uid \leq uids'
      <3>1. CASE i \in Positions(e) /\ Version(e, i)' = Version(e, i)
        BY <1>1, <1>3, <3>1
      <3>2. CASE Version(e, i)' = o
        BY <1>1, <3>2
      <3> QED BY <3>1, <3>2 DEF Puts, Put
    <2> QED BY <2>1, <2>2
  <1>6. Created(d, o) => \A e \in DB \ {d} : px[e].uid # o.uid
    BY <1>1, <1>2
  <1>7. \A e, f \in DB : px'[e].uid = px'[f].uid /\ px'[e].uid # 0 => e = f
    <2>1. \A e \in DB \ {d} : px[e].uid = o.uid => o.uid = 0
      BY <1>6 DEF Puts, Later, Ended, UidsFresh
    <2> QED BY <1>4, <2>1 DEF UidsFresh
  <1>8. ASSUME NEW u \in 1..MaxUid
        PROVE  asked'[u] = asked[u] \/ (o.del /\ u = o.uid /\ Later(d, o))
    BY DEF Puts, Put, Ended, Created
  <1>9. ASSUME NEW u \in 1..MaxUid
        PROVE  /\ asked'[u].policies # {} => u \leq uids'
               /\ \A v \in asked'[u].peers : v \leq uids'
    <2>1. asked[u].peers \subseteq Nat /\ u \in Nat
      <3>1. asked[u] \in [policies: SUBSET AllPolicies, peers: SUBSET (0..MaxUid)]
        BY DEF IInv, Reconciling, ObjOK
      <3>2. 0..MaxUid \subseteq Nat
        OBVIOUS
      <3> QED BY <3>1, <3>2
    <2>2. /\ asked[u].policies # {} => u \leq uids
          /\ \A v \in asked[u].peers : v \leq uids
      BY DEF UidsFresh
    <2>3. CASE asked'[u] = asked[u]
      BY <1>1, <2>1, <2>2, <2>3
    <2>4. CASE o.del /\ u = o.uid
      <3>1. u \leq uids'
        BY <1>1, <2>4
      <3>2. \A v \in asked'[u].peers : v \in Nat /\ v \leq uids
        BY <1>2, <2>1, <2>2, <2>4 DEF Puts, Put
      <3> QED BY <1>1, <3>1, <3>2
    <2> QED BY <2>3, <2>4 DEF Puts, Put
  <1>10. ASSUME NEW e \in DB, px'[e].uid # 0, ~px'[e].del
         PROVE  asked'[px'[e].uid].policies = {}
    <2>1. px'[e].uid \in 1..MaxUid
      <3>1. px'[e] \in Px
        BY <1>4 DEF IInv, Reconciling, ObjOK
      <3>2. px'[e].uid \in 0..MaxUid
        BY <3>1, PxFields
      <3> QED BY <1>10, <3>2
    <2>2. asked'[px'[e].uid] = asked[px'[e].uid]
      <3>1. CASE o.del /\ px'[e].uid = o.uid /\ Later(d, o)
        <4>1. e # d
          BY <1>4, <1>10, <3>1
        <4> QED BY <1>4, <1>10, <3>1, <4>1 DEF Later, UidsFresh
      <3> QED BY <1>8, <2>1, <3>1
    <2>3. CASE e # d
      BY <1>4, <1>10, <2>2, <2>3 DEF UidsFresh
    <2>4. CASE e = d /\ Later(d, o)
      BY <1>4, <1>10, <2>2, <2>4 DEF UidsFresh, Later
    <2>5. CASE e = d /\ Created(d, o)
      BY <1>1, <1>4, <2>1, <2>2, <2>5 DEF UidsFresh
    <2>6. e = d => ~Ended(d, o)
      BY <1>4, <1>10 DEF Ended
    <2> QED BY <2>3, <2>4, <2>5, <2>6 DEF Puts
  <1> QED BY <1>5, <1>7, <1>9, <1>10 DEF UidsFresh

\* ... the last version, ...
LEMMA PutLast ==
    ASSUME IInv, NEW d \in DB, NEW o \in Px, Puts(d, o), UidsFresh, LiveLast
    PROVE  LiveLast'
  <1> SUFFICES ASSUME NEW e \in DB, px'[e].uid # 0
               PROVE  /\ \E j \in Positions(e)' : Version(e, j)'.uid = px'[e].uid
                      /\ \A j, k \in Positions(e)' : j < k /\ Version(e, j)'.uid = px'[e].uid =>
                            Version(e, k)'.uid = px'[e].uid
    BY DEF LiveLast
  <1>1. /\ px'[d] = o /\ \A f \in DB \ {d} : px'[f] = px[f]
        /\ \A i \in Positions(e)' : \/ i \in Positions(e) /\ Version(e, i)' = Version(e, i)
                                    \/ e = d /\ i = Len(watch) + 1 /\ Version(e, i)' = o
        /\ \A i \in Positions(e) : /\ i \in Int /\ i < Len(watch) + 1
                                   /\ i \in Positions(e)' /\ Version(e, i)' = Version(e, i)
        /\ o = px[d] \/ \E n \in Positions(d)' : n = Len(watch) + 1 /\ Version(d, n)' = o
        /\ Len(watch) \in Nat
    BY DEF Puts, Put
  <1>2. CASE e # d \/ Later(d, o)
    <2>1. px'[e].uid = px[e].uid
      BY <1>1, <1>2 DEF Later
    <2>2. /\ \E j \in Positions(e) : Version(e, j).uid = px[e].uid
          /\ \A j, k \in Positions(e) : j < k /\ Version(e, j).uid = px[e].uid =>
                Version(e, k).uid = px[e].uid
      BY <2>1 DEF LiveLast
    <2>3. \E j \in Positions(e)' : Version(e, j)'.uid = px'[e].uid
      BY <1>1, <2>1, <2>2
    <2>4. ASSUME NEW j \in Positions(e)', NEW k \in Positions(e)', j < k,
                 Version(e, j)'.uid = px'[e].uid
          PROVE  Version(e, k)'.uid = px'[e].uid
      <3>1. CASE k \in Positions(e) /\ Version(e, k)' = Version(e, k)
        <4>1. j \in Positions(e) /\ Version(e, j)' = Version(e, j)
          BY <1>1, <2>4, <3>1
        <4> QED BY <2>1, <2>2, <2>4, <3>1, <4>1
      <3>2. CASE e = d /\ Version(e, k)' = o
        BY <1>1, <3>2
      <3> QED BY <1>1, <3>1, <3>2
    <2> QED BY <2>3, <2>4
  <1>3. CASE e = d /\ Created(d, o)
    <2>1. ~(o.uid \leq uids) /\ o # px[d]
      BY <1>1, <1>3, PutUids DEF Created, UidsFresh
    <2>2. \A i \in Positions(e) : Version(e, i).uid # o.uid
      BY <2>1 DEF UidsFresh
    <2>3. \E j \in Positions(e)' : Version(e, j)'.uid = px'[e].uid
      BY <1>1, <1>3, <2>1
    <2>4. ASSUME NEW j \in Positions(e)', NEW k \in Positions(e)', j < k,
                 Version(e, j)'.uid = px'[e].uid
          PROVE  Version(e, k)'.uid = px'[e].uid
      <3>1. j = Len(watch) + 1
        BY <1>1, <1>3, <2>2, <2>4
      <3>2. k = Len(watch) + 1 \/ k < Len(watch) + 1
        BY <1>1
      <3>3. k \in Int
        BY <1>1
      <3> QED BY <1>1, <2>4, <3>1, <3>2, <3>3
    <2> QED BY <2>3, <2>4
  <1>4. ~(e = d /\ Ended(d, o))
    BY <1>1 DEF Ended
  <1> QED BY <1>2, <1>3, <1>4 DEF Puts

\* ... the names of secrets, ...
LEMMA PutNamed ==
    ASSUME IInv, NEW d \in DB, NEW o \in Px, Puts(d, o), UidsFresh, SecretsNamed
    PROVE  SecretsNamed'
  <1> SUFFICES ASSUME NEW e \in DB
               PROVE  /\ px'[e].secret \in UserSecrets \cup {NoSecret, e}
                      /\ \A i \in Positions(e)' :
                           /\ Version(e, i)'.secret \in UserSecrets \cup {NoSecret, e}
                           /\ px'[e].uid # 0 /\ Version(e, i)'.uid = px'[e].uid =>
                                Version(e, i)'.secret = px'[e].secret \/ px'[e].secret = e
    BY DEF SecretsNamed
  <1>1. /\ px'[d] = o /\ \A f \in DB \ {d} : px'[f] = px[f]
        /\ \A i \in Positions(e)' : \/ i \in Positions(e) /\ Version(e, i)' = Version(e, i)
                                    \/ e = d /\ Version(e, i)' = o
    BY DEF Puts, Put
  <1>2. px'[e].secret \in UserSecrets \cup {NoSecret, e}
    BY <1>1 DEF Puts, Later, Ended, Created, SecretsNamed
  <1>3. ASSUME NEW i \in Positions(e)'
        PROVE  /\ Version(e, i)'.secret \in UserSecrets \cup {NoSecret, e}
               /\ px'[e].uid # 0 /\ Version(e, i)'.uid = px'[e].uid =>
                    Version(e, i)'.secret = px'[e].secret \/ px'[e].secret = e
    <2>1. CASE e = d /\ Version(e, i)' = o
      BY <1>1, <1>2, <2>1
    <2>2. CASE i \in Positions(e) /\ Version(e, i)' = Version(e, i) /\ (e # d \/ Later(d, o))
      BY <1>1, <2>2 DEF SecretsNamed, Later
    <2>3. CASE i \in Positions(e) /\ Version(e, i)' = Version(e, i) /\ e = d /\ Ended(d, o)
      BY <1>1, <2>3 DEF SecretsNamed, Ended
    <2>4. CASE i \in Positions(e) /\ Version(e, i)' = Version(e, i) /\ e = d /\ Created(d, o)
      <3>1. Version(e, i).uid # o.uid
        BY <2>4, PutUids DEF UidsFresh
      <3> QED BY <1>1, <2>4, <3>1 DEF SecretsNamed
    <2> QED BY <1>1, <2>1, <2>2, <2>3, <2>4 DEF Puts
  <1> QED BY <1>2, <1>3

\* (the history knows every version that is being deleted)
LEMMA VersionVouched ==
    ASSUME IInv, NEW e \in DB, NEW i \in Positions(e)
    PROVE  Vouched(Version(e, i))
  <1>1. CASE i = 0
    BY <1>1 DEF Version, IInv, Reconciling, Asked
  <1>2. CASE i # 0
    BY <1>2 DEF Version, Positions, IInv, Reconciling, Asked
  <1> QED BY <1>1, <1>2

\* ... and the order of peers before the deletion.
LEMMA PutSeen ==
    ASSUME IInv, NEW d \in DB, NEW o \in Px, Puts(d, o), UidsFresh, LiveLast, PeersSeen,
           Frozen, \A e \in DB : Evolves(e)
    PROVE  PeersSeen'
  <1>1. /\ px'[d] = o /\ \A e \in DB \ {d} : px'[e] = px[e]
        /\ \A e \in DB : \A i \in Positions(e)' :
              \/ i \in Positions(e) /\ Version(e, i)' = Version(e, i)
              \/ e = d /\ i = Len(watch) + 1 /\ Version(e, i)' = o
        /\ \A e \in DB : \A i \in Positions(e) :
              /\ i \in Int /\ i < Len(watch) + 1
              /\ i \in Positions(e)' /\ Version(e, i)' = Version(e, i)
        /\ Len(watch) \in Nat
    BY DEF Puts, Put
  <1>2. o.del => o.uid \in 1..MaxUid /\ Later(d, o)
    <2>1. o.uid \in 0..MaxUid
      BY PxFields
    <2> QED BY <2>1 DEF Puts, Later, Ended, Created
  <1>3. o.del => o.uid \notin asked'[o.uid].peers
    <2> SUFFICES ASSUME o.del PROVE o.uid \notin asked'[o.uid].peers
      OBVIOUS
    <2>1. o.uid = px[d].uid /\ px[d].uid # 0
      BY <1>2 DEF Later
    <2>2. CASE px[d].del
      <3>1. px[d].uid \notin asked[px[d].uid].peers
        BY <2>1, <2>2 DEF PeersSeen, NoPeer
      <3>2. asked'[o.uid].peers = asked[o.uid].peers
        BY <1>2, <2>2 DEF Puts, Put
      <3> QED BY <2>1, <3>1, <3>2
    <2>3. CASE ~px[d].del
      <3>1. \A e \in DB \ {d} : px[e].uid # px[d].uid
        BY <2>1 DEF UidsFresh
      <3>2. asked'[o.uid].peers = {px[e].uid : e \in DB \ {d}}
        BY <2>3 DEF Puts, Put
      <3> QED BY <2>1, <3>1, <3>2
    <2> QED BY <2>2, <2>3
  <1>4. ASSUME NEW e \in DB
        PROVE  NoPeer(e, px[e])'
    <2>1. CASE e = d
      BY <1>1, <1>3, <2>1 DEF NoPeer
    <2>2. CASE e # d
      <3> SUFFICES ASSUME px[e].del, px'[e].uid # 0, px'[e].uid \in asked'[px[e].uid].peers
                   PROVE  FALSE
        BY <1>1, <2>2 DEF NoPeer
      <3>1. px[e].uid \in 1..MaxUid /\ asked[px[e].uid].policies # {}
        BY DEF IInv, Reconciling, Asked, Vouched
      <3>2. px[e].uid \in asked[px[e].uid].peers /\ px[e].uid # 0
        BY <3>1, PeersKept
      <3> QED BY <3>2 DEF PeersSeen, NoPeer
    <2> QED BY <2>1, <2>2
  <1>5. ASSUME NEW e \in DB, NEW i \in Positions(e)'
        PROVE  NoPeer(e, Version(e, i))'
    <2>1. CASE e = d /\ Version(e, i)' = o
      BY <1>1, <1>3, <2>1 DEF NoPeer
    <2>2. CASE i \in Positions(e) /\ Version(e, i)' = Version(e, i)
      <3> SUFFICES ASSUME Version(e, i).del, px'[e].uid # 0,
                          px'[e].uid \in asked'[Version(e, i).uid].peers
                   PROVE  FALSE
        BY <2>2 DEF NoPeer
      <3>1. Version(e, i).uid \in 1..MaxUid /\ asked[Version(e, i).uid].policies # {}
        BY <2>2, VersionVouched DEF Vouched
      <3>2. px[e].uid \in asked[Version(e, i).uid].peers /\ px[e].uid # 0
        BY <3>1, PeersKept
      <3> QED BY <2>2, <3>2 DEF PeersSeen, NoPeer
    <2> QED BY <1>1, <2>1, <2>2
  <1>6. ASSUME NEW e \in DB, NEW i \in Positions(e)', Version(e, i)'.del, NEW f \in DB \ {e},
               px'[f].uid # 0, px'[f].uid \in asked'[Version(e, i)'.uid].peers
        PROVE  \E j \in Positions(f)' : j \leq i /\ Version(f, j)'.uid = px'[f].uid
    <2>1. CASE i \in Positions(e) /\ Version(e, i)' = Version(e, i)
      <3>1. Version(e, i).uid \in 1..MaxUid /\ asked[Version(e, i).uid].policies # {}
        BY <1>6, <2>1, VersionVouched DEF Vouched
      <3>2. px'[f].uid = px[f].uid /\ px[f].uid \in asked[Version(e, i).uid].peers
        BY <1>6, <2>1, <3>1, PeersKept
      <3>3. PICK j \in Positions(f) : j \leq i /\ Version(f, j).uid = px[f].uid
        BY <1>6, <2>1, <3>2 DEF PeersSeen
      <3> QED BY <1>1, <3>2, <3>3
    <2>2. CASE e = d /\ i = Len(watch) + 1 /\ Version(e, i)' = o
      <3>1. px'[f] = px[f]
        BY <1>1, <2>2
      <3>2. PICK j \in Positions(f) : Version(f, j).uid = px[f].uid
        BY <1>6, <3>1 DEF LiveLast
      <3>3. j \in Int /\ j < Len(watch) + 1 /\ j \in Positions(f)' /\ Version(f, j)' = Version(f, j)
        BY <1>1
      <3>4. j \leq i
        BY <1>1, <2>2, <3>3
      <3> QED BY <3>1, <3>2, <3>3, <3>4
    <2> QED BY <1>1, <2>1, <2>2
  <1> QED BY <1>4, <1>5, <1>6 DEF PeersSeen

----------------------------------------------------------------------------
(* Kinds of steps *)

\* A write that gives no secret away keeps Sharing.
LEMMA PutStep ==
    ASSUME IInv, Sharing, NEW d \in DB, NEW o \in Px, SetPx(d, o), cache' = cache,
           \/ uids' = uids /\ (Later(d, o) \/ Ended(d, o))
           \/ uids' = o.uid /\ Created(d, o),
           TermStays, OwnersLost
    PROVE  Sharing'
  <1>1. o.del => o.uid \in 1..MaxUid
    <2>1. o.uid \in 0..MaxUid
      BY PxFields
    <2> QED BY <2>1 DEF Later, Ended, Created
  <1>2. Puts(d, o) /\ px' \in [DB -> Px]
    BY <1>1, PutFacts, SetPxFacts DEF Puts, IInv, Reconciling, ObjOK
  <1>3. Frozen /\ \A e \in DB : Evolves(e)
    BY <1>2, PutEvolves DEF Puts, Sharing, Seen
  <1>4. Seen'
    BY <1>2, <1>3, PutFresh, PutLast, PutNamed, PutSeen DEF Sharing, Seen
  <1> QED BY <1>2, <1>3, <1>4, SecretsStayKept, PeersStayCached DEF Sharing

\* Without a write, nothing evolves ...
LEMMA QuietSeen ==
    ASSUME Seen, UNCHANGED <<objVars, cache, uids>>
    PROVE  Seen' /\ Frozen /\ \A e \in DB : Evolves(e)
  <1>1. px' = px /\ watch' = watch /\ asked' = asked /\ cache' = cache /\ uids' = uids
    BY DEF objVars
  <1>2. \A e \in DB : Positions(e)' = Positions(e) /\ \A i : Version(e, i)' = Version(e, i)
    BY <1>1 DEF Positions, Version
  <1>3. UidsFresh'
    BY <1>1, <1>2 DEF Seen, UidsFresh
  <1>4. LiveLast'
    BY <1>1, <1>2 DEF Seen, LiveLast
  <1>5. SecretsNamed'
    BY <1>1, <1>2 DEF Seen, SecretsNamed
  <1>6. PeersSeen'
    BY <1>1, <1>2 DEF Seen, PeersSeen, NoPeer
  <1> QED BY <1>1, <1>3, <1>4, <1>5, <1>6 DEF Seen, Frozen, Evolves

\* ... and Sharing is kept.
LEMMA QuietSharing ==
    ASSUME IInv, Sharing, UNCHANGED <<objVars, cache, uids>>, TermStays, OwnersLost
    PROVE  Sharing'
  <1>1. Seen' /\ Frozen /\ \A e \in DB : Evolves(e)
    BY QuietSeen DEF Sharing
  <1>2. px' \in [DB -> Px]
    BY DEF IInv, Reconciling, ObjOK, objVars
  <1> QED BY <1>1, <1>2, SecretsStayKept, PeersStayCached DEF Sharing

(* wipeOutDatabase: every peer that had the secret is in the store with it.   *)
LEMMA WipeOutSharing ==
    ASSUME IInv, Sharing, NEW d \in DB, WipeOutDatabase(d)
    PROVE  Sharing'
  <1> DEFINE m == my[d]
             unused == {m.secret} \ (SecretsUsedByPeers(d) \cup {NoSecret})
  <1>1. /\ pc[d] = "wipeOut" /\ pc' = [pc EXCEPT ![d] = "ownPvc"]
        /\ secrets' = [s \in SecretNames |->
                         IF s \in unused THEN Owned(secrets[s], m.uid) ELSE secrets[s]]
        /\ UNCHANGED <<objVars, cache, my, countVars>>
    BY DEF WipeOutDatabase, Goto
  <1>2. px' = px /\ asked' = asked /\ cache' = cache /\ my' = my /\ uids' = uids
    BY <1>1 DEF objVars, countVars
  <1>3. pc[d] \in TermLocs
    BY <1>1 DEF TermLocs
  <1>4. Seen' /\ Frozen /\ \A e \in DB : Evolves(e)
    BY <1>1, <1>2, QuietSeen DEF Sharing
  <1>5. PeersCached'
    <2>1. TermStays
      BY <1>1, <1>2, <1>3 DEF TermStays, IInv, Reconciling, WorkOK
    <2> QED BY <1>2, <1>4, <2>1, PeersStayCached
  <1>6. /\ m.secret \in UserSecrets \cup {NoSecret, d} /\ NoPeer(d, m) /\ m.del
        /\ \A e \in DB \ {d} :
             px[e].uid # 0 /\ px[e].uid \in asked[m.uid].peers => cache[e].uid = px[e].uid
    BY <1>3 DEF Sharing, PeersCached, IInv, Reconciling, Terminating
  <1>7. \A s \in SecretNames :
          \/ secrets'[s].owner = secrets[s].owner
          \/ secrets'[s].owner = m.uid /\ s = m.secret /\ s # NoSecret
             /\ s \notin SecretsUsedByPeers(d)
    <2> TAKE s \in SecretNames
    <2>1. CASE s \notin unused
      BY <1>1, <2>1
    <2>2. CASE s \in unused
      <3>1. secrets'[s] = Owned(secrets[s], m.uid) /\ secrets[s] \in Stored /\ m.uid \in 0..MaxUid
        BY <1>1, <2>2, Copy DEF IInv, Offshoots, ShootOK
      <3>2. secrets'[s].owner = m.uid \/ secrets'[s].owner = secrets[s].owner
        BY <3>1, OwnerEdits
      <3> QED BY <2>2, <3>2
    <2> QED BY <2>1, <2>2
  <1>8. ASSUME NEW e \in DB \ {d}, px[e].uid # 0, px[e].secret = m.secret, m.secret # NoSecret,
               px[e].uid \in asked[m.uid].peers
        PROVE  m.secret \in SecretsUsedByPeers(d)
    <2>1. cache[e].uid = px[e].uid
      BY <1>6, <1>8
    <2>2. px[e].secret # e
      BY <1>6, <1>8, ControllerAssumption DEF ControllerAssumption
    <2>3. cache[e].secret = px[e].secret
      <3>1. 0 \in Positions(e) /\ Version(e, 0) = cache[e]
        BY DEF Positions, Version
      <3> QED BY <1>8, <2>1, <2>2, <3>1 DEF Sharing, Seen, SecretsNamed
    <2> QED BY <1>8, <2>1, <2>3 DEF SecretsUsedByPeers, Exists
  <1>9. OwnSecretKept'
    <2> SUFFICES ASSUME NEW e \in DB, px[e].uid # 0, secrets'[e].owner \in 1..MaxUid,
                        px[e].uid \in asked[secrets'[e].owner].peers
                 PROVE  FALSE
      BY <1>2 DEF OwnSecretKept
    <2>1. e \in SecretNames
      BY DEF SecretNames
    <2>2. CASE secrets'[e].owner = secrets[e].owner
      BY <2>2 DEF Sharing, OwnSecretKept
    <2>3. CASE secrets'[e].owner = m.uid /\ e = m.secret
      <3>1. e = d
        BY <1>6, <2>3, ControllerAssumption DEF ControllerAssumption
      <3> QED BY <1>6, <2>3, <3>1 DEF NoPeer
    <2> QED BY <1>7, <2>1, <2>2, <2>3
  <1>10. SharedSecretKept'
    <2> SUFFICES ASSUME NEW e \in DB, px[e].uid # 0, px[e].secret # NoSecret,
                        NEW u \in 1..MaxUid, u = secrets'[px[e].secret].owner,
                        u # px[e].uid, px[e].uid \in asked[u].peers
                 PROVE  FALSE
      BY <1>2 DEF SharedSecretKept, Exists
    <2>1. px[e].secret \in SecretNames
      <3>1. px[e] \in Px
        BY DEF IInv, Reconciling, ObjOK
      <3> QED BY <3>1, PxFields
    <2>2. CASE u = secrets[px[e].secret].owner
      BY <2>2 DEF Sharing, SharedSecretKept, Exists
    <2>3. CASE u = m.uid /\ px[e].secret = m.secret /\ m.secret \notin SecretsUsedByPeers(d)
      <3>1. e = d
        BY <1>8, <2>3
      <3> QED BY <1>6, <2>3, <3>1 DEF NoPeer
    <2> QED BY <1>7, <2>1, <2>2, <2>3
  <1> QED BY <1>4, <1>5, <1>9, <1>10 DEF Sharing

(* The operator starts.                                                      *)
LEMMA StartSharing ==
    ASSUME IInv, Sharing, StartOperator, uids' = uids
    PROVE  Sharing'
  <1>1. /\ cache' = px /\ watch' = << >> /\ px' = px /\ asked' = asked /\ secrets' = secrets
        /\ pc' = [d \in DB |-> "idle"]
    BY DEF StartOperator, shootVars
  <1>2. \A d \in DB : Positions(d)' = {0} /\ Version(d, 0)' = px[d]
    BY <1>1 DEF Positions, Version
  <1>3. UidsFresh'
    BY <1>1, <1>2 DEF Sharing, Seen, UidsFresh
  <1>4. LiveLast'
    BY <1>1, <1>2 DEF LiveLast
  <1>5. SecretsNamed'
    BY <1>1, <1>2 DEF Sharing, Seen, SecretsNamed
  <1>6. PeersSeen'
    BY <1>1, <1>2 DEF Sharing, Seen, PeersSeen, NoPeer
  <1>7. PeersCached'
    BY <1>1 DEF PeersCached, TermLocs
  <1>8. Frozen /\ OwnersLost /\ px' \in [DB -> Px] /\ \A e \in DB : Evolves(e)
    BY <1>1 DEF Frozen, OwnersLost, Evolves, IInv, Reconciling, ObjOK
  <1> QED BY <1>3, <1>4, <1>5, <1>6, <1>7, <1>8, SecretsStayKept DEF Sharing, Seen

(* A run begins: the informer has what was there when the deletion was asked  *)
(* for.                                                                      *)
LEMMA BeginSharing ==
    ASSUME IInv, Sharing, NEW d \in DB, UNCHANGED <<objVars, cache, uids, secrets>>,
           \A e \in DB \ {d} : pc'[e] = pc[e] /\ my'[e] = my[e],
           pc'[d] \in TermLocs => my'[d] = cache[d] /\ cache[d].del
    PROVE  Sharing'
  <1>1. px' = px /\ asked' = asked /\ cache' = cache /\ secrets' = secrets
    BY DEF objVars
  <1>2. Seen' /\ Frozen /\ \A e \in DB : Evolves(e)
    BY QuietSeen DEF Sharing
  <1>3. OwnersLost /\ px' \in [DB -> Px]
    BY <1>1 DEF OwnersLost, IInv, Reconciling, ObjOK
  <1>4. \A e \in DB : /\ 0 \in Positions(e) /\ Version(e, 0) = cache[e]
                      /\ \A j \in Positions(e) : j \leq 0 => j = 0
    BY DEF Positions, Version, IInv, Reconciling, ObjOK
  <1>5. PeersCached'
    <2> SUFFICES ASSUME NEW f \in DB, pc'[f] \in TermLocs
                 PROVE  /\ my'[f].secret \in UserSecrets \cup {NoSecret, f}
                        /\ NoPeer(f, my[f])'
                        /\ \A e \in DB \ {f} :
                             px'[e].uid # 0 /\ px'[e].uid \in asked'[my'[f].uid].peers =>
                               cache'[e].uid = px'[e].uid
      BY DEF PeersCached
    <2>1. CASE f # d
      BY <1>1, <2>1 DEF Sharing, PeersCached, NoPeer
    <2>2. CASE f = d
      <3>1. my'[f] = cache[f] /\ cache[f].del
        BY <2>2
      <3>2. my'[f].secret \in UserSecrets \cup {NoSecret, f}
        BY <1>4, <3>1 DEF Sharing, Seen, SecretsNamed
      <3>3. NoPeer(f, my[f])'
        BY <1>1, <1>4, <3>1 DEF Sharing, Seen, PeersSeen, NoPeer
      <3>4. ASSUME NEW e \in DB \ {f}, px[e].uid # 0, px[e].uid \in asked[cache[f].uid].peers
            PROVE  cache[e].uid = px[e].uid
        <4>1. PICK j \in Positions(e) : j \leq 0 /\ Version(e, j).uid = px[e].uid
          BY <1>4, <3>1, <3>4 DEF Sharing, Seen, PeersSeen
        <4> QED BY <1>4, <4>1
      <3> QED BY <1>1, <3>1, <3>2, <3>3, <3>4
    <2> QED BY <2>1, <2>2
  <1> QED BY <1>2, <1>3, <1>5, SecretsStayKept DEF Sharing

(* A version of the live object stays, one place nearer, or is stored.        *)
LEMMA LiveStays ==
    ASSUME IInv, LiveLast, Deliver, NEW d \in DB, NEW i \in Positions(d), px[d].uid # 0,
           Version(d, i).uid = px[d].uid
    PROVE  \E j \in Positions(d)' : Version(d, j)'.uid = px[d].uid /\ (j = 0 \/ j + 1 = i)
  <1>1. /\ watch \in Seq(Entries) /\ watch # << >> /\ watch' = Tail(watch)
        /\ cache' = [cache EXCEPT ![Head(watch).db] = Head(watch).obj]
        /\ cache \in [DB -> Px]
    BY DEF Deliver, IInv, Reconciling, ObjOK, WorkOK, Entries
  <1>2. /\ Len(watch) \in Nat \ {0} /\ Len(watch') = Len(watch) - 1
        /\ \A k \in 1..Len(watch') : watch'[k] = watch[k + 1]
        /\ Head(watch) = watch[1] /\ watch[1].db \in DB /\ 1 \in 1..Len(watch)
    <2>1. watch[1] \in Entries /\ Len(watch) \in Nat \ {0}
      BY <1>1, WatchTail
    <2> QED BY <1>1, <2>1, WatchTail DEF Entries
  <1>3. 0 \in Positions(d)' /\ Version(d, 0)' = cache'[d]
    BY DEF Positions, Version
  <1>4. CASE i = 0 /\ watch[1].db # d
    <2>1. cache'[d] = Version(d, 0)
      BY <1>1, <1>2, <1>4 DEF Version
    <2> QED BY <1>3, <1>4, <2>1
  <1>5. CASE i \in {0, 1} /\ watch[1].db = d
    <2>1. 1 \in Positions(d) /\ cache'[d] = Version(d, 1)
      BY <1>1, <1>2, <1>5 DEF Positions, Version
    <2>2. Version(d, 1).uid = px[d].uid
      <3>1. CASE i = 1
        BY <3>1
      <3>2. CASE i = 0
        <4>1. 0 < 1
          OBVIOUS
        <4> QED BY <2>1, <3>2, <4>1 DEF LiveLast
      <3> QED BY <1>5, <3>1, <3>2
    <2> QED BY <1>3, <2>1, <2>2
  <1>6. CASE i \notin {0, 1}
    <2>1. i \in 1..Len(watch) /\ watch[i].db = d /\ Version(d, i) = watch[i].obj
      BY <1>6 DEF Positions, Version
    <2>2. PICK j \in 1..Len(watch') : j + 1 = i
      <3>1. i - 1 \in 1..Len(watch') /\ (i - 1) + 1 = i
        BY <1>2, <1>6, <2>1
      <3> QED BY <3>1
    <2>3. j # 0 /\ watch'[j] = watch[i]
      BY <1>2, <2>2
    <2>4. j \in Positions(d)' /\ Version(d, j)' = watch[i].obj
      BY <2>1, <2>2, <2>3 DEF Positions, Version
    <2> QED BY <2>1, <2>2, <2>4
  <1>7. i = 1 => watch[1].db = d
    BY DEF Positions
  <1> QED BY <1>4, <1>5, <1>6, <1>7

(* The informer gets the next version.                                       *)
LEMMA DeliverSharing ==
    ASSUME IInv, Sharing, Deliver
    PROVE  Sharing'
  <1>1. /\ px' = px /\ asked' = asked /\ pc' = pc /\ my' = my /\ uids' = uids
        /\ secrets' = secrets
    BY DEF Deliver, shootVars, countVars
  <1>2. \A d \in DB :
          /\ \A i \in Positions(d)' : /\ Shift(d, i) \in Positions(d)
                                      /\ Version(d, i)' = Version(d, Shift(d, i))
          /\ \A i, j \in Positions(d)' : i < j => Shift(d, i) < Shift(d, j)
    BY Delivered DEF IInv, Reconciling
  <1>3. ASSUME NEW d \in DB, NEW i \in Positions(d), px[d].uid # 0,
               Version(d, i).uid = px[d].uid
        PROVE  \E j \in Positions(d)' : /\ Version(d, j)'.uid = px[d].uid
                                        /\ j = 0 \/ j + 1 = i
    BY <1>3, LiveStays DEF Sharing, Seen
  <1>4. UidsFresh'
    BY <1>1, <1>2 DEF Sharing, Seen, UidsFresh
  <1>5. LiveLast'
    BY <1>1, <1>2, <1>3 DEF Sharing, Seen, LiveLast
  <1>6. SecretsNamed'
    BY <1>1, <1>2 DEF Sharing, Seen, SecretsNamed
  <1>7. PeersSeen'
    <2>1. \A d \in DB : NoPeer(d, px[d])' /\ \A i \in Positions(d)' : NoPeer(d, Version(d, i))'
      BY <1>1, <1>2 DEF Sharing, Seen, PeersSeen, NoPeer
    <2>2. ASSUME NEW d \in DB, NEW i \in Positions(d)', Version(d, i)'.del, NEW e \in DB \ {d},
                 px[e].uid # 0, px[e].uid \in asked[Version(d, i)'.uid].peers
          PROVE  \E j \in Positions(e)' : j \leq i /\ Version(e, j)'.uid = px[e].uid
      <3>1. PICK k \in Positions(e) : k \leq Shift(d, i) /\ Version(e, k).uid = px[e].uid
        BY <1>2, <2>2 DEF Sharing, Seen, PeersSeen
      <3>2. PICK j \in Positions(e)' : /\ Version(e, j)'.uid = px[e].uid
                                       /\ j = 0 \/ j + 1 = k
        BY <1>3, <2>2, <3>1
      <3>3. j \leq i
        <4>1. i \in Nat /\ j \in Nat /\ k \in Nat
          BY DEF Positions
        <4>2. CASE j = 0
          BY <4>1, <4>2
        <4>3. CASE j + 1 = k
          <5>1. k \leq i + 1
            <6>1. CASE i = 0
              BY <3>1, <4>1, <6>1 DEF Shift
            <6>2. CASE i # 0
              BY <3>1, <6>2 DEF Shift
            <6> QED BY <6>1, <6>2
          <5> QED BY <4>1, <4>3, <5>1
        <4> QED BY <3>2, <4>2, <4>3
      <3> QED BY <3>2, <3>3
    <2> QED BY <1>1, <2>1, <2>2 DEF PeersSeen
  <1>8. PeersCached'
    <2>1. ASSUME NEW e \in DB, px[e].uid # 0, cache[e].uid = px[e].uid
          PROVE  cache'[e].uid = px[e].uid
      <3>1. 0 \in Positions(e) /\ Version(e, 0) = cache[e]
        BY DEF Positions, Version
      <3>2. PICK j \in Positions(e)' : Version(e, j)'.uid = px[e].uid /\ (j = 0 \/ j + 1 = 0)
        BY <1>3, <2>1, <3>1
      <3>3. j = 0
        BY <3>2 DEF Positions
      <3> QED BY <3>2, <3>3 DEF Version
    <2> QED BY <1>1, <2>1 DEF Sharing, PeersCached, NoPeer
  <1>9. Frozen /\ OwnersLost /\ px' \in [DB -> Px] /\ \A e \in DB : Evolves(e)
    BY <1>1 DEF Frozen, OwnersLost, Evolves, IInv, Reconciling, ObjOK
  <1> QED BY <1>4, <1>5, <1>6, <1>7, <1>8, <1>9, SecretsStayKept DEF Sharing, Seen

----------------------------------------------------------------------------
(* The actions *)

(* Where the run of d goes: not into terminate, or within it.                *)
LEMMA GoStays ==
    ASSUME WorkOK, NEW d \in DB, NEW l, Goto(d, l), NEW o,
           \/ l \notin TermLocs /\ (my' = my \/ my' = [my EXCEPT ![d] = o])
           \/ pc[d] \in TermLocs /\ my' = my
    PROVE  TermStays
  <1> SUFFICES ASSUME NEW e \in DB, pc'[e] \in TermLocs
               PROVE  pc[e] \in TermLocs /\ my'[e] = my[e]
    BY DEF TermStays
  <1>1. pc'[d] = l /\ \A f \in DB \ {d} : pc'[f] = pc[f]
    BY DEF Goto, WorkOK
  <1>2. \A f \in DB \ {d} : my'[f] = my[f]
    BY DEF WorkOK
  <1>3. CASE e = d
    BY <1>1, <1>3
  <1>4. CASE e # d
    BY <1>1, <1>2, <1>4
  <1> QED BY <1>3, <1>4

\* The end of a run begins no terminate, ...
LEMMA ReturnStays ==
    ASSUME WorkOK, NEW d \in DB, ReturnNil(d) \/ ReturnErr(d)
    PROVE  TermStays
  <1>1. Leave(d)
    BY DEF ReturnNil, ReturnErr
  <1>2. Goto(d, "idle") /\ my' = [my EXCEPT ![d] = NoPx] /\ "idle" \notin TermLocs
    BY <1>1 DEF Leave, TermLocs
  <1> QED BY <1>2, GoStays

\* ... and neither does create or halt going on.
LEMMA ContinueStays ==
    ASSUME WorkOK, NEW d \in DB, NEW l, l \notin TermLocs, Continue(d, l)
    PROVE  TermStays
  <1>1. CASE l = "return"
    BY <1>1, ReturnStays DEF Continue
  <1>2. CASE l # "return"
    BY <1>2, GoStays DEF Continue
  <1> QED BY <1>1, <1>2

\* Secrets that stay as they are are not given away.
LEMMA OwnersStay ==
    ASSUME secrets' = secrets
    PROVE  OwnersLost
  BY DEF OwnersLost

(* Edits of an object, and its secret.                                       *)
LEMMA EditsKeep ==
    ASSUME NEW o \in Px, NEW d \in DB
    PROVE  /\ \A p \in Phases, g \in Nat :
                [o EXCEPT !.phase = p, !.obsGen = g].secret = o.secret
           /\ [o EXCEPT !.paused = ~@].secret = o.secret
           /\ [o EXCEPT !.provisioned = TRUE].secret = o.secret
           /\ \A b \in BOOLEAN : [o EXCEPT !.restored = b].secret = o.secret
           /\ \A b \in BOOLEAN : [o EXCEPT !.fin = b].secret = o.secret
           /\ [o EXCEPT !.del = TRUE, !.gen = @ + 1].secret = o.secret
           /\ [o EXCEPT !.secret = d, !.gen = @ + 1].secret = d
           /\ [o EXCEPT !.halted = TRUE, !.policy = "Halt", !.gen = @ + 1].secret = o.secret
           /\ [o EXCEPT !.halted = FALSE, !.gen = @ + 1].secret = o.secret
           /\ \A p \in AllPolicies : [o EXCEPT !.policy = p, !.gen = @ + 1].secret = o.secret
           /\ [o EXCEPT !.rev = @ + 1, !.gen = @ + 1].secret = o.secret
  BY DEF Px

(* The live object gets another version.                                     *)
LEMMA LaterSharing ==
    ASSUME IInv, Sharing, NEW d \in DB, Exists(px[d]), NEW o \in Px,
           o.uid = px[d].uid, px[d].del => o.del, o.secret \in {px[d].secret, d},
           SetPx(d, o), UNCHANGED <<cache, uids, secrets>>, TermStays
    PROVE  Sharing'
  <1>1. Later(d, o)
    BY DEF Later, Exists
  <1> QED BY <1>1, PutStep, OwnersStay

\* A write of the status.
LEMMA PhaseSharing ==
    ASSUME IInv, Sharing, NEW d \in DB, Exists(px[d]), NEW p \in Phases, NEW g \in Nat,
           SetPhase(d, p, g), UNCHANGED <<cache, uids, secrets>>, TermStays
    PROVE  Sharing'
  <1> DEFINE o == [px[d] EXCEPT !.phase = p, !.obsGen = g]
  <1>1. o \in Px /\ Same(o, px[d]) /\ o.secret = px[d].secret
    <2>1. px[d] \in Px
      BY DEF IInv, Reconciling, ObjOK
    <2>2. o \in Px /\ Same(o, px[d])
      BY <2>1, StatusEdits
    <2>3. o.secret = px[d].secret
      BY <2>1 DEF Px
    <2> QED BY <2>2, <2>3
  <1>2. SetPx(d, o)
    BY DEF SetPhase
  <1> HIDE DEF o
  <1> QED BY <1>1, <1>2, LaterSharing DEF Same

(* create *)
LEMMA CreateSharing ==
    ASSUME IInv, Sharing, NEW d \in DB, CreateStep(d)
    PROVE  Sharing'
  <1>1. WorkOK /\ px[d] \in Px
    BY DEF IInv, Reconciling, ObjOK
  <1>2. CASE ValidatePerconaXtraDB(d)
    <2>1. PICK l \in {"return", "provisioning", "gvr"} : Continue(d, l)
      BY <1>2, AfterLocs DEF ValidatePerconaXtraDB
    <2>2. l \notin TermLocs
      BY DEF TermLocs
    <2>3. UNCHANGED <<objVars, cache, uids>> /\ secrets' = secrets
      BY <1>2 DEF ValidatePerconaXtraDB, shootVars, countVars
    <2> QED BY <1>1, <2>1, <2>2, <2>3, ContinueStays, OwnersStay, QuietSharing
  <1>3. CASE SetProvisioning(d)
    <2>1. /\ Exists(px[d]) /\ SetPhase(d, "Provisioning", px[d].obsGen)
          /\ UNCHANGED <<cache, uids, secrets>>
      BY <1>3 DEF SetProvisioning, shootVars, countVars
    <2>2. \/ ReturnNil(d)
          \/ \E l, o : l \in {"return", "gvr"} /\ Goto(d, l) /\ my' = [my EXCEPT ![d] = o]
      BY <1>3, AfterLocs DEF SetProvisioning
    <2>3. "return" \notin TermLocs /\ "gvr" \notin TermLocs
      BY DEF TermLocs
    <2>4. TermStays
      <3>1. CASE ReturnNil(d)
        BY <1>1, <3>1, ReturnStays
      <3>2. CASE \E l, o : l \in {"return", "gvr"} /\ Goto(d, l) /\ my' = [my EXCEPT ![d] = o]
        <4>1. PICK l, o : l \in {"return", "gvr"} /\ Goto(d, l) /\ my' = [my EXCEPT ![d] = o]
          BY <3>2
        <4> QED BY <1>1, <2>3, <4>1, GoStays
      <3> QED BY <2>2, <3>1, <3>2
    <2>5. px[d].obsGen \in Nat /\ "Provisioning" \in Phases
      BY <1>1, PxFields DEF Phases
    <2> QED BY <2>1, <2>4, <2>5, PhaseSharing
  <1>4. CASE CreateGoverningService(d) \/ EnsureStatefulSet(d) \/ CheckPodStatus(d)
             \/ CreateRejected(d)
    <2>1. PICK l \in {"rbac", "app", "pods", "fail"} : Goto(d, l)
      BY <1>4 DEF CreateGoverningService, EnsureStatefulSet, CheckPodStatus, CreateRejected
    <2>2. l \notin TermLocs
      BY DEF TermLocs
    <2>3. UNCHANGED <<objVars, cache, uids>> /\ secrets' = secrets /\ my' = my
      BY <1>4 DEF CreateGoverningService, EnsureStatefulSet, CheckPodStatus, CreateRejected,
                  shootVars, countVars
    <2> QED BY <1>1, <2>1, <2>2, <2>3, GoStays, OwnersStay, QuietSharing
  <1>5. CASE EnsureOffshoot(d)
    <2>1. PICK l \in {"svc", "secret", "return", "ready"} : Continue(d, l)
      BY <1>5, AfterLocs DEF EnsureOffshoot
    <2>2. l \notin TermLocs
      BY DEF TermLocs
    <2>3. UNCHANGED <<objVars, cache, uids>> /\ secrets' = secrets
      BY <1>5 DEF EnsureOffshoot, countVars
    <2> QED BY <1>1, <2>1, <2>2, <2>3, ContinueStays, OwnersStay, QuietSharing
  <1>6. CASE CreateDatabaseSecret(d)
    <2>1. Goto(d, "secretPatch") /\ my' = my /\ UNCHANGED <<objVars, cache, uids>>
      BY <1>6 DEF CreateDatabaseSecret
    <2>2. "secretPatch" \notin TermLocs
      BY DEF TermLocs
    <2>3. OwnersLost
      <3>1. CASE secrets' = secrets
        BY <3>1, OwnersStay
      <3>2. CASE secrets' = [secrets EXCEPT ![d] = [owner |-> Unowned, pw |-> passwords']]
        BY <3>2, OwnerFacts DEF OwnersLost, IInv, Offshoots, ShootOK
      <3> QED BY <1>6, <3>1, <3>2 DEF CreateDatabaseSecret
    <2> QED BY <1>1, <2>1, <2>2, <2>3, GoStays, QuietSharing
  <1>7. CASE PatchDatabaseSecret(d)
    <2> DEFINE o == IF px[d].secret = d THEN px[d] ELSE [px[d] EXCEPT !.secret = d, !.gen = @ + 1]
               m == [my[d] EXCEPT !.secret = d]
    <2>1. /\ Exists(px[d]) /\ SetPx(d, o) /\ Goto(d, "sts") /\ my' = [my EXCEPT ![d] = m]
          /\ UNCHANGED <<cache, uids, secrets>>
      BY <1>7 DEF PatchDatabaseSecret, shootVars, countVars
    <2>2. "sts" \notin TermLocs
      BY DEF TermLocs
    <2>3. o \in Px /\ Same(o, px[d]) /\ o.secret = d
      <3>1. CASE px[d].secret = d
        BY <1>1, <3>1 DEF Same
      <3>2. CASE px[d].secret # d
        <4>1. d \in SecretNames
          BY DEF SecretNames
        <4> QED BY <1>1, <3>2, <4>1, SpecEdits, EditsKeep
      <3> QED BY <3>1, <3>2
    <2> HIDE DEF o, m
    <2>4. TermStays
      BY <1>1, <2>1, <2>2, GoStays
    <2> QED BY <2>1, <2>3, <2>4, LaterSharing DEF Same
  <1>8. CASE UpgradeDatabaseSecret(d)
    <2>1. Goto(d, "sts") /\ my' = my /\ UNCHANGED <<objVars, cache, uids>>
      BY <1>8 DEF UpgradeDatabaseSecret, countVars
    <2>2. "sts" \notin TermLocs
      BY DEF TermLocs
    <2>3. OwnersLost
      <3> DEFINE t == my[d].secret
      <3>1. secrets' = [secrets EXCEPT ![t] = IF secrets[t].owner = Absent
                                              THEN [owner |-> Unowned, pw |-> 0] ELSE secrets[t]]
        BY <1>8 DEF UpgradeDatabaseSecret
      <3> HIDE DEF t
      <3> QED BY <3>1, OwnerFacts DEF OwnersLost, IInv, Offshoots, ShootOK
    <2> QED BY <1>1, <2>1, <2>2, <2>3, GoStays, QuietSharing
  <1>9. CASE SetReady(d)
    <2>1. /\ Exists(px[d]) /\ SetPhase(d, "Ready", my[d].gen) /\ ReturnNil(d)
          /\ UNCHANGED <<cache, uids, secrets>>
      BY <1>9 DEF SetReady, shootVars, countVars
    <2>2. my[d].gen \in Nat /\ "Ready" \in Phases
      BY Copy DEF Phases
    <2> QED BY <1>1, <2>1, <2>2, ReturnStays, PhaseSharing
  <1> QED BY <1>2, <1>3, <1>4, <1>5, <1>6, <1>7, <1>8, <1>9 DEF CreateStep

(* halt, and failures *)
LEMMA HaltSharing ==
    ASSUME IInv, Sharing, NEW d \in DB, HaltStep(d)
    PROVE  Sharing'
  <1>1. WorkOK
    BY DEF IInv, Reconciling
  <1>2. CASE Halt(d) \/ HaltDatabase(d) \/ HaltStatefulSet(d) \/ WaitUntilPaused(d)
    <2>1. PICK l \in {"haltApp", "fail", "haltSts", "haltSvcs", "waitPaused", "haltRbac", "halted"} :
             Goto(d, l)
      BY <1>2 DEF Halt, HaltDatabase, HaltStatefulSet, WaitUntilPaused
    <2>2. l \notin TermLocs
      BY DEF TermLocs
    <2>3. UNCHANGED <<objVars, cache, uids>> /\ secrets' = secrets /\ my' = my
      BY <1>2 DEF Halt, HaltDatabase, HaltStatefulSet, WaitUntilPaused, shootVars, countVars
    <2> QED BY <1>1, <2>1, <2>2, <2>3, GoStays, OwnersStay, QuietSharing
  <1>3. CASE SetHalted(d)
    <2>1. /\ Exists(px[d]) /\ SetPhase(d, "Halted", my[d].gen) /\ ReturnNil(d)
          /\ UNCHANGED <<cache, uids, secrets>>
      BY <1>3 DEF SetHalted, shootVars, countVars
    <2>2. my[d].gen \in Nat /\ "Halted" \in Phases
      BY Copy DEF Phases
    <2> QED BY <1>1, <2>1, <2>2, ReturnStays, PhaseSharing
  <1> QED BY <1>2, <1>3 DEF HaltStep

\* pushFailureEvent.
LEMMA ReportSharing ==
    ASSUME IInv, Sharing, NEW d \in DB, PushFailureEvent(d)
    PROVE  Sharing'
  <1>1. /\ Exists(px[d]) /\ SetPhase(d, "NotReady", my[d].gen) /\ ReturnErr(d)
        /\ UNCHANGED <<cache, uids, secrets>>
    BY DEF PushFailureEvent, shootVars, countVars
  <1>2. my[d].gen \in Nat /\ "NotReady" \in Phases /\ WorkOK
    BY Copy DEF Phases, IInv, Reconciling
  <1> QED BY <1>1, <1>2, ReturnStays, PhaseSharing

\* An error, at any place.
LEMMA ErrorSharing ==
    ASSUME IInv, Sharing, NEW d \in DB, Error(d)
    PROVE  Sharing'
  <1>1. WorkOK /\ "fail" \notin TermLocs
    BY DEF IInv, Reconciling, TermLocs
  <1>2. UNCHANGED <<objVars, cache, uids>> /\ secrets' = secrets
    BY DEF Error, shootVars
  <1>3. ReturnNil(d) \/ ReturnErr(d) \/ (Goto(d, "fail") /\ my' = my)
    BY DEF Error
  <1>4. TermStays
    BY <1>1, <1>3, ReturnStays, GoStays
  <1> QED BY <1>2, <1>4, OwnersStay, QuietSharing

(* terminate *)
LEMMA TerminateSharing ==
    ASSUME IInv, Sharing, NEW d \in DB, TerminateStep(d)
    PROVE  Sharing'
  <1>1. WorkOK /\ px[d] \in Px
    BY DEF IInv, Reconciling, ObjOK
  <1>2. CASE ReleasePvc(d) \/ OwnPvc(d)
    <2>1. pc[d] \in TermLocs /\ \E l : Goto(d, l)
      BY <1>2 DEF ReleasePvc, OwnPvc, TermLocs
    <2>2. UNCHANGED <<objVars, cache, uids>> /\ secrets' = secrets /\ my' = my
      BY <1>2 DEF ReleasePvc, OwnPvc, countVars
    <2> QED BY <1>1, <2>1, <2>2, GoStays, OwnersStay, QuietSharing
  <1>3. CASE ReleaseSecret(d)
    <2>1. pc[d] \in TermLocs /\ \E l : Goto(d, l)
      BY <1>3 DEF ReleaseSecret, TermLocs
    <2>2. UNCHANGED <<objVars, cache, uids>> /\ my' = my
      BY <1>3 DEF ReleaseSecret, countVars
    <2>3. OwnersLost
      <3> SUFFICES ASSUME NEW s \in SecretNames, secrets'[s].owner \in 1..MaxUid
                   PROVE  secrets'[s].owner = secrets[s].owner
        BY DEF OwnersLost
      <3>1. secrets'[s] = secrets[s] \/ secrets'[s] = Released(secrets[s], my[d].uid)
        BY <1>3 DEF ReleaseSecret
      <3>2. secrets[s] \in Stored /\ my[d].uid \in 0..MaxUid
        BY Copy DEF IInv, Offshoots, ShootOK
      <3> QED BY <3>1, <3>2, OwnerEdits, OwnerFacts
    <2> QED BY <1>1, <2>1, <2>2, <2>3, GoStays, QuietSharing
  <1>4. CASE WipeOutDatabase(d)
    BY <1>4, WipeOutSharing
  <1>5. CASE RemoveFinalizer(d)
    <2>1. Exists(px[d]) /\ ReturnNil(d) /\ UNCHANGED <<cache, uids, secrets>>
      BY <1>5 DEF RemoveFinalizer, shootVars, countVars
    <2>2. TermStays
      BY <1>1, <2>1, ReturnStays
    <2>3. CASE px[d].del
      <3>1. SetPx(d, NoPx)
        BY <1>5, <2>3 DEF RemoveFinalizer
      <3>2. NoPx \in Px /\ Ended(d, NoPx)
        BY NoPxFacts DEF Ended, NoPx
      <3> QED BY <2>1, <2>2, <3>1, <3>2, PutStep, OwnersStay
    <2>4. CASE ~px[d].del
      <3> DEFINE o == [px[d] EXCEPT !.fin = FALSE]
      <3>1. o \in Px /\ o.uid = px[d].uid /\ o.del = px[d].del /\ o.secret = px[d].secret
        BY <1>1, LifeEdits, EditsKeep
      <3>2. SetPx(d, o)
        BY <1>5, <2>4 DEF RemoveFinalizer
      <3> HIDE DEF o
      <3> QED BY <2>1, <2>2, <3>1, <3>2, LaterSharing
    <2> QED BY <2>3, <2>4
  <1>6. CASE TerminateRejected(d)
    <2>1. UNCHANGED <<objVars, cache, uids>> /\ secrets' = secrets /\ ReturnErr(d)
      BY <1>6 DEF TerminateRejected, shootVars, countVars
    <2> QED BY <1>1, <2>1, ReturnStays, OwnersStay, QuietSharing
  <1> QED BY <1>2, <1>3, <1>4, <1>5, <1>6 DEF TerminateStep

(* A run begins, and sets the finalizer.                                     *)
LEMMA RunSharing ==
    ASSUME IInv, Sharing, NEW d \in DB, RunPerconaXtraDB(d)
    PROVE  Sharing'
  <1> DEFINE o == cache[d]
             l == CASE ~Exists(o)       -> "idle"
                    [] o.del /\ ~o.fin  -> "idle"
                    [] o.del /\ o.fin   -> TerminateLoc(o.policy)
                    [] OTHER            -> "addFinalizer"
  <1>1. /\ Goto(d, l) /\ my' = [my EXCEPT ![d] = IF l = "idle" THEN NoPx ELSE o]
        /\ UNCHANGED <<objVars, cache, uids, secrets>>
    BY DEF RunPerconaXtraDB, shootVars, countVars
  <1>2. l \in TermLocs => l # "idle" /\ cache[d].del
    <2>1. "idle" \notin TermLocs /\ "addFinalizer" \notin TermLocs
      BY Disjoint
    <2>2. cache[d].del \in BOOLEAN /\ cache[d].fin \in BOOLEAN
      BY Copy, PxFields
    <2>3. CASE cache[d].del
      BY <2>1, <2>3
    <2>4. CASE ~cache[d].del
      <3>1. l \in {"idle", "addFinalizer"}
        BY <2>2, <2>4
      <3> QED BY <2>1, <3>1
    <2> QED BY <2>2, <2>3, <2>4
  <1> HIDE DEF l
  <1>3. /\ pc'[d] = l /\ my'[d] = IF l = "idle" THEN NoPx ELSE cache[d]
        /\ \A e \in DB \ {d} : pc'[e] = pc[e] /\ my'[e] = my[e]
    BY <1>1 DEF Goto, IInv, Reconciling, WorkOK
  <1> QED BY <1>1, <1>2, <1>3, BeginSharing

\* The finalizer patch.
LEMMA FinalizerSharing ==
    ASSUME IInv, Sharing, NEW d \in DB, AddFinalizer(d)
    PROVE  Sharing'
  <1>1. WorkOK /\ px[d] \in Px
    BY DEF IInv, Reconciling, ObjOK
  <1>2. UNCHANGED <<cache, uids, secrets>>
    BY DEF AddFinalizer, shootVars, countVars
  <1>3. TermStays
    <2>1. \/ ReturnNil(d)
          \/ \E l, o : l \in {"halt", "validate"} /\ Goto(d, l) /\ my' = [my EXCEPT ![d] = o]
      BY DEF AddFinalizer
    <2>2. "halt" \notin TermLocs /\ "validate" \notin TermLocs
      BY DEF TermLocs
    <2>3. CASE ReturnNil(d)
      BY <1>1, <2>3, ReturnStays
    <2>4. CASE \E l, o : l \in {"halt", "validate"} /\ Goto(d, l) /\ my' = [my EXCEPT ![d] = o]
      <3>1. PICK l, o : l \in {"halt", "validate"} /\ Goto(d, l) /\ my' = [my EXCEPT ![d] = o]
        BY <2>4
      <3> QED BY <1>1, <2>2, <3>1, GoStays
    <2> QED BY <2>1, <2>3, <2>4
  <1>4. CASE my[d].fin
    <2>1. UNCHANGED objVars
      BY <1>4 DEF AddFinalizer
    <2> QED BY <1>2, <1>3, <2>1, OwnersStay, QuietSharing
  <1>5. CASE ~my[d].fin
    <2> DEFINE o == [px[d] EXCEPT !.fin = TRUE]
    <2>1. Exists(px[d]) /\ SetPx(d, o)
      BY <1>5 DEF AddFinalizer
    <2>2. o \in Px /\ o.uid = px[d].uid /\ o.del = px[d].del /\ o.secret = px[d].secret
      BY <1>1, LifeEdits, EditsKeep
    <2> HIDE DEF o
    <2> QED BY <1>2, <1>3, <2>1, <2>2, LaterSharing
  <1> QED BY <1>4, <1>5

\* Every step of a run; only wipeOutDatabase gives a secret away.
LEMMA WorkerSharing ==
    ASSUME IInv, Sharing, NEW d \in DB, WorkerStep(d) \/ CallFails(d)
    PROVE  Sharing'
  <1>1. CASE NotFound(d) \/ CallFails(d)
    BY <1>1, ErrorSharing DEF NotFound, CallFails
  <1> QED BY <1>1, FinalizerSharing, CreateSharing, HaltSharing, TerminateSharing, ReportSharing
          DEF WorkerStep

(* Users *)
LEMMA RunsUntouched ==
    ASSUME UNCHANGED workVars
    PROVE  TermStays /\ cache' = cache
  BY DEF workVars, TermStays

\* The edits of users keep identity and secret of the object.
LEMMA EditForms ==
    ASSUME IInv, NEW d \in DB,
           EditHalt(d) \/ EditResume(d) \/ EditPolicy(d) \/ EditSpec(d) \/ EditPaused(d)
             \/ EditProvisioned(d)
    PROVE  \E o \in Px : SetPx(d, o) /\ Same(o, px[d]) /\ o.secret = px[d].secret
  <1>1. px[d] \in Px
    BY DEF IInv, Reconciling, ObjOK
  <1>2. CASE EditHalt(d)
    BY <1>1, <1>2, SpecEdits, EditsKeep DEF EditHalt
  <1>3. CASE EditResume(d)
    BY <1>1, <1>3, SpecEdits, EditsKeep DEF EditResume
  <1>4. CASE EditPolicy(d)
    <2>1. PICK p \in AllPolicies : SetPx(d, [px[d] EXCEPT !.policy = p, !.gen = @ + 1])
      BY <1>4, ControllerAssumption DEF EditPolicy, ControllerAssumption
    <2> DEFINE n == [px[d] EXCEPT !.policy = p, !.gen = @ + 1]
    <2>2. n \in Px /\ Same(n, px[d])
      BY <1>1, SpecEdits
    <2>3. n.secret = px[d].secret
      BY <1>1, EditsKeep
    <2> HIDE DEF n
    <2>4. SetPx(d, n)
      BY <2>1 DEF n
    <2> QED BY <2>2, <2>3, <2>4
  <1>5. CASE EditSpec(d)
    BY <1>1, <1>5, SpecEdits, EditsKeep DEF EditSpec
  <1>6. CASE EditPaused(d)
    BY <1>1, <1>6, StatusEdits, EditsKeep DEF EditPaused
  <1>7. CASE EditProvisioned(d)
    BY <1>1, <1>7, StatusEdits, EditsKeep DEF EditProvisioned
  <1> QED BY <1>2, <1>3, <1>4, <1>5, <1>6, <1>7

\* So they keep the invariant.
LEMMA EditSharing ==
    ASSUME IInv, Sharing, NEW d \in DB,
           EditHalt(d) \/ EditResume(d) \/ EditPolicy(d) \/ EditSpec(d) \/ EditPaused(d)
             \/ EditProvisioned(d)
    PROVE  Sharing'
  <1>1. Exists(px[d]) /\ UNCHANGED <<workVars, uids, secrets>>
    BY DEF EditHalt, EditResume, EditPolicy, EditSpec, EditPaused, EditProvisioned, Edit, shootVars
  <1>2. PICK o \in Px : SetPx(d, o) /\ Same(o, px[d]) /\ o.secret = px[d].secret
    BY EditForms
  <1> QED BY <1>1, <1>2, RunsUntouched, LaterSharing DEF Same

\* A new object, which is nobody's peer in a deletion under way.
LEMMA CreatePxSharing ==
    ASSUME IInv, Sharing, NEW d \in DB, CreatePx(d)
    PROVE  Sharing'
  <1>1. PICK p \in Policies, s \in UserSecrets \cup {NoSecret} :
           SetPx(d, [NoPx EXCEPT !.uid = uids', !.gen = 1, !.policy = p, !.secret = s])
    BY DEF CreatePx
  <1> DEFINE o == [NoPx EXCEPT !.uid = uids', !.gen = 1, !.policy = p, !.secret = s]
  <1>2. ~Exists(px[d]) /\ uids' = uids + 1 /\ UNCHANGED workVars /\ secrets' = secrets
    BY DEF CreatePx, shootVars
  <1>3. uids' \in 1..MaxUid
    <2>1. uids < MaxUid /\ uids \in 0..MaxUid /\ uids' = uids + 1
      BY DEF CreatePx, IInv, Offshoots, CountOK
    <2> QED BY <2>1, ControllerAssumption DEF ControllerAssumption
  <1>4. p \in AllPolicies /\ s \in SecretNames \cup {NoSecret}
    BY ControllerAssumption DEF ControllerAssumption, SecretNames
  <1>5. o \in Px /\ o.uid = uids' /\ ~o.del /\ o.secret = s
    <2>1. o \in Px /\ o.uid = uids' /\ ~o.del
      BY <1>3, <1>4, NewPx
    <2>2. o.secret = s
      BY DEF NoPx
    <2> QED BY <2>1, <2>2
  <1>6. SetPx(d, o)
    BY <1>1
  <1> HIDE DEF o
  <1>7. Created(d, o)
    BY <1>2, <1>5 DEF Created, Exists
  <1> QED BY <1>2, <1>5, <1>6, <1>7, RunsUntouched, OwnersStay, PutStep

\* A deletion: its peers are all in the watch before it.
LEMMA DeletePxSharing ==
    ASSUME IInv, Sharing, NEW d \in DB, DeletePx(d)
    PROVE  Sharing'
  <1>1. px[d] \in Px
    BY DEF IInv, Reconciling, ObjOK
  <1>2. Exists(px[d]) /\ UNCHANGED <<workVars, uids, secrets>>
    BY DEF DeletePx, shootVars, countVars
  <1>3. CASE px[d].fin
    <2> DEFINE o == [px[d] EXCEPT !.del = TRUE, !.gen = @ + 1]
    <2>1. o \in Px /\ o.uid = px[d].uid /\ o.del /\ o.secret = px[d].secret
      BY <1>1, LifeEdits, EditsKeep
    <2>2. SetPx(d, o)
      BY <1>3 DEF DeletePx
    <2> HIDE DEF o
    <2> QED BY <1>2, <2>1, <2>2, RunsUntouched, LaterSharing
  <1>4. CASE ~px[d].fin
    <2>1. SetPx(d, NoPx)
      BY <1>4 DEF DeletePx
    <2>2. NoPx \in Px /\ Ended(d, NoPx)
      BY NoPxFacts DEF Ended, NoPx
    <2> QED BY <1>2, <2>1, <2>2, RunsUntouched, OwnersStay, PutStep
  <1> QED BY <1>3, <1>4

\* Everything users do.
LEMMA UserSharing ==
    ASSUME IInv, Sharing, NEW d \in DB, UserStep(d)
    PROVE  Sharing'
  <1>1. CASE CreateRestoreSession(d)
    BY <1>1, RunsUntouched, OwnersStay, QuietSharing DEF CreateRestoreSession, shootVars, countVars
  <1> QED BY <1>1, CreatePxSharing, EditSharing, DeletePxSharing DEF UserStep

(* Kubernetes and Stash *)
LEMMA KubernetesSharing ==
    ASSUME IInv, Sharing, NEW d \in DB, KubernetesStep(d)
    PROVE  Sharing'
  <1>1. UNCHANGED <<objVars, workVars, uids, secrets>>
    BY DEF KubernetesStep, CreatePods, StartPods, DeletePods, CollectOffshoot, CollectSts,
           CollectPvc, countVars
  <1> QED BY <1>1, RunsUntouched, OwnersStay, QuietSharing

\* The garbage collector takes a secret whose owner is gone.
LEMMA CollectSharing ==
    ASSUME IInv, Sharing, NEW s \in SecretNames, CollectSecret(s)
    PROVE  Sharing'
  <1>1. UNCHANGED <<objVars, workVars, uids>> /\ secrets' = [secrets EXCEPT ![s] = NoStored]
    BY DEF CollectSecret, countVars
  <1>2. OwnersLost
    BY <1>1, NoStoredFacts DEF OwnersLost, IInv, Offshoots, ShootOK
  <1> QED BY <1>1, <1>2, RunsUntouched, QuietSharing

\* Restores write a condition.
LEMMA StashSharing ==
    ASSUME IInv, Sharing, NEW d \in DB, StashStep(d)
    PROVE  Sharing'
  <1>1. UNCHANGED <<workVars, uids, secrets>>
    BY DEF StashStep, RunRestore, RetryRestore, ProcessRestoreSession, shootVars, countVars
  <1>2. CASE RunRestore(d) \/ RetryRestore(d)
    BY <1>1, <1>2, RunsUntouched, OwnersStay, QuietSharing DEF RunRestore, RetryRestore
  <1>3. CASE ProcessRestoreSession(d)
    <2> DEFINE b == restore[d] = "Succeeded"
               o == [px[d] EXCEPT !.restored = b]
    <2>1. Exists(px[d]) /\ SetPx(d, o)
      BY <1>3 DEF ProcessRestoreSession
    <2>2. o \in Px /\ Same(o, px[d]) /\ o.secret = px[d].secret
      <3>1. px[d] \in Px /\ b \in BOOLEAN
        BY DEF IInv, Reconciling, ObjOK
      <3> HIDE DEF b
      <3> QED BY <3>1, StatusEdits, EditsKeep
    <2> HIDE DEF o
    <2> QED BY <1>1, <2>1, <2>2, RunsUntouched, LaterSharing DEF Same
  <1> QED BY <1>2, <1>3 DEF StashStep

----------------------------------------------------------------------------
(* The invariant *)

\* The invariant holds at the start, ...
LEMMA SharingInitial == Init => Sharing
  <1> SUFFICES ASSUME Init PROVE Sharing
    OBVIOUS
  <1>1. /\ watch = << >> /\ cache = px /\ pc = [d \in DB |-> "idle"] /\ uids = 0
        /\ px = [d \in DB |-> NoPx]
        /\ asked = [u \in 1..MaxUid |-> [policies |-> {}, peers |-> {}]]
    BY DEF Init
  <1>2. \A d \in DB : px[d].uid = 0 /\ ~px[d].del /\ px[d].secret = NoSecret
    BY <1>1 DEF NoPx
  <1>3. \A d \in DB : Positions(d) = {0} /\ Version(d, 0) = px[d]
    BY <1>1 DEF Positions, Version
  <1>4. UidsFresh
    BY <1>1, <1>2, <1>3 DEF UidsFresh
  <1>5. LiveLast /\ SecretsNamed /\ PeersSeen
    BY <1>2, <1>3 DEF LiveLast, SecretsNamed, PeersSeen, NoPeer
  <1>6. PeersCached
    BY <1>1 DEF PeersCached, TermLocs
  <1>7. OwnSecretKept /\ SharedSecretKept
    BY <1>2 DEF OwnSecretKept, SharedSecretKept, Exists
  <1> QED BY <1>4, <1>5, <1>6, <1>7 DEF Sharing, Seen

\* ... every step keeps it, ...
LEMMA SharingInductive == IInv /\ Sharing /\ [Next]_vars => Sharing'
  <1> SUFFICES ASSUME IInv, Sharing, [Next]_vars PROVE Sharing'
    OBVIOUS
  <1>1. CASE Deliver
    BY <1>1, DeliverSharing
  <1>2. ASSUME NEW d \in DB, Resync(d) PROVE Sharing'
    <2>1. UNCHANGED <<objVars, cache, uids>> /\ TermStays /\ secrets' = secrets
      BY <1>2 DEF Resync, shootVars, countVars, TermStays
    <2> QED BY <2>1, OwnersStay, QuietSharing
  <1>3. ASSUME NEW d \in DB, PushFailurePanics(d) PROVE Sharing'
    BY <1>3, StartSharing DEF PushFailurePanics
  <1>4. CASE Crash
    BY <1>4, StartSharing DEF Crash
  <1>5. CASE UNCHANGED vars
    <2>1. UNCHANGED <<objVars, workVars, uids, secrets>>
      BY <1>5 DEF vars, shootVars, countVars
    <2> QED BY <2>1, RunsUntouched, OwnersStay, QuietSharing
  <1> QED BY <1>1, <1>2, <1>3, <1>4, <1>5, RunSharing, WorkerSharing, UserSharing,
             KubernetesSharing, StashSharing, CollectSharing DEF Next, FaultStep

\* ... so it always holds.
LEMMA SharingInvariance == Spec => []Sharing
  BY Invariance, SharingInitial, SharingInductive, PTL DEF Spec

(* A secret of a database that existed when another one's deletion was asked *)
(* for never gets that other one as its owner (wipeOutDatabase and          *)
(* secretsUsedByPeers, dormant.go:215-245), although the list of peers comes *)
(* from an informer that lags by any number of versions, and a name may be   *)
(* deleted and created again meanwhile.                                      *)
THEOREM SharedSecretsAreKept == Spec => []SharedSecretKept
  <1>1. Sharing => SharedSecretKept
    BY DEF Sharing
  <1> QED BY <1>1, SharingInvariance, PTL

============================================================================
