------------------------- MODULE CredentialsProofs -------------------------
(***************************************************************************)
(* Proof about Controller: the password that the data directory was         *)
(* initialised with is the one in the secret that the database names.       *)
(*                                                                          *)
(* It can be wrong in two ways only, and the theorem excludes just these: a *)
(* wipe-out, after which a secret is made again with another password, and  *)
(* a database that is created again over the volumes of an earlier one with *)
(* another secret of the users.  Everything else is in it: operators that   *)
(* stop between the creation of the secret and the patch that names it,     *)
(* failing calls, stale copies, halts and resumes and, with the operator's  *)
(* own secrets, deletions and new databases of the same name.               *)
(*                                                                          *)
(* The argument: a secret that somebody names has a password, which no step *)
(* changes (Whole, Backed); a copy names the secret of the live object, or  *)
(* none while the object has its own (Follows), so that a run patches the   *)
(* name at most once; hence StatefulSet and volume go with one secret for   *)
(* ever (Anchored, Key).                                                    *)
(***************************************************************************)
EXTENDS SharingProofs

\* No wipe-out has been asked for; no deletion of a database with finalizer has.
NoneWipedOut == \A u \in 1..MaxUid : "WipeOut" \notin asked[u].policies
NoneDeleted  == \A u \in 1..MaxUid : asked[u].policies = {}

Lasting == UserSecrets = {} \/ NoneDeleted

\* Such deletions are not taken back.
Safely == NoneWipedOut /\ (Lasting' => Lasting)

\* A secret that exists has a password, and those of the users exist.
Whole ==
    /\ \A s \in SecretNames : secrets[s].pw = 0 <=> secrets[s].owner = Absent
    /\ \A s \in UserSecrets : secrets[s].pw # 0

\* A secret that is named exists.
Backed(o) == o.secret # NoSecret => secrets[o.secret].pw # 0

\* A version or copy names the secret of the live object, or none while that
\* has its own.
Follows(e, o) ==
    /\ o.uid \leq uids
    /\ px[e].uid # 0 /\ o.uid = px[e].uid =>
          o.secret = px[e].secret \/ (o.secret = NoSecret /\ px[e].secret = e)

Good(e, o) == Backed(o) /\ Follows(e, o)

Linked(e) ==
    /\ px[e].uid = 0 => px[e].secret = NoSecret
    /\ Good(e, px[e])
    /\ \A i \in Positions(e) : Good(e, Version(e, i))
    /\ pc[e] # "idle" => Good(e, my[e])
    /\ pc[e] = "secretPatch" => my[e].secret = NoSecret /\ secrets[e].pw # 0

\* The secret that goes with the database for good.
Anchored(e) == UserSecrets = {} \/ (px[e].uid # 0 /\ px[e].fin /\ px[e].secret # NoSecret)
Key(e)      == IF UserSecrets = {} THEN e ELSE px[e].secret

\* StatefulSet and volume have that secret and its password.
Initialised(e) ==
    /\ sts[e].owner # Absent => Anchored(e) /\ sts[e].secret = Key(e)
    /\ pvc[e].pw # 0 => Anchored(e) /\ pvc[e].pw = secrets[Key(e)].pw
    /\ pods[e] = "running" => pvc[e].pw # 0

\* The invariant, while NoneWipedOut.
Credentials ==
    Whole /\ \A e \in DB : Linked(e) /\ (Lasting => Initialised(e))

----------------------------------------------------------------------------
(* What a step may do to the database e.                                     *)

\* Its object gets another version, its own secret, an end, or is created.
ObjLink(e) ==
    \/ /\ px'[e].uid = px[e].uid /\ px'[e].secret = px[e].secret
       /\ px[e].fin => px'[e].fin \/ pc[e] \in TermLocs
    \/ /\ px'[e].uid = px[e].uid /\ px[e].uid # 0 /\ px'[e].fin = px[e].fin
       /\ px'[e].secret = e /\ px[e].secret \in {NoSecret, e} /\ secrets[e].pw # 0
    \/ /\ px'[e].uid = 0 /\ px'[e].secret = NoSecret
       /\ px[e].fin => pc[e] \in TermLocs
    \/ /\ px[e].uid = 0 /\ ~(px'[e].uid \leq uids) /\ px'[e].uid \leq uids'
       /\ px'[e].secret \in UserSecrets \cup {NoSecret}

\* The informer gets old versions or the live one.
VersionLink(e) ==
    \A i \in Positions(e)' :
        Version(e, i)' = px'[e] \/ \E j \in Positions(e) : Version(e, i)' = Version(e, j)

\* A run keeps its copy, or takes it from the store or from a reply.
RunLink(e) ==
    /\ pc'[e] # "idle" =>
          \/ my'[e].uid = px'[e].uid /\ my'[e].secret = px'[e].secret
          \/ pc[e] # "idle" /\ my'[e].uid = my[e].uid /\ my'[e].secret = my[e].secret
          \/ my'[e] = cache[e]
    /\ pc'[e] = "secretPatch" =>
          \/ pc[e] = "secretPatch" /\ my'[e] = my[e]
          \/ my'[e].secret = NoSecret /\ secrets'[e].pw # 0

\* The set is made with the secret of the copy, the volume with that of the set.
ShootLink(e) ==
    /\ \/ sts'[e] = sts[e] \/ sts'[e].owner = Absent
       \/ pc[e] = "sts" /\ px'[e] = px[e] /\ sts'[e].secret = my[e].secret
    /\ \/ pvc'[e].pw = pvc[e].pw /\ (pods'[e] = "running" => pods[e] = "running")
       \/ pvc'[e].pw = 0 /\ pods'[e] # "running"
       \/ /\ sts[e].owner # Absent /\ pvc'[e].pw # 0
          /\ pvc'[e].pw = pvc[e].pw \/ pvc'[e].pw = secrets[sts[e].secret].pw

\* Passwords stay.
PwKept == \A s \in SecretNames : secrets[s].pw # 0 => secrets'[s].pw = secrets[s].pw

\* Names of secrets.
LEMMA Names ==
    /\ \A e \in DB : e \in SecretNames /\ e # NoSecret
    /\ \A s \in UserSecrets : s \in SecretNames /\ s # NoSecret /\ s \notin DB
    /\ NoSecret \notin SecretNames
  BY ControllerAssumption DEF ControllerAssumption, SecretNames

\* A good copy stays good, whatever becomes of the object.
LEMMA GoodStays ==
    ASSUME IInv, Sharing, NEW e \in DB, ObjLink(e), PwKept, uids \leq uids', uids' \in Nat,
           NEW o \in Px, Good(e, o), Good(e, px[e])
    PROVE  Backed(o)' /\ Follows(e, o)'
  <1>1. /\ o.uid \in Nat /\ uids \in Nat /\ o.uid \leq uids
        /\ o.secret \in SecretNames \cup {NoSecret}
    <2>1. o.uid \in 0..MaxUid /\ o.secret \in SecretNames \cup {NoSecret}
      BY PxFields
    <2>2. uids \in 0..MaxUid
      BY DEF IInv, Offshoots, CountOK
    <2> QED BY <2>1, <2>2, ControllerAssumption DEF ControllerAssumption, Good, Follows
  <1>2. Backed(o)'
    BY <1>1 DEF Good, Backed, PwKept
  <1>3. o.uid \leq uids'
    BY <1>1
  <1>4. Follows(e, o)'
    BY <1>1, <1>3, Names DEF Good, Follows, ObjLink
  <1> QED BY <1>2, <1>4

\* The new object is good.
LEMMA LiveGood ==
    ASSUME IInv, Sharing, NEW e \in DB, ObjLink(e), Whole, PwKept, uids \leq uids', uids' \in Nat,
           Good(e, px[e]), px[e].uid = 0 => px[e].secret = NoSecret
    PROVE  Backed(px[e])' /\ Follows(e, px[e])' /\ (px'[e].uid = 0 => px'[e].secret = NoSecret)
  <1>1. /\ px[e].uid \in Nat /\ uids \in Nat /\ px[e].uid \leq uids
        /\ px[e].secret \in SecretNames \cup {NoSecret}
    <2>1. px[e].uid \in 0..MaxUid /\ px[e].secret \in SecretNames \cup {NoSecret}
      BY Copy, PxFields
    <2>2. uids \in 0..MaxUid
      BY DEF IInv, Offshoots, CountOK
    <2> QED BY <2>1, <2>2, ControllerAssumption DEF ControllerAssumption, Good, Follows
  <1>2. Backed(px[e])'
    BY <1>1, Names DEF Good, Backed, PwKept, ObjLink, Whole
  <1>3. px'[e].uid \leq uids'
    BY <1>1 DEF ObjLink
  <1>4. px'[e].uid = 0 => px'[e].secret = NoSecret
    BY <1>1 DEF ObjLink
  <1> QED BY <1>2, <1>3, <1>4 DEF Follows

\* A step that links new to old keeps Linked.
LEMMA LinkedKept ==
    ASSUME IInv, IInv', Sharing, NEW e \in DB, Linked(e), Whole, PwKept, uids \leq uids',
           ObjLink(e), VersionLink(e), RunLink(e)
    PROVE  Linked(e)'
  <1>0. uids' \in Nat
    BY ControllerAssumption DEF IInv, Offshoots, CountOK, ControllerAssumption
  <1>1. Backed(px[e])' /\ Follows(e, px[e])' /\ (px'[e].uid = 0 => px'[e].secret = NoSecret)
    BY <1>0, LiveGood DEF Linked
  <1>2. ASSUME NEW i \in Positions(e)' PROVE Good(e, Version(e, i))'
    <2>1. CASE Version(e, i)' = px'[e]
      BY <1>1, <2>1 DEF Good, Backed, Follows
    <2>2. CASE \E j \in Positions(e) : Version(e, i)' = Version(e, j)
      <3>1. PICK j \in Positions(e) : Version(e, i)' = Version(e, j)
        BY <2>2
      <3>2. PICK o \in Px : o = Version(e, j)
        <4>1. watch \in Seq(Entries) /\ cache[e] \in Px
          BY Copy DEF IInv, Reconciling, ObjOK, Entries
        <4>2. \A n \in 1..Len(watch) : watch[n].obj \in Px
          BY <4>1, WatchEntry
        <4> QED BY <4>1, <4>2 DEF Positions, Version
      <3>3. Good(e, o) /\ Good(e, px[e])
        BY <3>2 DEF Linked
      <3>4. Backed(o)' /\ Follows(e, o)'
        BY <1>0, <3>3, GoodStays
      <3> QED BY <3>1, <3>2, <3>4 DEF Good, Backed, Follows
    <2> QED BY <2>1, <2>2 DEF VersionLink
  <1>3. ASSUME pc'[e] # "idle" PROVE Good(e, my[e])'
    <2>1. CASE my'[e].uid = px'[e].uid /\ my'[e].secret = px'[e].secret
      BY <1>1, <2>1 DEF Good, Backed, Follows
    <2>2. CASE pc[e] # "idle" /\ my'[e].uid = my[e].uid /\ my'[e].secret = my[e].secret
      <3>1. PICK o \in Px : o = my[e]
        BY Copy
      <3>2. Good(e, o) /\ Good(e, px[e])
        BY <2>2, <3>1 DEF Linked
      <3>3. Backed(o)' /\ Follows(e, o)'
        BY <1>0, <3>2, GoodStays
      <3> QED BY <2>2, <3>1, <3>3 DEF Good, Backed, Follows
    <2>3. CASE my'[e] = cache[e]
      <3>1. PICK o \in Px : o = cache[e]
        BY Copy
      <3>2. Good(e, o) /\ Good(e, px[e])
        BY <3>1 DEF Linked, Positions, Version
      <3>3. Backed(o)' /\ Follows(e, o)'
        BY <1>0, <3>2, GoodStays
      <3> QED BY <2>3, <3>1, <3>3 DEF Good, Backed, Follows
    <2> QED BY <1>3, <2>1, <2>2, <2>3 DEF RunLink
  <1>4. pc'[e] = "secretPatch" => my'[e].secret = NoSecret /\ secrets'[e].pw # 0
    BY Names DEF RunLink, Linked, PwKept
  <1>5. Good(e, px[e])'
    BY <1>1 DEF Good
  <1> QED BY <1>1, <1>2, <1>3, <1>4, <1>5 DEF Linked

(* Without deletions there is no terminate.                                  *)
LEMMA NoTermination ==
    ASSUME IInv, NoneDeleted, NEW e \in DB
    PROVE  pc[e] \notin TermLocs
  <1> SUFFICES ASSUME pc[e] \in TermLocs PROVE FALSE
    OBVIOUS
  <1>1. my[e].del /\ Vouched(my[e])
    BY DEF IInv, Reconciling, Terminating, Asked
  <1> QED BY <1>1 DEF Vouched, NoneDeleted

\* The secret of a database is for good.
LEMMA AnchorHolds ==
    ASSUME IInv, Lasting, NEW e \in DB, Linked(e), ObjLink(e), Anchored(e)
    PROVE  Anchored(e)' /\ Key(e)' = Key(e)
  <1>1. CASE UserSecrets = {}
    BY <1>1 DEF Anchored, Key
  <1>2. CASE UserSecrets # {}
    <2>1. pc[e] \notin TermLocs
      BY <1>2, NoTermination DEF Lasting
    <2> QED BY <1>2, <2>1, Names DEF Anchored, Key, ObjLink
  <1> QED BY <1>1, <1>2

\* The secret of the copy, when the set is made, is that of the database.
LEMMA SetAnchored ==
    ASSUME IInv, Sharing, NEW e \in DB, Linked(e), pc[e] = "sts"
    PROVE  Anchored(e) /\ my[e].secret = Key(e)
  <1>1. my[e].secret # NoSecret /\ px[e].fin /\ px[e].uid = my[e].uid /\ px[e].uid # 0
    <2>1. "sts" \in Held
      BY DEF Held, CreateLocs
    <2> QED BY <2>1 DEF IInv, Reconciling, SecretPicked, Incarnations, Incarnation, RunSeen,
                       NothingThere
  <1>2. my[e].secret = px[e].secret
    BY <1>1 DEF Linked, Good, Follows
  <1>3. px[e].secret \in UserSecrets \cup {NoSecret, e}
    BY DEF Sharing, Seen, SecretsNamed
  <1> QED BY <1>1, <1>2, <1>3 DEF Anchored, Key

\* A step that links new to old keeps Initialised.
LEMMA InitialisedKept ==
    ASSUME IInv, Sharing, Lasting, NEW e \in DB, Linked(e), Initialised(e), ObjLink(e),
           ShootLink(e), PwKept
    PROVE  Initialised(e)'
  <1>1. Anchored(e) => Anchored(e)' /\ Key(e)' = Key(e) /\ Key(e) \in SecretNames
    <2>1. px[e].secret \in SecretNames \cup {NoSecret}
      BY Copy, PxFields
    <2> QED BY <2>1, AnchorHolds, Names DEF Anchored, Key
  <1>2. sts'[e].owner # Absent => Anchored(e)' /\ sts'[e].secret = Key(e)'
    <2>1. CASE sts'[e] = sts[e] \/ sts'[e].owner = Absent
      BY <1>1, <2>1 DEF Initialised
    <2>2. CASE pc[e] = "sts" /\ px'[e] = px[e] /\ sts'[e].secret = my[e].secret
      BY <1>1, <2>2, SetAnchored
    <2> QED BY <2>1, <2>2 DEF ShootLink
  <1>3. pvc'[e].pw # 0 => Anchored(e)' /\ pvc'[e].pw = secrets'[Key(e)'].pw
    BY <1>1 DEF Initialised, ShootLink, PwKept
  <1>4. pods'[e] = "running" => pvc'[e].pw # 0
    BY DEF Initialised, ShootLink
  <1> QED BY <1>2, <1>3, <1>4 DEF Initialised

----------------------------------------------------------------------------
(* Steps, by what they do.                                                   *)

\* The history only grows.
LEMMA SetGrows ==
    ASSUME ObjOK, NEW d, NEW o, SetPx(d, o)
    PROVE  Grows
  <1>1. CASE ~o.del
    BY <1>1 DEF SetPx, Grows
  <1>2. CASE o.del
    <2>1. asked' = [asked EXCEPT ![o.uid] = Deletion(d, o)]
      BY <1>2 DEF SetPx
    <2>2. Deletion(d, o).policies = asked[o.uid].policies \cup {o.policy}
      BY DEF Deletion
    <2>3. \A u \in 1..MaxUid : asked'[u] = IF u = o.uid THEN Deletion(d, o) ELSE asked[u]
      BY <2>1 DEF ObjOK
    <2> QED BY <2>2, <2>3 DEF Grows
  <1> QED BY <1>1, <1>2

\* Deletions that were asked for stay asked for, ...
LEMMA HistoryGrows ==
    ASSUME IInv, [Next]_vars
    PROVE  Grows
  <1>1. ObjOK
    BY DEF IInv, Reconciling
  <1>2. asked' = asked \/ \E d, o : SetPx(d, o)
    <2>1. CASE Deliver \/ Crash \/ UNCHANGED vars
      BY <2>1 DEF Deliver, Crash, StartOperator, vars, objVars
    <2>2. ASSUME NEW d \in DB, Resync(d) \/ RunPerconaXtraDB(d) \/ FaultStep(d) \/ KubernetesStep(d)
          PROVE  asked' = asked
      BY <2>2 DEF Resync, RunPerconaXtraDB, FaultStep, CallFails, Error, PushFailurePanics,
                  StartOperator, KubernetesStep, CreatePods, StartPods, DeletePods,
                  CollectOffshoot, CollectSts, CollectPvc, objVars
    <2>3. ASSUME NEW d \in DB, StashStep(d) \/ UserStep(d)
          PROVE  asked' = asked \/ \E o : SetPx(d, o)
      BY <2>3 DEF StashStep, RunRestore, RetryRestore, ProcessRestoreSession, UserStep, CreatePx,
                  EditHalt, EditResume, EditPolicy, EditSpec, EditPaused, EditProvisioned, DeletePx,
                  CreateRestoreSession, objVars
    <2>4. ASSUME NEW d \in DB, CreateStep(d) \/ HaltStep(d)
          PROVE  asked' = asked \/ \E o : SetPx(d, o)
      BY <2>4 DEF CreateStep, ValidatePerconaXtraDB, SetProvisioning, CreateGoverningService,
                  EnsureOffshoot, CreateDatabaseSecret, PatchDatabaseSecret, UpgradeDatabaseSecret,
                  EnsureStatefulSet, CheckPodStatus, SetReady, CreateRejected, SetPhase,
                  HaltStep, Halt, HaltDatabase, HaltStatefulSet, WaitUntilPaused, SetHalted, objVars
    <2>5. ASSUME NEW d \in DB, AddFinalizer(d) \/ TerminateStep(d) \/ PushFailureEvent(d) \/ NotFound(d)
          PROVE  asked' = asked \/ \E o : SetPx(d, o)
      BY <2>5 DEF AddFinalizer, TerminateStep, ReleasePvc, ReleaseSecret, WipeOutDatabase, OwnPvc,
                  RemoveFinalizer, TerminateRejected, PushFailureEvent, SetPhase, NotFound, Error,
                  objVars
    <2>6. ASSUME NEW s \in SecretNames, CollectSecret(s) PROVE asked' = asked
      BY <2>6 DEF CollectSecret, objVars
    <2> QED BY <2>1, <2>2, <2>3, <2>4, <2>5, <2>6 DEF Next, WorkerStep
  <1> QED BY <1>1, <1>2, SetGrows DEF Grows

\* ... so that without a wipe-out now there was none before.
LEMMA SafeBefore ==
    ASSUME IInv, [Next]_vars
    PROVE  (NoneWipedOut' => Safely) /\ (NoneDeleted' => NoneDeleted)
  BY HistoryGrows DEF Grows, Safely, Lasting, NoneWipedOut, NoneDeleted

\* Nothing happens to the objects.
LEMMA QuietLinks ==
    ASSUME UNCHANGED <<px, watch, cache>>
    PROVE  \A e \in DB : ObjLink(e) /\ VersionLink(e)
  <1>1. \A e \in DB : Positions(e)' = Positions(e)
                      /\ \A i \in Positions(e) : Version(e, i)' = Version(e, i)
    BY DEF Positions, Version
  <1> QED BY <1>1 DEF ObjLink, VersionLink

\* The object of d becomes o.
LEMMA PutLinks ==
    ASSUME IInv, NEW d \in DB, NEW o \in Px, o.del => o.uid \in 1..MaxUid, SetPx(d, o),
           cache' = cache, px'[d] = o => ObjLink(d)
    PROVE  \A e \in DB : ObjLink(e) /\ VersionLink(e)
  <1>1. ObjOK
    BY DEF IInv, Reconciling
  <1>2. Put(d, o)
    BY <1>1, PutFacts
  <1>3. ASSUME NEW e \in DB PROVE VersionLink(e)
    BY <1>2 DEF Put, VersionLink
  <1>4. ASSUME NEW e \in DB \ {d} PROVE ObjLink(e)
    BY <1>2 DEF Put, ObjLink
  <1>5. ObjLink(d)
    BY <1>2 DEF Put
  <1> QED BY <1>3, <1>4, <1>5

\* ... another version of the same object with the same secret.
LEMMA SameLinks ==
    ASSUME IInv, NEW d \in DB, Exists(px[d]), NEW o \in Px, o.uid = px[d].uid,
           o.secret = px[d].secret, px[d].fin => o.fin \/ pc[d] \in TermLocs,
           SetPx(d, o), cache' = cache
    PROVE  \A e \in DB : ObjLink(e) /\ VersionLink(e)
  <1>1. o.uid \in 1..MaxUid
    <2>1. o.uid \in 0..MaxUid /\ o.uid # 0
      BY PxFields DEF Exists
    <2> QED BY <2>1, ControllerAssumption DEF ControllerAssumption
  <1>2. px'[d] = o => ObjLink(d)
    BY DEF ObjLink
  <1> QED BY <1>1, <1>2, PutLinks

\* ... or another status.
LEMMA PhaseLinks ==
    ASSUME IInv, NEW d \in DB, Exists(px[d]), NEW p \in Phases, NEW g \in Nat,
           SetPhase(d, p, g), cache' = cache
    PROVE  /\ \A e \in DB : ObjLink(e) /\ VersionLink(e)
           /\ px'[d].uid = px[d].uid
  <1>1. PICK o : o = [px[d] EXCEPT !.phase = p, !.obsGen = g]
    OBVIOUS
  <1>2. px[d] \in Px
    BY Copy
  <1>3. o \in Px /\ Same(o, px[d]) /\ o.secret = px[d].secret
    BY <1>1, <1>2 DEF Px, Same
  <1>4. SetPx(d, o)
    BY <1>1 DEF SetPhase
  <1>5. px'[d] = o
    BY <1>2, <1>4 DEF SetPx, IInv, Reconciling, ObjOK
  <1> QED BY <1>3, <1>4, <1>5, SameLinks DEF Same

\* A run goes on with its copy, ...
LEMMA GoLinks ==
    ASSUME IInv, NEW d \in DB, NEW l, Goto(d, l), pc[d] # "idle", l # "secretPatch",
           \A e \in DB \ {d} : my'[e] = my[e],
           \/ my'[d].uid = my[d].uid /\ my'[d].secret = my[d].secret
           \/ my'[d].uid = px'[d].uid /\ my'[d].secret = px'[d].secret
    PROVE  \A e \in DB : RunLink(e)
  <1>1. pc \in [DB -> Locations] /\ my \in [DB -> Px]
    BY DEF IInv, Reconciling, WorkOK
  <1>2. pc'[d] = l /\ \A e \in DB \ {d} : pc'[e] = pc[e] /\ my'[e] = my[e]
    BY <1>1 DEF Goto
  <1>3. RunLink(d)
    BY <1>2 DEF RunLink
  <1>4. ASSUME NEW e \in DB \ {d} PROVE RunLink(e)
    BY <1>2 DEF RunLink
  <1> QED BY <1>3, <1>4

\* ... or ends, ...
LEMMA EndLinks ==
    ASSUME IInv, NEW d \in DB, ReturnNil(d) \/ ReturnErr(d)
    PROVE  \A e \in DB : RunLink(e)
  <1>1. WorkOK /\ Leave(d)
    BY DEF IInv, Reconciling, ReturnNil, ReturnErr
  <1>2. pc'[d] = "idle" /\ \A e \in DB \ {d} : pc'[e] = pc[e] /\ my'[e] = my[e]
    BY <1>1, Leaves
  <1> QED BY <1>2 DEF RunLink

\* ... or continues, or there are no steps of runs.
LEMMA ContinueLinks ==
    ASSUME IInv, NEW d \in DB, NEW l, Continue(d, l), pc[d] # "idle", l # "secretPatch"
    PROVE  \A e \in DB : RunLink(e)
  <1>1. CASE l = "return"
    BY <1>1, EndLinks DEF Continue
  <1>2. CASE l # "return"
    <2>1. Goto(d, l) /\ my' = my
      BY <1>2 DEF Continue
    <2>2. my'[d].uid = my[d].uid /\ my'[d].secret = my[d].secret
      BY <2>1
    <2> QED BY <2>1, <2>2, GoLinks
  <1> QED BY <1>1, <1>2

\* Nothing happens to the runs.
LEMMA IdleLinks ==
    ASSUME UNCHANGED <<pc, my>>
    PROVE  \A e \in DB : RunLink(e)
  BY DEF RunLink

\* Nothing happens to the sets, the pods, the volumes; to the secrets.
LEMMA ShootsStay ==
    ASSUME UNCHANGED <<sts, pods, pvc>>
    PROVE  \A e \in DB : ShootLink(e)
  BY DEF ShootLink

\* The invariant, from the links.
LEMMA CredentialsKept ==
    ASSUME IInv, IInv', Sharing, Safely, Credentials, uids \leq uids', Whole', PwKept,
           \A e \in DB : ObjLink(e) /\ VersionLink(e), \A e \in DB : RunLink(e),
           \A e \in DB : ShootLink(e)
    PROVE  Credentials'
  <1> SUFFICES ASSUME NEW e \in DB PROVE Linked(e)' /\ (Lasting' => Initialised(e)')
    BY DEF Credentials
  <1>1. Linked(e) /\ Whole /\ (Lasting => Initialised(e))
    BY DEF Credentials
  <1>2. Linked(e)'
    BY <1>1, LinkedKept
  <1>3. Lasting => Initialised(e)'
    BY <1>1, InitialisedKept
  <1> QED BY <1>2, <1>3 DEF Safely

\* ... when no secret changes.
LEMMA CredentialsStay ==
    ASSUME IInv, IInv', Sharing, Safely, Credentials, uids' = uids, secrets' = secrets,
           \A e \in DB : ObjLink(e) /\ VersionLink(e), \A e \in DB : RunLink(e),
           \A e \in DB : ShootLink(e)
    PROVE  Credentials'
  <1>1. Whole' /\ PwKept
    BY DEF Credentials, Whole, PwKept
  <1>2. uids \leq uids'
    BY DEF IInv, Offshoots, CountOK
  <1> QED BY <1>1, <1>2, CredentialsKept

----------------------------------------------------------------------------
(* create *)

\* The secret is created once.
LEMMA SecretCredentials ==
    ASSUME IInv, IInv', Sharing, Safely, Credentials, NEW d \in DB, CreateDatabaseSecret(d)
    PROVE  Credentials'
  <1>1. /\ pc[d] = "secret" /\ my[d].secret = NoSecret /\ pc' = [pc EXCEPT ![d] = "secretPatch"]
        /\ UNCHANGED <<px, watch, cache, my, sts, pods, pvc, uids>>
    BY DEF CreateDatabaseSecret, Goto, objVars
  <1>2. /\ secrets \in [SecretNames -> Stored] /\ passwords \in Nat /\ pc \in [DB -> Locations]
        /\ d \in SecretNames /\ uids \in Nat
    BY Names, ControllerAssumption
       DEF IInv, Reconciling, WorkOK, Offshoots, ShootOK, CountOK, ControllerAssumption
  <1>3. Whole' /\ PwKept /\ secrets'[d].pw # 0
    <2>1. CASE secrets[d].owner = Absent
      <3>1. PICK w \in Nat : w = passwords + 1 /\ w # 0
        BY <1>2
      <3>2. secrets' = [secrets EXCEPT ![d] = [owner |-> Unowned, pw |-> w]]
        BY <2>1, <3>1 DEF CreateDatabaseSecret
      <3>3. /\ secrets'[d].owner = Unowned /\ secrets'[d].pw = w
            /\ \A s \in SecretNames \ {d} : secrets'[s] = secrets[s]
        BY <1>2, <3>2
      <3>4. secrets[d].pw = 0 /\ Unowned # Absent
        BY <1>2, <2>1 DEF Credentials, Whole, Unowned, Absent
      <3>5. Whole'
        BY <3>1, <3>3, <3>4, Names DEF Credentials, Whole
      <3> QED BY <3>1, <3>3, <3>4, <3>5 DEF PwKept
    <2>2. CASE secrets[d].owner # Absent
      <3>1. secrets' = secrets
        BY <2>2 DEF CreateDatabaseSecret
      <3> QED BY <1>2, <2>2, <3>1 DEF Credentials, Whole, PwKept
    <2> QED BY <2>1, <2>2
  <1>4. \A e \in DB : RunLink(e)
    <2>1. pc'[d] = "secretPatch" /\ \A e \in DB \ {d} : pc'[e] = pc[e]
      BY <1>1, <1>2
    <2> QED BY <1>1, <1>3, <2>1 DEF RunLink
  <1>5. uids \leq uids'
    BY <1>1, <1>2
  <1> QED BY <1>1, <1>3, <1>4, <1>5, QuietLinks, ShootsStay, CredentialsKept

\* It is named once.
LEMMA PatchCredentials ==
    ASSUME IInv, IInv', Sharing, Safely, Credentials, NEW d \in DB, PatchDatabaseSecret(d)
    PROVE  Credentials'
  <1>1. /\ pc[d] = "secretPatch" /\ Exists(px[d]) /\ Goto(d, "sts")
        /\ my' = [my EXCEPT ![d].secret = d]
        /\ UNCHANGED <<cache, sts, pods, pvc, uids, secrets>>
    BY DEF PatchDatabaseSecret, shootVars, countVars
  <1>2. PICK o : o = IF px[d].secret = d THEN px[d] ELSE [px[d] EXCEPT !.secret = d, !.gen = @ + 1]
    OBVIOUS
  <1>3. px[d] \in Px /\ my[d] \in Px /\ my \in [DB -> Px] /\ d \in SecretNames
    BY Copy, Names DEF IInv, Reconciling, WorkOK
  <1>4. o \in Px /\ Same(o, px[d]) /\ o.secret = d
    <2>1. CASE px[d].secret = d
      BY <1>2, <1>3, <2>1 DEF Same
    <2>2. CASE px[d].secret # d
      <3> DEFINE n == [px[d] EXCEPT !.secret = d, !.gen = @ + 1]
      <3>1. n \in Px /\ Same(n, px[d])
        BY <1>3, SpecEdits
      <3>2. n.secret = d
        BY <1>3, EditsKeep
      <3>3. o = n
        BY <1>2, <2>2
      <3> HIDE DEF n
      <3> QED BY <3>1, <3>2, <3>3
    <2> QED BY <2>1, <2>2
  <1>5. SetPx(d, o)
    BY <1>2 DEF PatchDatabaseSecret
  <1>6. px'[d] = o
    BY <1>5 DEF SetPx, IInv, Reconciling, ObjOK
  <1>7. px[d].uid = my[d].uid /\ px[d].fin
    <2>1. "secretPatch" \in Held
      BY DEF Held, CreateLocs
    <2> QED BY <1>1, <2>1 DEF IInv, Reconciling, Incarnations, Incarnation, RunSeen
  <1>8. my[d].secret = NoSecret /\ secrets[d].pw # 0 /\ px[d].secret \in {NoSecret, d}
    <2>1. Linked(d)
      BY DEF Credentials
    <2>2. my[d].secret = NoSecret /\ secrets[d].pw # 0 /\ Good(d, my[d])
      BY <1>1, <2>1 DEF Linked
    <2> QED BY <1>1, <1>7, <2>2 DEF Good, Follows, Exists
  <1>9. ObjLink(d)
    BY <1>1, <1>4, <1>6, <1>8 DEF ObjLink, Exists, Same
  <1>10. o.del => o.uid \in 1..MaxUid
    <2>1. o.uid \in 0..MaxUid /\ o.uid # 0
      BY <1>1, <1>4, PxFields DEF Exists, Same
    <2> QED BY <2>1, ControllerAssumption DEF ControllerAssumption
  <1>11. \A e \in DB : ObjLink(e) /\ VersionLink(e)
    BY <1>1, <1>4, <1>5, <1>9, <1>10, PutLinks
  <1>12. my'[d].uid = px'[d].uid /\ my'[d].secret = px'[d].secret /\ \A e \in DB \ {d} : my'[e] = my[e]
    <2>1. my'[d] = [my[d] EXCEPT !.secret = d] /\ \A e \in DB \ {d} : my'[e] = my[e]
      BY <1>1, <1>3
    <2>2. my'[d].uid = my[d].uid /\ my'[d].secret = d
      BY <1>3, <2>1 DEF Px
    <2> QED BY <1>4, <1>6, <1>7, <2>1, <2>2 DEF Same
  <1>13. \A e \in DB : RunLink(e)
    BY <1>1, <1>12, GoLinks
  <1> QED BY <1>1, <1>11, <1>13, ShootsStay, CredentialsStay

\* The phase Provisioning.
LEMMA ProvisioningCredentials ==
    ASSUME IInv, IInv', Sharing, Safely, Credentials, NEW d \in DB, SetProvisioning(d)
    PROVE  Credentials'
  <1>1. /\ pc[d] = "provisioning" /\ Exists(px[d]) /\ SetPhase(d, "Provisioning", px[d].obsGen)
        /\ UNCHANGED <<cache, sts, pods, pvc, uids, secrets>>
    BY DEF SetProvisioning, shootVars, countVars
  <1>2. "Provisioning" \in Phases /\ px[d].obsGen \in Nat /\ my[d] \in Px /\ my \in [DB -> Px]
    BY Copy DEF Phases, IInv, Reconciling, WorkOK
  <1>3. \A e \in DB : ObjLink(e) /\ VersionLink(e)
    BY <1>1, <1>2, PhaseLinks
  <1>4. \A e \in DB : RunLink(e)
    <2> DEFINE o == [my[d] EXCEPT !.phase = "Provisioning", !.obsGen = px[d].obsGen,
                                  !.paused = px[d].paused, !.restored = px[d].restored,
                                  !.provisioned = px[d].provisioned]
    <2>1. o.uid = my[d].uid /\ o.secret = my[d].secret
      BY <1>2 DEF Px
    <2>2. \/ ReturnNil(d)
          \/ Goto(d, AfterPhase(o)) /\ my' = [my EXCEPT ![d] = o]
      BY DEF SetProvisioning
    <2>3. AfterPhase(o) # "secretPatch"
      BY DEF AfterPhase
    <2> HIDE DEF o
    <2>4. CASE ReturnNil(d)
      BY <2>4, EndLinks
    <2>5. CASE Goto(d, AfterPhase(o)) /\ my' = [my EXCEPT ![d] = o]
      <3>1. my'[d] = o /\ \A e \in DB \ {d} : my'[e] = my[e]
        BY <1>2, <2>5
      <3>2. PICK l : l = AfterPhase(o)
        OBVIOUS
      <3> QED BY <1>1, <2>1, <2>3, <2>5, <3>1, <3>2, GoLinks
    <2> QED BY <2>2, <2>4, <2>5
  <1> QED BY <1>1, <1>3, <1>4, ShootsStay, CredentialsStay

\* The StatefulSet.
LEMMA SetCredentials ==
    ASSUME IInv, IInv', Sharing, Safely, Credentials, NEW d \in DB, EnsureStatefulSet(d)
    PROVE  Credentials'
  <1>1. /\ pc[d] = "sts" /\ sts' = [sts EXCEPT ![d] = DesiredSts(d)]
        /\ UNCHANGED <<px, watch, cache, my, pods, pvc, uids, secrets>>
        /\ Goto(d, "app") \/ Goto(d, "pods")
    BY DEF EnsureStatefulSet, objVars, countVars
  <1>2. \A e \in DB : RunLink(e)
    BY <1>1, GoLinks
  <1>3. \A e \in DB : ShootLink(e)
    <2>1. sts'[d] = DesiredSts(d) /\ \A e \in DB \ {d} : sts'[e] = sts[e]
      BY <1>1 DEF IInv, Offshoots, ShootOK
    <2>2. DesiredSts(d).secret = my[d].secret
      BY DEF DesiredSts
    <2> QED BY <1>1, <2>1, <2>2 DEF ShootLink
  <1> QED BY <1>1, <1>2, <1>3, QuietLinks, CredentialsStay

\* All of create.
LEMMA CreateCredentials ==
    ASSUME IInv, IInv', Sharing, Safely, Credentials, NEW d \in DB, CreateStep(d)
    PROVE  Credentials'
  <1>1. CASE ValidatePerconaXtraDB(d)
    <2>1. PICK l \in {"return", "provisioning", "gvr"} : Continue(d, l)
      BY <1>1, AfterLocs DEF ValidatePerconaXtraDB
    <2>2. pc[d] # "idle" /\ UNCHANGED <<px, watch, cache, sts, pods, pvc, secrets, uids>>
      BY <1>1 DEF ValidatePerconaXtraDB, objVars, shootVars, countVars
    <2>3. \A e \in DB : RunLink(e)
      BY <2>1, <2>2, ContinueLinks
    <2> QED BY <2>2, <2>3, QuietLinks, ShootsStay, CredentialsStay
  <1>2. CASE EnsureOffshoot(d)
    <2>1. PICK l : Continue(d, l) /\ l \in {"svc", "secret", "return", "ready"}
      <3> DEFINE n == CASE pc[d] = "rbac" -> "svc"
                        [] pc[d] = "svc"  -> "secret"
                        [] OTHER          -> AfterApp(my[d])
      <3>1. Continue(d, n)
        BY <1>2 DEF EnsureOffshoot
      <3>2. n = "svc" \/ n = "secret" \/ n = AfterApp(my[d])
        OBVIOUS
      <3> HIDE DEF n
      <3> QED BY <3>1, <3>2, AfterLocs
    <2>2. pc[d] # "idle" /\ UNCHANGED <<px, watch, cache, sts, pods, pvc, secrets, uids>>
      BY <1>2 DEF EnsureOffshoot, objVars, countVars
    <2>3. \A e \in DB : RunLink(e)
      BY <2>1, <2>2, ContinueLinks
    <2> QED BY <2>2, <2>3, QuietLinks, ShootsStay, CredentialsStay
  <1>3. CASE UpgradeDatabaseSecret(d)
    <2>1. /\ pc[d] = "secret" /\ my[d].secret # NoSecret /\ Goto(d, "sts")
          /\ UNCHANGED <<px, watch, cache, my, sts, pods, pvc, uids>>
      BY <1>3 DEF UpgradeDatabaseSecret, objVars, countVars
    <2>2. my[d].secret \in SecretNames /\ secrets \in [SecretNames -> Stored]
      BY <2>1, Copy DEF IInv, Offshoots, ShootOK
    <2>3. secrets[my[d].secret].owner # Absent
      BY <2>1, <2>2 DEF Credentials, Whole, Linked, Good, Backed
    <2>4. secrets' = secrets
      BY <1>3, <2>2, <2>3 DEF UpgradeDatabaseSecret
    <2>5. \A e \in DB : RunLink(e)
      BY <2>1, GoLinks
    <2> QED BY <2>1, <2>4, <2>5, QuietLinks, ShootsStay, CredentialsStay
  <1>4. CASE CreateGoverningService(d) \/ CheckPodStatus(d) \/ CreateRejected(d)
    <2>1. /\ pc[d] # "idle" /\ \E l \in {"rbac", "app", "fail"} : Goto(d, l)
          /\ UNCHANGED <<px, watch, cache, my, sts, pods, pvc, secrets, uids>>
      BY <1>4 DEF CreateGoverningService, CheckPodStatus, CreateRejected, Rejected, objVars,
                  shootVars, countVars
    <2>2. \A e \in DB : RunLink(e)
      BY <2>1, GoLinks
    <2> QED BY <2>1, <2>2, QuietLinks, ShootsStay, CredentialsStay
  <1>5. CASE SetReady(d)
    <2>1. /\ Exists(px[d]) /\ SetPhase(d, "Ready", my[d].gen) /\ ReturnNil(d)
          /\ UNCHANGED <<cache, sts, pods, pvc, secrets, uids>>
      BY <1>5 DEF SetReady, shootVars, countVars
    <2>2. "Ready" \in Phases /\ my[d].gen \in Nat
      BY Copy DEF Phases
    <2> QED BY <2>1, <2>2, PhaseLinks, EndLinks, ShootsStay, CredentialsStay
  <1> QED BY <1>1, <1>2, <1>3, <1>4, <1>5, SecretCredentials, PatchCredentials,
             ProvisioningCredentials, SetCredentials DEF CreateStep

----------------------------------------------------------------------------
(* halt, terminate and failures *)

\* The set of d goes, and its pods.
LEMMA DropLinks ==
    ASSUME IInv, NEW d \in DB, DropSts(d), pvc' = pvc
    PROVE  \A e \in DB : ShootLink(e)
  <1>1. /\ sts'[d] = NoSts /\ \A e \in DB \ {d} : sts'[e] = sts[e]
        /\ pods'[d] \in {"none", "orphaned"} /\ \A e \in DB \ {d} : pods'[e] = pods[e]
    BY DEF IInv, Offshoots, ShootOK, DropSts
  <1> QED BY <1>1 DEF ShootLink, NoSts

\* All of halt.
LEMMA HaltCredentials ==
    ASSUME IInv, IInv', Sharing, Safely, Credentials, NEW d \in DB, HaltStep(d)
    PROVE  Credentials'
  <1>1. CASE Halt(d) \/ HaltDatabase(d) \/ WaitUntilPaused(d)
    <2>1. /\ pc[d] # "idle"
          /\ \E l \in {"haltApp", "fail", "haltSts", "haltSvcs", "waitPaused", "halted"} : Goto(d, l)
          /\ UNCHANGED <<px, watch, cache, my, sts, pods, pvc, secrets, uids>>
      BY <1>1 DEF Halt, HaltDatabase, WaitUntilPaused, objVars, shootVars, countVars
    <2>2. \A e \in DB : RunLink(e)
      BY <2>1, GoLinks
    <2> QED BY <2>1, <2>2, QuietLinks, ShootsStay, CredentialsStay
  <1>2. CASE HaltStatefulSet(d)
    <2>1. /\ pc[d] # "idle" /\ Goto(d, "haltRbac") /\ DropSts(d)
          /\ UNCHANGED <<px, watch, cache, my, pvc, secrets, uids>>
      BY <1>2 DEF HaltStatefulSet, objVars, countVars
    <2>2. \A e \in DB : RunLink(e)
      BY <2>1, GoLinks
    <2> QED BY <2>1, <2>2, QuietLinks, DropLinks, CredentialsStay
  <1>3. CASE SetHalted(d)
    <2>1. /\ Exists(px[d]) /\ SetPhase(d, "Halted", my[d].gen) /\ ReturnNil(d)
          /\ UNCHANGED <<cache, sts, pods, pvc, secrets, uids>>
      BY <1>3 DEF SetHalted, shootVars, countVars
    <2>2. "Halted" \in Phases /\ my[d].gen \in Nat
      BY Copy DEF Phases
    <2> QED BY <2>1, <2>2, PhaseLinks, EndLinks, ShootsStay, CredentialsStay
  <1> QED BY <1>1, <1>2, <1>3 DEF HaltStep

\* Owner references come and go without the password.
LEMMA StoredEdits ==
    ASSUME NEW o \in Stored, NEW u \in 0..MaxUid
    PROVE  /\ Released(o, u).pw = o.pw /\ Owned(o, u).pw = o.pw
           /\ Released(o, u).owner = Absent <=> o.owner = Absent
           /\ Owned(o, u).owner = Absent <=> o.owner = Absent
  BY OwnerFacts DEF Stored, Released, Owned, Absent, Unowned

\* The secrets, when terminate releases or takes them.
LEMMA SecretsEdited ==
    ASSUME IInv, Credentials, NEW d \in DB, NEW S,
           \/ secrets' = [s \in SecretNames |->
                            IF s \in S THEN Released(secrets[s], my[d].uid) ELSE secrets[s]]
           \/ secrets' = [s \in SecretNames |->
                            IF s \in S THEN Owned(secrets[s], my[d].uid) ELSE secrets[s]]
    PROVE  Whole' /\ PwKept
  <1>1. my[d].uid \in 0..MaxUid /\ \A s \in SecretNames : secrets[s] \in Stored
    BY Copy DEF IInv, Offshoots, ShootOK
  <1>2. ASSUME NEW s \in SecretNames
        PROVE  /\ secrets'[s].pw = secrets[s].pw
               /\ secrets'[s].owner = Absent <=> secrets[s].owner = Absent
    BY <1>1, StoredEdits
  <1> QED BY <1>2, Names DEF Credentials, Whole, PwKept

\* The claims, likewise.
LEMMA ClaimEdited ==
    ASSUME IInv, NEW d \in DB, UNCHANGED <<sts, pods>>,
           \/ pvc' = [pvc EXCEPT ![d] = Released(@, my[d].uid)]
           \/ pvc' = [pvc EXCEPT ![d] = Owned(@, my[d].uid)]
    PROVE  \A e \in DB : ShootLink(e)
  <1>1. my[d].uid \in 0..MaxUid /\ pvc[d] \in Stored /\ pvc \in [DB -> Stored]
    BY Copy DEF IInv, Offshoots, ShootOK
  <1>2. /\ pvc'[d] = Released(pvc[d], my[d].uid) \/ pvc'[d] = Owned(pvc[d], my[d].uid)
        /\ \A e \in DB \ {d} : pvc'[e] = pvc[e]
    BY <1>1
  <1>3. pvc'[d].pw = pvc[d].pw
    BY <1>1, <1>2, StoredEdits
  <1> QED BY <1>2, <1>3 DEF ShootLink

\* All of terminate.
LEMMA TerminateCredentials ==
    ASSUME IInv, IInv', Sharing, Safely, Credentials, NEW d \in DB, TerminateStep(d)
    PROVE  Credentials'
  <1>0. uids \leq uids
    BY DEF IInv, Offshoots, CountOK
  <1>1. CASE ReleasePvc(d) \/ OwnPvc(d)
    <2>1. /\ pc[d] # "idle" /\ \E l \in {"releaseSecret", "removeFinalizer"} : Goto(d, l)
          /\ UNCHANGED <<px, watch, cache, my, sts, pods, secrets, uids>>
      BY <1>1 DEF ReleasePvc, OwnPvc, objVars, countVars
    <2>2. \A e \in DB : RunLink(e)
      BY <2>1, GoLinks
    <2>3. \A e \in DB : ShootLink(e)
      BY <1>1, <2>1, ClaimEdited DEF ReleasePvc, OwnPvc
    <2> QED BY <2>1, <2>2, <2>3, QuietLinks, CredentialsStay
  <1>2. CASE ReleaseSecret(d) \/ WipeOutDatabase(d)
    <2>1. /\ pc[d] # "idle" /\ \E l \in {"ownPvc", "removeFinalizer"} : Goto(d, l)
          /\ UNCHANGED <<px, watch, cache, my, sts, pods, pvc, uids>>
      BY <1>2 DEF ReleaseSecret, WipeOutDatabase, objVars, countVars
    <2>2. \A e \in DB : RunLink(e)
      BY <2>1, GoLinks
    <2>3. Whole' /\ PwKept
      <3>1. CASE ReleaseSecret(d)
        <4>1. secrets' = [s \in SecretNames |-> IF s \in {my[d].secret}
                            THEN Released(secrets[s], my[d].uid) ELSE secrets[s]]
          BY <3>1 DEF ReleaseSecret
        <4> QED BY <4>1, SecretsEdited
      <3>2. CASE WipeOutDatabase(d)
        <4> DEFINE unused == {my[d].secret} \ (SecretsUsedByPeers(d) \cup {NoSecret})
        <4>1. secrets' = [s \in SecretNames |-> IF s \in unused
                            THEN Owned(secrets[s], my[d].uid) ELSE secrets[s]]
          BY <3>2 DEF WipeOutDatabase
        <4> HIDE DEF unused
        <4> QED BY <4>1, SecretsEdited
      <3> QED BY <1>2, <3>1, <3>2
    <2> QED BY <1>0, <2>1, <2>2, <2>3, QuietLinks, ShootsStay, CredentialsKept
  <1>3. CASE RemoveFinalizer(d)
    <2>1. /\ pc[d] = "removeFinalizer" /\ Exists(px[d]) /\ ReturnNil(d)
          /\ SetPx(d, IF px[d].del THEN NoPx ELSE [px[d] EXCEPT !.fin = FALSE])
          /\ UNCHANGED <<cache, sts, pods, pvc, secrets, uids>>
      BY <1>3 DEF RemoveFinalizer, shootVars, countVars
    <2>2. pc[d] \in TermLocs
      BY <2>1 DEF TermLocs
    <2>3. \A e \in DB : ObjLink(e) /\ VersionLink(e)
      <3>1. CASE px[d].del
        <4>1. SetPx(d, NoPx) /\ NoPx \in Px /\ NoPx.uid = 0 /\ ~NoPx.del /\ NoPx.secret = NoSecret
          BY <2>1, <3>1, NoPxFacts DEF NoPx
        <4>2. px'[d] = NoPx => ObjLink(d)
          BY <2>2, <4>1 DEF ObjLink
        <4> QED BY <2>1, <4>1, <4>2, PutLinks
      <3>2. CASE ~px[d].del
        <4>1. PICK o : o = [px[d] EXCEPT !.fin = FALSE]
          OBVIOUS
        <4>2. px[d] \in Px
          BY Copy
        <4>3. o \in Px /\ o.uid = px[d].uid /\ o.secret = px[d].secret
          BY <4>1, <4>2 DEF Px
        <4>4. SetPx(d, o)
          BY <2>1, <3>2, <4>1
        <4> QED BY <2>1, <2>2, <4>3, <4>4, SameLinks
      <3> QED BY <3>1, <3>2
    <2> QED BY <2>1, <2>3, EndLinks, ShootsStay, CredentialsStay
  <1>4. CASE TerminateRejected(d)
    <2>1. ReturnErr(d) /\ UNCHANGED <<px, watch, cache, sts, pods, pvc, secrets, uids>>
      BY <1>4 DEF TerminateRejected, objVars, shootVars, countVars
    <2> QED BY <2>1, EndLinks, QuietLinks, ShootsStay, CredentialsStay
  <1> QED BY <1>1, <1>2, <1>3, <1>4 DEF TerminateStep

\* Errors, and the report of a failure.
LEMMA ErrorCredentials ==
    ASSUME IInv, IInv', Sharing, Safely, Credentials, NEW d \in DB, pc[d] # "idle", Error(d)
    PROVE  Credentials'
  <1>1. UNCHANGED <<px, watch, cache, sts, pods, pvc, secrets, uids>>
    BY DEF Error, objVars, shootVars
  <1>2. ReturnNil(d) \/ ReturnErr(d) \/ (Goto(d, "fail") /\ my' = my)
    <2>1. CASE pc[d] = "validate"
      BY <2>1 DEF Error
    <2>2. CASE pc[d] # "validate" /\ pc[d] \in TermLocs \cup {"addFinalizer", "fail"}
      BY <2>2 DEF Error
    <2>3. CASE pc[d] # "validate" /\ pc[d] \notin TermLocs \cup {"addFinalizer", "fail"}
      BY <2>3 DEF Error
    <2> QED BY <2>1, <2>2, <2>3
  <1>3. \A e \in DB : RunLink(e)
    <2>1. CASE ReturnNil(d) \/ ReturnErr(d)
      BY <2>1, EndLinks
    <2>2. CASE Goto(d, "fail") /\ my' = my
      BY <2>2, GoLinks
    <2> QED BY <1>2, <2>1, <2>2
  <1> QED BY <1>1, <1>3, QuietLinks, ShootsStay, CredentialsStay

\* Reporting a failure writes the phase only.
LEMMA ReportCredentials ==
    ASSUME IInv, IInv', Sharing, Safely, Credentials, NEW d \in DB, PushFailureEvent(d)
    PROVE  Credentials'
  <1>1. /\ Exists(px[d]) /\ SetPhase(d, "NotReady", my[d].gen) /\ ReturnErr(d)
        /\ UNCHANGED <<cache, sts, pods, pvc, secrets, uids>>
    BY DEF PushFailureEvent, shootVars, countVars
  <1>2. "NotReady" \in Phases /\ my[d].gen \in Nat
    BY Copy DEF Phases
  <1> QED BY <1>1, <1>2, PhaseLinks, EndLinks, ShootsStay, CredentialsStay

\* The process starts again.
LEMMA StartCredentials ==
    ASSUME IInv, IInv', Sharing, Safely, Credentials, StartOperator, uids' = uids
    PROVE  Credentials'
  <1>1. /\ cache' = px /\ watch' = << >> /\ px' = px /\ pc' = [d \in DB |-> "idle"]
        /\ UNCHANGED <<sts, pods, pvc, secrets>>
    BY DEF StartOperator, shootVars
  <1>2. \A e \in DB : ObjLink(e) /\ VersionLink(e)
    <2>1. \A e \in DB : Positions(e)' = {0} /\ Version(e, 0)' = px'[e]
      BY <1>1 DEF Positions, Version
    <2> QED BY <1>1, <2>1 DEF ObjLink, VersionLink
  <1>3. \A e \in DB : RunLink(e)
    BY <1>1 DEF RunLink
  <1> QED BY <1>1, <1>2, <1>3, ShootsStay, CredentialsStay

----------------------------------------------------------------------------
(* The informer, the start of a run, users and Kubernetes *)

\* A run begins with the version of the store.
LEMMA BeginCredentials ==
    ASSUME IInv, IInv', Sharing, Safely, Credentials, NEW d \in DB, RunPerconaXtraDB(d)
    PROVE  Credentials'
  <1> DEFINE o == cache[d]
             l == CASE ~Exists(o)       -> "idle"
                    [] o.del /\ ~o.fin  -> "idle"
                    [] o.del /\ o.fin   -> TerminateLoc(o.policy)
                    [] OTHER            -> "addFinalizer"
  <1>1. /\ pc' = [pc EXCEPT ![d] = l] /\ my' = [my EXCEPT ![d] = IF l = "idle" THEN NoPx ELSE o]
        /\ UNCHANGED <<px, watch, cache, sts, pods, pvc, secrets, uids>>
    BY DEF RunPerconaXtraDB, Goto, objVars, shootVars, countVars
  <1>2. l # "secretPatch"
    <2>1. TerminateLoc(o.policy) # "secretPatch"
      BY TerminateLocs
    <2>2. l = "idle" \/ l = TerminateLoc(o.policy) \/ l = "addFinalizer"
      OBVIOUS
    <2> HIDE DEF l
    <2> QED BY <2>1, <2>2
  <1> HIDE DEF l
  <1>3. /\ pc'[d] = l /\ (l # "idle" => my'[d] = cache[d])
        /\ \A e \in DB \ {d} : pc'[e] = pc[e] /\ my'[e] = my[e]
    BY <1>1 DEF IInv, Reconciling, WorkOK
  <1>4. \A e \in DB : RunLink(e)
    BY <1>2, <1>3 DEF RunLink
  <1> QED BY <1>1, <1>4, QuietLinks, ShootsStay, CredentialsStay

\* The finalizer patch: the copy is kept, or is the reply.
LEMMA FinalizerCredentials ==
    ASSUME IInv, IInv', Sharing, Safely, Credentials, NEW d \in DB, AddFinalizer(d)
    PROVE  Credentials'
  <1>1. pc[d] = "addFinalizer" /\ UNCHANGED <<cache, sts, pods, pvc, secrets, uids>>
    BY DEF AddFinalizer, shootVars, countVars
  <1>2. PICK o : o = IF my[d].fin THEN my[d] ELSE [px[d] EXCEPT !.fin = TRUE]
    OBVIOUS
  <1>3. /\ IF my[d].fin THEN UNCHANGED objVars ELSE Exists(px[d]) /\ SetPx(d, o)
        /\ \/ ReturnNil(d)
           \/ /\ Goto(d, "halt") \/ Goto(d, "validate")
              /\ my' = [my EXCEPT ![d] = o]
    BY <1>2 DEF AddFinalizer
  <1>4. px[d] \in Px /\ my \in [DB -> Px] /\ px \in [DB -> Px]
    BY DEF IInv, Reconciling, ObjOK, WorkOK
  <1>5. ASSUME my'[d] = o, \A e \in DB \ {d} : my'[e] = my[e],
               \/ o.uid = my[d].uid /\ o.secret = my[d].secret
               \/ o.uid = px'[d].uid /\ o.secret = px'[d].secret,
               Goto(d, "halt") \/ Goto(d, "validate")
        PROVE  \A e \in DB : RunLink(e)
    BY <1>1, <1>5, GoLinks
  <1>6. my' = [my EXCEPT ![d] = o] => my'[d] = o /\ \A e \in DB \ {d} : my'[e] = my[e]
    BY <1>4
  <1>7. CASE my[d].fin
    <2>1. o = my[d] /\ UNCHANGED <<px, watch>>
      BY <1>2, <1>3, <1>7 DEF objVars
    <2>2. \A e \in DB : RunLink(e)
      BY <1>3, <1>5, <1>6, <2>1, EndLinks
    <2> QED BY <1>1, <2>1, <2>2, QuietLinks, ShootsStay, CredentialsStay
  <1>8. CASE ~my[d].fin
    <2>1. Exists(px[d]) /\ SetPx(d, o)
      BY <1>3, <1>8
    <2>2. o = [px[d] EXCEPT !.fin = TRUE]
      BY <1>2, <1>8
    <2>3. o \in Px /\ o.uid = px[d].uid /\ o.secret = px[d].secret /\ o.fin
      BY <1>4, <2>2 DEF Px
    <2>4. \A e \in DB : ObjLink(e) /\ VersionLink(e)
      BY <1>1, <2>1, <2>3, SameLinks
    <2>5. px'[d] = o
      BY <1>4, <2>1 DEF SetPx
    <2>6. \A e \in DB : RunLink(e)
      BY <1>3, <1>5, <1>6, <2>5, EndLinks
    <2> QED BY <1>1, <2>4, <2>6, ShootsStay, CredentialsStay
  <1> QED BY <1>7, <1>8

\* Delivery makes no version.
LEMMA DeliverCredentials ==
    ASSUME IInv, IInv', Sharing, Safely, Credentials, Deliver
    PROVE  Credentials'
  <1>1. UNCHANGED <<px, pc, my, sts, pods, pvc, secrets, uids>>
    BY DEF Deliver, shootVars, countVars
  <1>2. \A e \in DB : ObjLink(e) /\ VersionLink(e)
    <2>1. ObjOK /\ WorkOK
      BY DEF IInv, Reconciling
    <2>2. ASSUME NEW e \in DB PROVE VersionLink(e)
      BY <2>1, Delivered DEF VersionLink
    <2> QED BY <1>1, <2>2 DEF ObjLink
  <1> QED BY <1>1, <1>2, IdleLinks, ShootsStay, CredentialsStay

\* Users: a new object names no secret of its own, an edit leaves the name alone.
LEMMA UserCredentials ==
    ASSUME IInv, IInv', Sharing, Safely, Credentials, NEW d \in DB, UserStep(d)
    PROVE  Credentials'
  <1>1. UNCHANGED <<cache, pc, my, sts, pods, pvc, secrets>>
    BY DEF UserStep, CreatePx, Edit, EditHalt, EditResume, EditPolicy, EditSpec, EditPaused,
           EditProvisioned, DeletePx, CreateRestoreSession, workVars, shootVars
  <1>2. (\A e \in DB : RunLink(e)) /\ (\A e \in DB : ShootLink(e)) /\ Whole' /\ PwKept
    BY <1>1, IdleLinks, ShootsStay DEF Credentials, Whole, PwKept
  <1>3. uids \in Nat
    BY ControllerAssumption DEF IInv, Offshoots, CountOK, ControllerAssumption
  <1>4. px[d] \in Px
    BY Copy
  <1>5. CASE CreatePx(d)
    <2>1. PICK p \in Policies, s \in UserSecrets \cup {NoSecret} :
             SetPx(d, [NoPx EXCEPT !.uid = uids', !.gen = 1, !.policy = p, !.secret = s])
      BY <1>5 DEF CreatePx
    <2>2. ~Exists(px[d]) /\ uids' = uids + 1 /\ uids < MaxUid
      BY <1>5 DEF CreatePx
    <2>3. PICK u \in 1..MaxUid : u = uids' /\ ~(u \leq uids) /\ uids \leq uids'
      BY <1>3, <2>2, ControllerAssumption DEF ControllerAssumption
    <2> DEFINE o == [NoPx EXCEPT !.uid = u, !.gen = 1, !.policy = p, !.secret = s]
    <2>5. p \in AllPolicies /\ s \in SecretNames \cup {NoSecret}
      BY ControllerAssumption DEF ControllerAssumption, SecretNames
    <2>6. o \in Px /\ o.uid = u /\ ~o.del /\ o.secret = s
      <3>1. o \in Px /\ o.uid = u /\ ~o.del
        BY <2>5, NewPx
      <3> QED BY <3>1 DEF NoPx
    <2>7. SetPx(d, o)
      BY <2>1, <2>3
    <2> HIDE DEF o
    <2>8. px'[d] = o => ObjLink(d)
      BY <1>3, <2>2, <2>3, <2>6 DEF ObjLink, Exists
    <2>9. \A e \in DB : ObjLink(e) /\ VersionLink(e)
      BY <1>1, <2>6, <2>7, <2>8, PutLinks
    <2> QED BY <1>2, <2>3, <2>9, CredentialsKept
  <1>6. CASE EditHalt(d) \/ EditResume(d) \/ EditPolicy(d) \/ EditSpec(d) \/ EditPaused(d)
               \/ EditProvisioned(d)
    <2>1. Exists(px[d]) /\ uids' = uids
      BY <1>6 DEF EditHalt, EditResume, EditPolicy, EditSpec, EditPaused, EditProvisioned, Edit
    <2>2. PICK o \in Px : SetPx(d, o) /\ Same(o, px[d]) /\ o.secret = px[d].secret
      BY <1>6, EditForms
    <2>3. \A e \in DB : ObjLink(e) /\ VersionLink(e)
      BY <1>1, <2>1, <2>2, SameLinks DEF Same
    <2> QED BY <1>1, <1>2, <2>1, <2>3, CredentialsStay
  <1>7. CASE DeletePx(d)
    <2>1. /\ Exists(px[d]) /\ uids' = uids
          /\ SetPx(d, IF px[d].fin THEN [px[d] EXCEPT !.del = TRUE, !.gen = @ + 1] ELSE NoPx)
      BY <1>7 DEF DeletePx, countVars
    <2>2. \A e \in DB : ObjLink(e) /\ VersionLink(e)
      <3>1. CASE px[d].fin
        <4> DEFINE o == [px[d] EXCEPT !.del = TRUE, !.gen = @ + 1]
        <4>1. o \in Px /\ o.uid = px[d].uid /\ o.fin = px[d].fin /\ o.secret = px[d].secret
          BY <1>4, LifeEdits, EditsKeep
        <4>2. SetPx(d, o)
          BY <2>1, <3>1
        <4> HIDE DEF o
        <4> QED BY <1>1, <2>1, <4>1, <4>2, SameLinks
      <3>2. CASE ~px[d].fin
        <4>1. SetPx(d, NoPx) /\ NoPx \in Px /\ NoPx.uid = 0 /\ ~NoPx.del /\ NoPx.secret = NoSecret
          BY <2>1, <3>2, NoPxFacts DEF NoPx
        <4>2. px'[d] = NoPx => ObjLink(d)
          BY <3>2, <4>1 DEF ObjLink
        <4> QED BY <1>1, <4>1, <4>2, PutLinks
      <3> QED BY <3>1, <3>2
    <2> QED BY <1>1, <1>2, <2>1, <2>2, CredentialsStay
  <1>8. CASE CreateRestoreSession(d)
    <2>1. UNCHANGED <<px, watch, uids>>
      BY <1>8 DEF CreateRestoreSession, objVars, countVars
    <2> QED BY <1>1, <1>2, <2>1, QuietLinks, CredentialsStay
  <1> QED BY <1>5, <1>6, <1>7, <1>8 DEF UserStep

\* Pods start with the password of the secret of their set.
LEMMA KubernetesCredentials ==
    ASSUME IInv, IInv', Sharing, Safely, Credentials, NEW d \in DB, KubernetesStep(d)
    PROVE  Credentials'
  <1>1. UNCHANGED <<px, watch, cache, pc, my, secrets, uids>>
    BY DEF KubernetesStep, CreatePods, StartPods, DeletePods, CollectOffshoot, CollectSts,
           CollectPvc, objVars, workVars, countVars
  <1>2. pods \in [DB -> {"none", "starting", "running", "orphaned"}] /\ pvc \in [DB -> Stored]
    BY DEF IInv, Offshoots, ShootOK
  <1>3. \A e \in DB : ShootLink(e)
    <2>1. CASE CreatePods(d)
      <3>1. /\ sts' = sts /\ pods[d] = "none" /\ pods'[d] = "starting"
            /\ pvc'[d] = IF pvc[d].owner = Absent THEN [owner |-> Unowned, pw |-> 0] ELSE pvc[d]
            /\ \A e \in DB \ {d} : pods'[e] = pods[e] /\ pvc'[e] = pvc[e]
        BY <1>2, <2>1 DEF CreatePods
      <3>2. pvc'[d].pw = pvc[d].pw \/ pvc'[d].pw = 0
        BY <3>1
      <3> QED BY <3>1, <3>2 DEF ShootLink
    <2>2. CASE StartPods(d)
      <3>1. /\ sts' = sts /\ pods[d] = "starting" /\ secrets[sts[d].secret].pw # 0
            /\ pods' = [pods EXCEPT ![d] = "running"]
            /\ pvc' = [pvc EXCEPT ![d].pw = IF @ = 0 THEN secrets[sts[d].secret].pw ELSE @]
        BY <2>2 DEF StartPods
      <3>2. /\ pvc'[d] = [pvc[d] EXCEPT !.pw = IF @ = 0 THEN secrets[sts[d].secret].pw ELSE @]
            /\ \A e \in DB \ {d} : pods'[e] = pods[e] /\ pvc'[e] = pvc[e]
        BY <1>2, <3>1
      <3>3. pvc[d] \in Stored
        BY <1>2
      <3>4. /\ pvc'[d].pw # 0
            /\ pvc'[d].pw = pvc[d].pw \/ pvc'[d].pw = secrets[sts[d].secret].pw
        BY <3>1, <3>2, <3>3 DEF Stored
      <3>5. sts[d].owner # Absent
        BY <3>1 DEF IInv, Offshoots, SecretNamed
      <3> QED BY <3>1, <3>2, <3>4, <3>5 DEF ShootLink
    <2>3. CASE DeletePods(d)
      <3>1. /\ sts' = sts /\ pvc' = pvc /\ pods'[d] = "none"
            /\ \A e \in DB \ {d} : pods'[e] = pods[e]
        BY <1>2, <2>3 DEF DeletePods
      <3> QED BY <3>1 DEF ShootLink
    <2>4. CASE CollectSts(d)
      BY <2>4, DropLinks DEF CollectSts
    <2>5. CASE CollectPvc(d)
      <3>1. /\ sts' = sts /\ pods' = pods /\ pods[d] = "none" /\ pvc'[d] = NoStored
            /\ \A e \in DB \ {d} : pvc'[e] = pvc[e]
        BY <1>2, <2>5 DEF CollectPvc
      <3>2. pvc'[d].pw = 0
        BY <3>1 DEF NoStored
      <3> QED BY <3>1, <3>2 DEF ShootLink
    <2>6. CASE \E k \in Kinds : CollectOffshoot(d, k)
      BY <2>6, ShootsStay DEF CollectOffshoot
    <2> QED BY <2>1, <2>2, <2>3, <2>4, <2>5, <2>6 DEF KubernetesStep
  <1> QED BY <1>1, <1>3, QuietLinks, IdleLinks, CredentialsStay

\* Without a wipe-out no secret has an owner that could be gone.
LEMMA CollectCredentials ==
    ASSUME IInv, Safely, NEW s \in SecretNames, CollectSecret(s)
    PROVE  FALSE
  <1>1. secrets[s].owner \in 1..MaxUid
    BY DEF CollectSecret, Dangling
  <1> QED BY <1>1 DEF IInv, Offshoots, OwnersAsked, Safely, NoneWipedOut

\* Restores write a condition.
LEMMA StashCredentials ==
    ASSUME IInv, IInv', Sharing, Safely, Credentials, NEW d \in DB, StashStep(d)
    PROVE  Credentials'
  <1>1. UNCHANGED <<cache, pc, my, sts, pods, pvc, secrets, uids>>
    BY DEF StashStep, RunRestore, RetryRestore, ProcessRestoreSession, workVars, shootVars, countVars
  <1>2. \A e \in DB : ObjLink(e) /\ VersionLink(e)
    <2>1. CASE RunRestore(d) \/ RetryRestore(d)
      BY <1>1, <2>1, QuietLinks DEF RunRestore, RetryRestore, objVars
    <2>2. CASE ProcessRestoreSession(d)
      <3>1. PICK b \in BOOLEAN : b = (restore[d] = "Succeeded")
        OBVIOUS
      <3>2. PICK o : o = [px[d] EXCEPT !.restored = b]
        OBVIOUS
      <3>3. px[d] \in Px
        BY Copy
      <3>4. o \in Px /\ o.uid = px[d].uid /\ o.secret = px[d].secret /\ o.fin = px[d].fin
        BY <3>2, <3>3 DEF Px
      <3>5. Exists(px[d]) /\ SetPx(d, o)
        BY <2>2, <3>1, <3>2 DEF ProcessRestoreSession
      <3> QED BY <1>1, <3>4, <3>5, SameLinks
    <2> QED BY <2>1, <2>2 DEF StashStep
  <1> QED BY <1>1, <1>2, IdleLinks, ShootsStay, CredentialsStay

----------------------------------------------------------------------------
(* The invariant *)

\* The invariant holds at the start, ...
LEMMA CredentialsInitial == Init => Credentials
  <1> SUFFICES ASSUME Init PROVE Credentials
    OBVIOUS
  <1>1. /\ watch = << >> /\ cache = px /\ px = [d \in DB |-> NoPx] /\ uids = 0
        /\ pc = [d \in DB |-> "idle"] /\ sts = [d \in DB |-> NoSts]
        /\ pods = [d \in DB |-> "none"] /\ pvc = [d \in DB |-> NoStored]
        /\ secrets = [s \in SecretNames |->
                        IF s \in DB THEN NoStored ELSE [owner |-> Unowned, pw |-> 1]]
    BY DEF Init
  <1>2. Whole
    <2>1. Absent # Unowned /\ NoStored.owner = Absent /\ NoStored.pw = 0
      BY DEF Absent, Unowned, NoStored
    <2> QED BY <1>1, <2>1, Names DEF Whole
  <1>3. ASSUME NEW e \in DB PROVE Linked(e) /\ Initialised(e)
    <2>1. px[e].uid = 0 /\ px[e].secret = NoSecret /\ pc[e] = "idle" /\ sts[e].owner = Absent
          /\ pvc[e].pw = 0 /\ pods[e] = "none"
      BY <1>1 DEF NoPx, NoSts, NoStored
    <2>2. Positions(e) = {0} /\ Version(e, 0) = px[e]
      BY <1>1 DEF Positions, Version
    <2> QED BY <1>1, <2>1, <2>2 DEF Linked, Initialised, Good, Backed, Follows
  <1> QED BY <1>2, <1>3 DEF Credentials

\* ... every step keeps it, ...
LEMMA CredentialsInductive ==
    ASSUME IInv, IInv', Sharing, NoneWipedOut => Credentials, [Next]_vars, NoneWipedOut'
    PROVE  Credentials'
  <1>1. Safely /\ Credentials
    BY SafeBefore DEF Safely
  <1>2. CASE Deliver
    BY <1>1, <1>2, DeliverCredentials
  <1>3. ASSUME NEW d \in DB, Resync(d) PROVE Credentials'
    <2>1. UNCHANGED <<px, watch, cache, pc, my, sts, pods, pvc, secrets, uids>>
      BY <1>3 DEF Resync, objVars, shootVars, countVars
    <2> QED BY <1>1, <2>1, QuietLinks, IdleLinks, ShootsStay, CredentialsStay
  <1>4. ASSUME NEW d \in DB, WorkerStep(d) PROVE Credentials'
    <2>1. CASE NotFound(d)
      <3>1. pc[d] # "idle" /\ Error(d)
        BY <2>1 DEF NotFound, ObjectLocs
      <3> QED BY <1>1, <3>1, ErrorCredentials
    <2> QED BY <1>1, <1>4, <2>1, FinalizerCredentials, CreateCredentials, HaltCredentials,
               TerminateCredentials, ReportCredentials DEF WorkerStep
  <1>5. ASSUME NEW d \in DB, FaultStep(d) PROVE Credentials'
    <2>1. CASE CallFails(d)
      <3>1. pc[d] # "idle" /\ Error(d)
        BY <2>1 DEF CallFails, Silent
      <3> QED BY <1>1, <3>1, ErrorCredentials
    <2>2. CASE PushFailurePanics(d)
      BY <1>1, <2>2, StartCredentials DEF PushFailurePanics
    <2> QED BY <1>5, <2>1, <2>2 DEF FaultStep
  <1>6. CASE Crash
    BY <1>1, <1>6, StartCredentials DEF Crash
  <1>7. CASE UNCHANGED vars
    <2>1. UNCHANGED <<px, watch, cache, pc, my, sts, pods, pvc, secrets, uids>>
      BY <1>7 DEF vars, objVars, workVars, shootVars, countVars
    <2> QED BY <1>1, <2>1, QuietLinks, IdleLinks, ShootsStay, CredentialsStay
  <1> QED BY <1>1, <1>2, <1>3, <1>4, <1>5, <1>6, <1>7, BeginCredentials, UserCredentials,
             KubernetesCredentials, StashCredentials, CollectCredentials DEF Next

\* The invariant, as one formula.
SafeCredentials == NoneWipedOut => Credentials

\* ... so it holds until a wipe-out is asked for.
LEMMA CredentialsInvariance == Spec => []SafeCredentials
  <1>1. Init => SafeCredentials
    BY CredentialsInitial DEF SafeCredentials
  <1>2. IInv /\ IInv' /\ Sharing /\ SafeCredentials /\ [Next]_vars => SafeCredentials'
    BY CredentialsInductive DEF SafeCredentials
  <1> QED BY <1>1, <1>2, Invariance, SharingInvariance, PTL DEF Spec

(* The password that the data directory was initialised with is the one in   *)
(* the secret that clients are given (createDatabaseSecret, secret.go:37-84, *)
(* and the first start of the pods), whatever fails, stops or lags, as long  *)
(* as no wipe-out was asked for and, where users bring secrets of their own, *)
(* no database was deleted that had its finalizer.                           *)
THEOREM CredentialsAgree == Spec => [](NoneWipedOut /\ Lasting => CredentialsMatch)
  <1>1. IInv /\ Sharing /\ SafeCredentials => (NoneWipedOut /\ Lasting => CredentialsMatch)
    <2> SUFFICES ASSUME IInv, Sharing, Credentials, Lasting, NEW e \in DB, pods[e] = "running",
                        px[e].secret # NoSecret
                 PROVE  secrets[px[e].secret].pw = pvc[e].pw
      BY DEF SafeCredentials, CredentialsMatch
    <2>1. Initialised(e)
      BY DEF Credentials
    <2>2. px[e].secret \in UserSecrets \cup {NoSecret, e}
      BY DEF Sharing, Seen, SecretsNamed
    <2> QED BY <2>1, <2>2 DEF Initialised, Key
  <1> QED BY <1>1, CredentialsInvariance, Invariance, SharingInvariance, PTL
=============================================================================
