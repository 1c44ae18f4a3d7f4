----------------------------- MODULE ReadyProofs -----------------------------
(***************************************************************************)
(* Proofs about Controller: a database that is reported Ready for its       *)
(* present spec, and on which the operator has nothing left to do, has the  *)
(* StatefulSet of exactly this spec and all that goes with it.              *)
(*                                                                          *)
(* Validation alone ends a run with nil although it has done nothing: when  *)
(* one of its calls fails, and when the secret is gone.  The theorems       *)
(* exclude both (SoundValidation, NoneWipedOut) and nothing else: other     *)
(* calls fail up to the retries of a key, operators stop, copies are stale, *)
(* databases are halted, resumed, paused and restored.                      *)
(*                                                                          *)
(* The argument: a copy with the generation of the live object has its      *)
(* spec (Agrees), and a run from any other copy, which may take offshoots   *)
(* away or change them after the report, has a wake-up behind it            *)
(* (Superseded); so has a run that returns early because it waits           *)
(* (Waiting).  The run that follows does the work in order (Built) before   *)
(* it reports, or fails and is retried (Returning).                         *)
(***************************************************************************)
EXTENDS HaltProofs, CredentialsProofs

\* The operator says that it has applied the present spec.
ReportedReady(o) == Exists(o) /\ ~o.del /\ ~o.halted /\ o.phase = "Ready" /\ o.obsGen = o.gen

\* A version of the live object o with its generation has its spec; what was
\* provisioned or restored stays so.
Agrees(v, o) ==
    o.uid # 0 /\ v.uid = o.uid =>
        /\ v.gen = o.gen => v.rev = o.rev /\ v.secret = o.secret /\ v.halted = o.halted
        /\ (v.restored => o.restored) /\ (v.provisioned => o.provisioned)

\* A run that has read the object with its finalizer.
Started(d) == pc[d] \in Held \/ (pc[d] = "addFinalizer" /\ my[d].fin)

Faithful(d) ==
    /\ \A i \in Positions(d) : Agrees(Version(d, i), px[d])
    /\ Started(d) => Agrees(my[d], px[d])
    /\ px[d].restored => restore[d] = "Succeeded"

\* After a run on an older spec there will be another one.
Superseded(d) == Started(d) /\ my[d].gen # px[d].gen => Newer(d)

\* ... and after one that returns because it waits.
Waits(o)  == o.paused \/ AwaitsRestore(o)
Roused(d) == Newer(d) \/ Waits(cache[d])

Waiting(d) ==
    ReportedReady(px[d]) =>
        /\ ~AwaitsRestore(px[d])
        /\ Started(d) /\ AwaitsRestore(my[d]) => Roused(d)

\* create has made what comes before its location; halt has been asked for.
Built(d) ==
    LET u == my[d].uid IN
    /\ pc[d] \in {"svc", "secret", "secretPatch", "sts", "pods", "app", "ready"} =>
          res[d]["rbac"] = u /\ (NoneDeleted => res[d]["gvr"] # Absent)
    /\ pc[d] = "rbac" => (NoneDeleted => res[d]["gvr"] # Absent)
    /\ pc[d] \in {"secret", "secretPatch", "sts", "pods", "app", "ready"} => res[d]["svc"] = u
    /\ pc[d] \in {"pods", "app", "ready"} =>
          sts[d].owner = u /\ sts[d].rev = my[d].rev /\ sts[d].secret = my[d].secret
    /\ pc[d] = "ready" => res[d]["app"] = u
    /\ pc[d] \in {"gvr", "rbac", "svc", "secret", "secretPatch", "sts", "pods", "app"} =>
          ~(IsCluster /\ AwaitsRestore(my[d]))
    /\ pc[d] = "ready" => ~AwaitsRestore(my[d])
    /\ pc[d] \in HaltLocs => my[d].halted

\* The present spec is in place.
Applied(d) ==
    /\ sts[d].owner = px[d].uid /\ sts[d].rev = px[d].rev /\ sts[d].secret = px[d].secret
    /\ \A k \in Kinds \ {"gvr"} : res[d][k] = px[d].uid
    /\ NoneDeleted => res[d]["gvr"] # Absent

\* What is reported is in place, or a run is to come or under way.
Applying == CreateLocs \cup {"addFinalizer", "fail"}

Returning(d) ==
    ReportedReady(px[d]) =>
        /\ Applied(d) \/ Roused(d) \/ pc[d] \in Applying
        /\ failures[d] \leq faults

\* A governing service belongs to the live object, while nothing is deleted.
Governed(d) ==
    NoneDeleted /\ res[d]["gvr"] # Absent =>
        px[d].uid # 0 /\ px[d].fin /\ res[d]["gvr"] = px[d].uid

\* The invariant, for one database and for all.
Readied(d) ==
    Faithful(d) /\ Superseded(d) /\ Waiting(d) /\ Built(d) /\ Returning(d) /\ Governed(d)

ReadyInv == \A d \in DB : Readied(d)

\* No call of validatePerconaXtraDB fails.
SoundValidation == \A d \in DB : pc[d] = "validate" => ~CallFails(d)

----------------------------------------------------------------------------
(* What a step may do to the database e.                                     *)

\* Its object stays, gets another version, or goes or comes.
Moved(e) ==
    \/ px'[e] = px[e]
    \/ /\ Grown(px[e], px'[e])
       /\ (px[e].restored => px'[e].restored) /\ (px[e].provisioned => px'[e].provisioned)
       /\ px'[e].restored => px[e].restored \/ restore[e] = "Succeeded"
    \/ Fresh(px'[e]) /\ (px[e].fin => pc[e] \in TermLocs)

\* Wake-ups stay, and every change of the spec makes one.
Woken(e) ==
    px'[e].fin => /\ Newer(e) \/ ~Alike(px[e], px'[e]) => Newer(e)'
                  /\ Waits(cache[e]) => Roused(e)'

\* A run keeps its copy up to what create writes into it, or takes the reply.
Copied(e) ==
    Started(e)' =>
        \/ my'[e] = px'[e]
        \/ /\ Started(e) /\ my'[e].uid = my[e].uid /\ my'[e].gen = my[e].gen
           /\ my'[e].rev = my[e].rev /\ my'[e].halted = my[e].halted
           /\ my'[e].gen = px'[e].gen => my'[e].secret \in {my[e].secret, px'[e].secret}
           /\ my'[e].restored => my[e].restored \/ px'[e].restored
           /\ my'[e].provisioned => my[e].provisioned \/ px'[e].provisioned
           /\ ReportedReady(px'[e]) /\ AwaitsRestore(my'[e]) => AwaitsRestore(my[e])

\* A report stays, or is new, and what it says is so or will be.
Upheld(e) ==
    ReportedReady(px'[e]) =>
        /\ \/ /\ ReportedReady(px[e])
              /\ \/ failures'[e] \leq failures[e]
                 \/ failures'[e] = failures[e] + 1 /\ faults' = faults + 1
           \/ failures'[e] = 0 /\ ~AwaitsRestore(px'[e]) /\ ~Started(e)'
        /\ Applied(e)' \/ Roused(e)' \/ pc'[e] \in Applying

\* The governing service stays, goes, or is made for the live object.
Governs(e) ==
    \/ res'[e]["gvr"] \in {res[e]["gvr"], Absent}
    \/ res'[e]["gvr"] = px'[e].uid /\ px'[e].uid # 0 /\ px'[e].fin

RestoreKept == \A e \in DB : restore[e] = "Succeeded" => restore'[e] = "Succeeded"

\* What is known before a step, and that deletions are not taken back.
Context ==
    /\ IInv /\ IInv' /\ UidsFresh /\ HaltInv /\ Credentials /\ ReadyInv
    /\ NoneDeleted' => NoneDeleted

\* A reported object has its finalizer.
LEMMA ReadyHeld ==
    ASSUME NEW o \in Px, Kept(o), ReportedReady(o)
    PROVE  o.fin /\ ~o.del /\ o.uid # 0 /\ ~o.halted
  <1>1. o.uid # 0 /\ ~o.del /\ o.obsGen = o.gen /\ ~o.halted /\ o.gen \in Nat
    BY PxFields DEF ReportedReady, Exists
  <1>2. 1 \leq o.gen /\ (~o.fin => o.obsGen = 0)
    BY <1>1 DEF Kept
  <1> QED BY <1>1, <1>2

\* A version that says what the old one said reports nothing new.
LEMMA RetoldReady ==
    ASSUME NEW p, NEW o, Grown(p, o), Retold(p, o), ReportedReady(o)
    PROVE  ReportedReady(p)
  BY DEF Grown, Retold, Loud, Alike, ReportedReady, Exists

\* What is reported after a step is the object of before, with its spec.
LEMMA ReadySame ==
    ASSUME IInv, IInv', NEW e \in DB, Order(e), Moved(e), ReportedReady(px'[e])
    PROVE  /\ px'[e].uid = px[e].uid /\ px'[e].gen = px[e].gen /\ px'[e].rev = px[e].rev
           /\ px'[e].secret = px[e].secret /\ px'[e].halted = px[e].halted
           /\ px'[e].fin /\ px'[e].uid # 0 /\ Alike(px[e], px'[e])
           /\ px[e].restored => px'[e].restored
           /\ px[e].provisioned => px'[e].provisioned
  <1>1. px[e] \in Px /\ px'[e] \in Px /\ Kept(px[e])
    BY Copy DEF IInv, Reconciling, ObjOK, Order
  <1>2. ~Fresh(px'[e])
    BY DEF Fresh, Loud, ReportedReady
  <1>3. CASE px'[e] = px[e]
    BY <1>1, <1>3, ReadyHeld DEF Alike
  <1>4. CASE /\ Grown(px[e], px'[e])
             /\ (px[e].restored => px'[e].restored) /\ (px[e].provisioned => px'[e].provisioned)
    <2>1. Alike(px[e], px'[e]) /\ Kept(px'[e])
      BY <1>4 DEF Grown, Loud, ReportedReady
    <2>2. px'[e].fin /\ px'[e].uid # 0
      BY <1>1, <2>1, ReadyHeld
    <2> QED BY <1>4, <2>1, <2>2 DEF Grown, Alike
  <1> QED BY <1>2, <1>3, <1>4 DEF Moved

\* A version that is not ahead of the object agrees with what becomes of it.
LEMMA AgreesKept ==
    ASSUME IInv, IInv', NEW e \in DB, Moved(e), NEW v \in Px, Agrees(v, px[e]), v.uid \leq uids,
           px[e].uid # 0 /\ v.uid = px[e].uid => v.gen \leq px[e].gen
    PROVE  Agrees(v, px'[e])
  <1>1. px[e].gen \in Nat /\ px'[e].gen \in Nat /\ v.gen \in Nat
    <2>1. px[e] \in Px /\ px'[e] \in Px
      BY Copy DEF IInv, Reconciling, ObjOK
    <2> QED BY <2>1, PxFields
  <1>2. CASE px'[e] = px[e]
    BY <1>2
  <1>3. CASE Grown(px[e], px'[e]) /\ (px[e].restored => px'[e].restored)
             /\ (px[e].provisioned => px'[e].provisioned)
    <2>1. px[e].uid # 0 /\ px'[e].uid = px[e].uid /\ px[e].gen \leq px'[e].gen
      BY <1>3 DEF Grown
    <2>2. ASSUME v.uid = px[e].uid, v.gen = px'[e].gen
          PROVE  v.rev = px'[e].rev /\ v.secret = px'[e].secret /\ v.halted = px'[e].halted
      <3>1. v.gen = px[e].gen /\ px'[e].gen = px[e].gen
        BY <1>1, <2>1, <2>2
      <3> QED BY <1>3, <2>1, <2>2, <3>1 DEF Grown, Agrees
    <2> QED BY <1>3, <2>1, <2>2 DEF Agrees
  <1>4. CASE Fresh(px'[e])
    BY <1>4 DEF Fresh, Agrees
  <1> QED BY <1>2, <1>3, <1>4 DEF Moved

\* Versions and copies agree with the object after a step.
LEMMA FaithfulKept ==
    ASSUME IInv, IInv', UidsFresh, NEW e \in DB, Order(e), CopyBehind(e), Faithful(e), Moved(e),
           VersionLink(e), Copied(e), RestoreKept
    PROVE  Faithful(e)'
  <1>0. px[e] \in Px /\ my[e] \in Px
    BY Copy
  <1>1. ASSUME NEW i \in Positions(e)' PROVE Agrees(Version(e, i)', px'[e])
    <2>1. CASE Version(e, i)' = px'[e]
      BY <2>1 DEF Agrees
    <2>2. CASE \E j \in Positions(e) : Version(e, i)' = Version(e, j)
      <3>1. PICK j \in Positions(e) : Version(e, i)' = Version(e, j)
        BY <2>2
      <3>2. PICK v \in Px : v = Version(e, j)
        BY VersionIsPx
      <3>3. /\ Agrees(v, px[e]) /\ v.uid \leq uids
            /\ px[e].uid # 0 /\ v.uid = px[e].uid => v.gen \leq px[e].gen
        BY <3>2 DEF Faithful, UidsFresh, Order, Behind, Below
      <3> QED BY <3>1, <3>2, <3>3, AgreesKept
    <2> QED BY <2>1, <2>2 DEF VersionLink
  <1>2. ASSUME Started(e)' PROVE Agrees(my'[e], px'[e])
    <2>1. CASE my'[e] = px'[e]
      BY <2>1 DEF Agrees
    <2>2. CASE my'[e] # px'[e]
      <3>1. /\ Started(e) /\ my'[e].uid = my[e].uid /\ my'[e].gen = my[e].gen
            /\ my'[e].rev = my[e].rev /\ my'[e].halted = my[e].halted
            /\ my'[e].gen = px'[e].gen => my'[e].secret \in {my[e].secret, px'[e].secret}
            /\ my'[e].restored => my[e].restored \/ px'[e].restored
            /\ my'[e].provisioned => my[e].provisioned \/ px'[e].provisioned
        BY <1>2, <2>2 DEF Copied
      <3>2. my[e].uid = px[e].uid /\ my[e].gen \leq px[e].gen
        BY <3>1, RunHeld DEF Started, CopyBehind
      <3>3. px[e].uid \leq uids
        BY DEF UidsFresh
      <3>4. Agrees(my[e], px'[e])
        BY <1>0, <3>1, <3>2, <3>3, AgreesKept DEF Faithful
      <3> QED BY <3>1, <3>4 DEF Agrees
    <2> QED BY <2>1, <2>2
  <1>3. px'[e].restored => restore'[e] = "Succeeded"
    BY DEF Faithful, Moved, Fresh, RestoreKept
  <1> QED BY <1>1, <1>2, <1>3 DEF Faithful

\* After a run on an older spec there is still another one to come, ...
LEMMA SupersededKept ==
    ASSUME IInv, IInv', NEW e \in DB, Superseded(e), Woken(e), Copied(e)
    PROVE  Superseded(e)'
  <1> SUFFICES ASSUME Started(e)', my'[e].gen # px'[e].gen PROVE Newer(e)'
    BY DEF Superseded
  <1>1. px'[e].fin
    BY DEF Started, IInv, Reconciling, Incarnations, Incarnation, RunSeen
  <1>2. Started(e) /\ my'[e].gen = my[e].gen
    BY DEF Copied
  <1>3. CASE my[e].gen # px[e].gen
    BY <1>1, <1>2, <1>3 DEF Superseded, Woken
  <1>4. CASE my[e].gen = px[e].gen
    BY <1>1, <1>2, <1>4 DEF Woken, Alike
  <1> QED BY <1>3, <1>4

\* ... and so after one that waits.
LEMMA WaitingKept ==
    ASSUME IInv, IInv', NEW e \in DB, Order(e), Waiting(e), Moved(e), Woken(e), Copied(e), Upheld(e)
    PROVE  Waiting(e)'
  <1> SUFFICES ASSUME ReportedReady(px'[e])
               PROVE  ~AwaitsRestore(px'[e]) /\ (Started(e)' /\ AwaitsRestore(my'[e]) => Roused(e)')
    BY DEF Waiting, ReportedReady, Exists, AwaitsRestore
  <1>1. /\ px'[e].fin /\ (px[e].restored => px'[e].restored)
        /\ px[e].provisioned => px'[e].provisioned
    BY ReadySame
  <1>2. CASE ~AwaitsRestore(px'[e]) /\ ~Started(e)'
    BY <1>2
  <1>3. CASE ReportedReady(px[e])
    <2>1. ~AwaitsRestore(px[e]) /\ (Started(e) /\ AwaitsRestore(my[e]) => Roused(e))
      BY <1>3 DEF Waiting
    <2>2. ~AwaitsRestore(px'[e])
      BY <1>1, <2>1 DEF AwaitsRestore
    <2>3. Roused(e) => Roused(e)'
      BY <1>1 DEF Woken, Roused
    <2> QED BY <2>1, <2>2, <2>3 DEF Copied
  <1> QED BY <1>2, <1>3 DEF Upheld

\* What is reported is still retried.
LEMMA ReturningKept ==
    ASSUME IInv, IInv', NEW e \in DB, Returning(e), Upheld(e), FaultsGrow
    PROVE  Returning(e)'
  <1>1. failures[e] \in Nat /\ faults \in Nat /\ failures'[e] \in Nat
    <2>1. failures'[e] \in 0..MaxRetries
      BY DEF IInv, Reconciling, WorkOK
    <2> QED BY <2>1, Numbers, ControllerAssumption DEF ControllerAssumption
  <1>2. ASSUME ReportedReady(px'[e]) PROVE failures'[e] \leq faults'
    BY <1>1, <1>2 DEF Returning, Upheld, FaultsGrow
  <1>3. ReportedReady(px'[e]) => Applied(e)' \/ Roused(e)' \/ pc'[e] \in Applying
    BY DEF Upheld
  <1> QED BY <1>2, <1>3 DEF Returning, ReportedReady, Exists

\* The governing service is still that of the object.
LEMMA GovernedKept ==
    ASSUME IInv, NoneDeleted' => NoneDeleted, NEW e \in DB, Governed(e), Moved(e), Governs(e)
    PROVE  Governed(e)'
  <1> SUFFICES ASSUME NoneDeleted', res'[e]["gvr"] # Absent
               PROVE  px'[e].uid # 0 /\ px'[e].fin /\ res'[e]["gvr"] = px'[e].uid
    BY DEF Governed
  <1>1. CASE res'[e]["gvr"] = px'[e].uid /\ px'[e].uid # 0 /\ px'[e].fin
    BY <1>1
  <1>2. CASE res'[e]["gvr"] = res[e]["gvr"]
    <2>1. px[e].uid # 0 /\ px[e].fin /\ res[e]["gvr"] = px[e].uid
      BY <1>2 DEF Governed
    <2>2. pc[e] \notin TermLocs
      BY NoTermination
    <2> QED BY <1>2, <2>1, <2>2 DEF Moved, Grown
  <1> QED BY <1>1, <1>2 DEF Governs

\* The run goes on as the invariant asks for.
Runs(e) == Copied(e) /\ Upheld(e) /\ Governs(e) /\ Built(e)'

\* All of it.
LEMMA ReadiedKept ==
    ASSUME Context, NEW e \in DB, Moved(e), VersionLink(e), Woken(e), Runs(e), RestoreKept,
           FaultsGrow
    PROVE  Readied(e)'
  <1>1. /\ IInv /\ IInv' /\ UidsFresh /\ (NoneDeleted' => NoneDeleted) /\ Readied(e)
        /\ Order(e) /\ CopyBehind(e) /\ Copied(e) /\ Upheld(e) /\ Governs(e) /\ Built(e)'
    BY DEF Context, ReadyInv, HaltInv, Tracked, Runs
  <1>2. Faithful(e)'
    BY <1>1, FaithfulKept DEF Readied
  <1>3. Superseded(e)' /\ Waiting(e)' /\ Returning(e)' /\ Governed(e)'
    BY <1>1, SupersededKept, WaitingKept, ReturningKept, GovernedKept DEF Readied
  <1> QED BY <1>1, <1>2, <1>3 DEF Readied

----------------------------------------------------------------------------
(* Databases whose run stays where it is.                                    *)

\* What belongs to the live object stays.
Stands(e) ==
    /\ \A k \in Kinds : \/ res'[e][k] = res[e][k]
                        \/ res'[e][k] = Absent /\ res[e][k] # px[e].uid
    /\ sts'[e] = sts[e] \/ sts[e].owner # px[e].uid

\* What is in place stays in place.
LEMMA AppliedStays ==
    ASSUME IInv, IInv', NoneDeleted' => NoneDeleted, NEW e \in DB, Order(e), Governed(e), Moved(e),
           Stands(e), ReportedReady(px'[e]), Applied(e)
    PROVE  Applied(e)'
  <1>1. /\ px'[e].uid = px[e].uid /\ px'[e].rev = px[e].rev /\ px'[e].secret = px[e].secret
    BY ReadySame
  <1>2. sts'[e] = sts[e] /\ \A k \in Kinds \ {"gvr"} : res'[e][k] = res[e][k]
    BY DEF Applied, Stands
  <1>3. NoneDeleted' => res'[e]["gvr"] # Absent
    BY DEF Governed, Applied, Stands, Kinds
  <1> QED BY <1>1, <1>2, <1>3 DEF Applied

\* ... and so does what a run of create has made.
LEMMA BuiltStays ==
    ASSUME IInv, NoneDeleted' => NoneDeleted, NEW e \in DB, Governed(e), Built(e), Stands(e),
           pc'[e] = pc[e], my'[e] = my[e]
    PROVE  Built(e)'
  <1>1. CASE pc[e] \in CreateLocs
    <2>1. px[e].uid = my[e].uid
      BY <1>1, RunHeld DEF Held
    <2>2. res[e]["rbac"] = my[e].uid => res'[e]["rbac"] = my[e].uid
      BY <2>1 DEF Stands, Kinds
    <2>3. res[e]["svc"] = my[e].uid => res'[e]["svc"] = my[e].uid
      BY <2>1 DEF Stands, Kinds
    <2>4. res[e]["app"] = my[e].uid => res'[e]["app"] = my[e].uid
      BY <2>1 DEF Stands, Kinds
    <2>5. sts[e].owner = my[e].uid => sts'[e] = sts[e]
      BY <2>1 DEF Stands
    <2>6. (NoneDeleted => res[e]["gvr"] # Absent) => (NoneDeleted' => res'[e]["gvr"] # Absent)
      BY DEF Governed, Stands, Kinds
    <2> QED BY <1>1, <2>2, <2>3, <2>4, <2>5, <2>6 DEF Built, CreateLocs, HaltLocs
  <1>2. CASE pc[e] \notin CreateLocs
    BY <1>2 DEF Built, CreateLocs
  <1> QED BY <1>1, <1>2

\* A step that leaves the run alone, and reports nothing new, ...
LEMMA RestsRuns ==
    ASSUME Context, NEW e \in DB, Moved(e), Woken(e), RunStays(e), Stands(e),
           ReportedReady(px'[e]) => ReportedReady(px[e])
    PROVE  Runs(e)
  <1>1. /\ IInv /\ IInv' /\ (NoneDeleted' => NoneDeleted) /\ Readied(e) /\ Order(e)
        /\ pc'[e] = pc[e] /\ my'[e] = my[e] /\ failures'[e] = failures[e] /\ failures[e] \in Nat
    BY Numbers DEF Context, ReadyInv, HaltInv, RunStays
  <1>2. Copied(e)
    BY <1>1 DEF Copied, Started
  <1>3. Upheld(e)
    <2> SUFFICES ASSUME ReportedReady(px'[e])
                 PROVE  Applied(e)' \/ Roused(e)' \/ pc'[e] \in Applying
      BY <1>1 DEF Upheld
    <2>1. px'[e].fin
      BY <1>1, ReadySame
    <2>2. Roused(e) => Roused(e)'
      BY <2>1 DEF Woken, Roused
    <2>3. Applied(e) => Applied(e)'
      BY <1>1, AppliedStays DEF Readied
    <2> QED BY <1>1, <2>2, <2>3 DEF Readied, Returning
  <1>4. Governs(e)
    BY DEF Governs, Stands, Kinds
  <1>5. Built(e)'
    BY <1>1, BuiltStays DEF Readied
  <1> QED BY <1>2, <1>3, <1>4, <1>5 DEF Runs

\* ... keeps the invariant.
LEMMA RestsReadied ==
    ASSUME Context, NEW e \in DB, Moved(e), VersionLink(e), Woken(e), RunStays(e), Stands(e),
           ReportedReady(px'[e]) => ReportedReady(px[e]), RestoreKept, FaultsGrow
    PROVE  Readied(e)'
  BY RestsRuns, ReadiedKept

----------------------------------------------------------------------------
(* Steps of the run on d.                                                    *)

\* They leave the others alone.
Apart(d) ==
    /\ \A e \in DB \ {d} : RunStays(e) /\ res'[e] = res[e] /\ sts'[e] = sts[e]
    /\ d \in dirty => d \in dirty'
    /\ restore' = restore /\ FaultsGrow

\* The wake-ups of an object that stays, or gets another version.
LEMMA StillWoken ==
    ASSUME IInv, NEW e \in DB, Heard(e), cache'[e] = cache[e]
    PROVE  Woken(e)
  BY DEF Woken, Heard, Roused

\* A step on another object.
LEMMA OthersReadied ==
    ASSUME Context, NEW d \in DB, Apart(d), NEW e \in DB \ {d}, px'[e] = px[e],
           cache'[e] = cache[e], VersionLink(e)
    PROVE  Readied(e)'
  <1>1. IInv /\ RunStays(e) /\ res'[e] = res[e] /\ sts'[e] = sts[e] /\ FaultsGrow /\ RestoreKept
    BY DEF Context, Apart, RestoreKept
  <1>2. Moved(e) /\ Stands(e) /\ (ReportedReady(px'[e]) => ReportedReady(px[e]))
    BY <1>1 DEF Moved, Stands
  <1>3. Woken(e)
    BY <1>1, QuietHeard, StillWoken DEF RunStays
  <1> QED BY <1>1, <1>2, <1>3, RestsReadied

\* A step of a run that writes no object, ...
LEMMA QuietReady ==
    ASSUME Context, NEW d \in DB, UNCHANGED <<px, watch, cache>>, Apart(d),
           Moved(d) /\ Woken(d) => Runs(d)
    PROVE  ReadyInv'
  <1>1. \A e \in DB : VersionLink(e) /\ px'[e] = px[e] /\ cache'[e] = cache[e]
    BY QuietLinks
  <1>2. IInv /\ FaultsGrow /\ RestoreKept /\ Moved(d)
    BY <1>1 DEF Context, Apart, RestoreKept, Moved
  <1>3. Woken(d)
    BY <1>1, <1>2, QuietHeard, StillWoken DEF Apart
  <1>4. Readied(d)'
    BY <1>1, <1>2, <1>3, ReadiedKept
  <1>5. ASSUME NEW e \in DB \ {d} PROVE Readied(e)'
    BY <1>1, OthersReadied
  <1> QED BY <1>4, <1>5 DEF ReadyInv

\* ... and one that writes the object of d.
LEMMA PutReady ==
    ASSUME Context, NEW d \in DB, NEW o \in Px, SetPx(d, o), cache' = cache,
           Grown(px[d], o) \/ Fresh(o), px'[d] = o => Moved(d), Apart(d),
           px'[d] = o /\ Woken(d) => Runs(d)
    PROVE  ReadyInv'
  <1>1. IInv /\ FaultsGrow /\ RestoreKept /\ Order(d) /\ ObjOK
    BY DEF Context, Apart, RestoreKept, HaltInv, IInv, Reconciling
  <1>2. o.del => o.uid \in 1..MaxUid
    <2>1. o.uid \in 0..MaxUid
      BY PxFields
    <2> QED BY <2>1 DEF Grown, Fresh
  <1>3. Put(d, o)
    BY <1>1, <1>2, PutFacts
  <1>4. px'[d] = o /\ \A e \in DB \ {d} : px'[e] = px[e]
    BY <1>3 DEF Put
  <1>5. ASSUME NEW e \in DB PROVE VersionLink(e) /\ cache'[e] = cache[e]
    BY <1>3 DEF Put, VersionLink
  <1>6. Woken(d)
    BY <1>1, <1>4, <1>5, PutHeard, StillWoken DEF Apart
  <1>7. Readied(d)'
    BY <1>1, <1>4, <1>5, <1>6, ReadiedKept
  <1>8. ASSUME NEW e \in DB \ {d} PROVE Readied(e)'
    BY <1>4, <1>5, OthersReadied
  <1> QED BY <1>7, <1>8 DEF ReadyInv

\* A run moves on, ...
LEMMA GoApart ==
    ASSUME IInv, NEW d \in DB, NEW l, Goto(d, l), NEW o, my' = my \/ my' = [my EXCEPT ![d] = o],
           failures' = failures, dirty' = dirty, FaultsGrow, restore' = restore,
           \A e \in DB \ {d} : res'[e] = res[e] /\ sts'[e] = sts[e] /\ pods'[e] = pods[e]
    PROVE  /\ Apart(d) /\ pc'[d] = l /\ failures'[d] = failures[d]
           /\ my' = my => my'[d] = my[d]
           /\ my' = [my EXCEPT ![d] = o] => my'[d] = o
  <1>1. \A e \in DB \ {d} : Shrinks(e)
    BY Elsewhere
  <1>2. /\ Confined(d) /\ pc'[d] = l /\ failures'[d] = failures[d]
        /\ my' = my => my'[d] = my[d]
        /\ my' = [my EXCEPT ![d] = o] => my'[d] = o
    BY <1>1, GoRun
  <1> QED BY <1>2 DEF Confined, Apart

\* ... or ends.
LEMMA EndApart ==
    ASSUME IInv, NEW d \in DB, ReturnNil(d) \/ ReturnErr(d), FaultsGrow, restore' = restore,
           \A e \in DB \ {d} : res'[e] = res[e] /\ sts'[e] = sts[e] /\ pods'[e] = pods[e]
    PROVE  /\ Apart(d) /\ pc'[d] = "idle" /\ ~Started(d)' /\ Built(d)' /\ Copied(d)
           /\ ReturnNil(d) => failures'[d] = 0
           /\ failures'[d] = 0 \/ failures'[d] = failures[d] + 1
  <1>1. \A e \in DB \ {d} : Shrinks(e)
    BY Elsewhere
  <1>2. /\ Confined(d) /\ pc'[d] = "idle"
        /\ ReturnNil(d) => failures'[d] = 0
        /\ failures'[d] = 0 \/ failures'[d] = failures[d] + 1
    BY <1>1, EndRun
  <1>3. ~Started(d)' /\ Built(d)'
    BY <1>2, Places DEF Started, Built, HaltLocs
  <1>4. Apart(d) /\ Copied(d)
    BY <1>2, <1>3 DEF Confined, Apart, Copied
  <1> QED BY <1>2, <1>3, <1>4

\* No offshoots change.
LEMMA ShootsKept ==
    ASSUME UNCHANGED <<res, sts, pods>>, NEW d \in DB
    PROVE  /\ \A e \in DB \ {d} : res'[e] = res[e] /\ sts'[e] = sts[e] /\ pods'[e] = pods[e]
           /\ Governs(d) /\ res'[d] = res[d] /\ sts'[d] = sts[d]
  BY DEF Governs

----------------------------------------------------------------------------
(* create                                                                    *)

\* A call of create that leaves the object alone and goes on, fails, or
\* returns because it waits.
LEMMA CreateGoesReady ==
    ASSUME Context, NEW d \in DB, pc[d] \in CreateLocs, NEW l,
           \/ l \in CreateLocs \cup {"fail"} /\ Goto(d, l) /\ UNCHANGED <<my, failures, dirty>>
           \/ l = "return" /\ ReturnNil(d) /\ AwaitsRestore(my[d]),
           \A e \in DB \ {d} : res'[e] = res[e] /\ sts'[e] = sts[e] /\ pods'[e] = pods[e],
           UNCHANGED <<px, watch, cache, restore>>, FaultsGrow, Governs(d),
           l # "return" /\ pc'[d] = l /\ my'[d] = my[d] => Built(d)'
    PROVE  ReadyInv'
  <1>1. /\ IInv /\ IInv' /\ Readied(d) /\ failures[d] \in Nat /\ px'[d] = px[d] /\ Started(d)
        /\ Order(d)
    BY Numbers, Places DEF Context, ReadyInv, HaltInv, Started
  <1>2. CASE l \in CreateLocs \cup {"fail"} /\ Goto(d, l) /\ UNCHANGED <<my, failures, dirty>>
    <2>1. Apart(d) /\ pc'[d] = l /\ failures'[d] = failures[d] /\ my'[d] = my[d]
      BY <1>1, <1>2, GoApart
    <2>2. l # "return"
      BY <1>2 DEF CreateLocs
    <2>3. Built(d)'
      BY <2>1, <2>2
    <2>4. Copied(d)
      BY <1>1, <2>1 DEF Copied
    <2>5. Upheld(d)
      BY <1>1, <1>2, <2>1 DEF Upheld, Applying
    <2> QED BY <2>1, <2>3, <2>4, <2>5, QuietReady DEF Runs
  <1>3. CASE ReturnNil(d) /\ AwaitsRestore(my[d])
    <2>1. Apart(d) /\ Built(d)' /\ Copied(d) /\ failures'[d] = 0
      BY <1>1, <1>3, EndApart
    <2>2. ASSUME Moved(d), Woken(d) PROVE Upheld(d)
      <3> SUFFICES ASSUME ReportedReady(px'[d]) PROVE Roused(d)' /\ failures'[d] \leq failures[d]
        BY <1>1 DEF Upheld
      <3>1. Roused(d)
        BY <1>1, <1>3 DEF Readied, Waiting
      <3>2. px'[d].fin
        BY <1>1, <2>2, ReadySame
      <3> QED BY <1>1, <2>1, <2>2, <3>1, <3>2 DEF Woken, Roused
    <2> QED BY <2>1, <2>2, QuietReady DEF Runs
  <1> QED BY <1>2, <1>3

\* Validation: the secret is there, so that only a restore is waited for.
LEMMA ValidateReady ==
    ASSUME Context, NEW d \in DB, ValidatePerconaXtraDB(d)
    PROVE  ReadyInv'
  <1>1. /\ pc[d] = "validate" /\ pc[d] \in CreateLocs /\ UNCHANGED <<px, watch, cache, restore, res, sts, pods>>
        /\ faults' = faults /\ IInv
    BY DEF ValidatePerconaXtraDB, CreateLocs, objVars, shootVars, countVars, Context
  <1>2. ~(my[d].secret # NoSecret /\ secrets[my[d].secret].owner = Absent)
    <2>1. my[d].secret \in SecretNames \cup {NoSecret}
      BY <1>1, Copy, PxFields
    <2>2. Backed(my[d]) /\ Whole
      BY <1>1 DEF Context, Credentials, Linked, Good
    <2> QED BY <2>1, <2>2 DEF Backed, Whole
  <1>3. Continue(d, IF my[d].phase = "" THEN "provisioning" ELSE AfterPhase(my[d]))
    BY <1>2 DEF ValidatePerconaXtraDB
  <1>4. PICK l : /\ Continue(d, l)
                 /\ \/ l = "provisioning"
                    \/ l = "gvr" /\ ~(IsCluster /\ AwaitsRestore(my[d]))
                    \/ l = "return" /\ AwaitsRestore(my[d])
    BY <1>3 DEF AfterPhase
  <1>5. \/ l \in CreateLocs \cup {"fail"} /\ Goto(d, l) /\ UNCHANGED <<my, failures, dirty>>
        \/ l = "return" /\ ReturnNil(d) /\ AwaitsRestore(my[d])
    BY <1>4, ContinueForms DEF CreateLocs
  <1>6. l # "return" /\ pc'[d] = l /\ my'[d] = my[d] => Built(d)'
    BY <1>4 DEF Built, HaltLocs
  <1> QED BY <1>1, <1>5, <1>6, ShootsKept, FaultsStay, CreateGoesReady

\* The governing service, which is taken whoever owns it.
LEMMA GoverningReady ==
    ASSUME Context, NEW d \in DB, CreateGoverningService(d)
    PROVE  ReadyInv'
  <1>1. /\ pc[d] = "gvr" /\ pc[d] \in CreateLocs /\ pc[d] \in Held /\ "rbac" \in CreateLocs
        /\ UNCHANGED <<px, watch, cache, restore, sts, pods, my, failures, dirty>>
        /\ faults' = faults /\ Goto(d, "rbac") /\ IInv /\ Built(d)
        /\ res' = [res EXCEPT ![d]["gvr"] = IF @ = Absent THEN my[d].uid ELSE @]
    BY DEF CreateGoverningService, CreateLocs, Held, objVars, countVars, Context, ReadyInv, Readied
  <1>2. res \in [DB -> [Kinds -> Owner]] /\ "gvr" \in Kinds
    BY <1>1 DEF IInv, Offshoots, ShootOK, Kinds
  <1>3. /\ \A e \in DB \ {d} : res'[e] = res[e]
        /\ res'[d]["gvr"] = IF res[d]["gvr"] = Absent THEN my[d].uid ELSE res[d]["gvr"]
    BY <1>1, <1>2
  <1>4. px[d].fin /\ px[d].uid = my[d].uid /\ px[d].uid # 0 /\ px[d].uid # Absent
    <2>1. px[d].fin /\ px[d].uid = my[d].uid /\ px[d].uid # 0
      BY <1>1, RunHeld DEF IInv, Reconciling, Incarnations, Incarnation, NothingThere
    <2>2. px[d].uid \in 0..MaxUid
      BY <1>1, Copy, PxFields
    <2> QED BY <2>1, <2>2, ControllerAssumption DEF ControllerAssumption, Absent
  <1>5. Governs(d) /\ res'[d]["gvr"] # Absent
    BY <1>1, <1>3, <1>4 DEF Governs
  <1>6. pc'[d] = "rbac" /\ my'[d] = my[d] => Built(d)'
    BY <1>1, <1>5 DEF Built, HaltLocs
  <1> QED BY <1>1, <1>3, <1>5, <1>6, FaultsStay, CreateGoesReady

\* RBAC objects, service and AppBinding.
LEMMA OffshootReady ==
    ASSUME Context, NEW d \in DB, EnsureOffshoot(d)
    PROVE  ReadyInv'
  <1>1. /\ pc[d] \in {"rbac", "svc", "app"} /\ pc[d] \in CreateLocs
        /\ UNCHANGED <<px, watch, cache, restore, sts, pods>>
        /\ faults' = faults /\ IInv /\ Built(d) /\ (NoneDeleted' => NoneDeleted)
        /\ res' = [res EXCEPT ![d][pc[d]] = my[d].uid]
    BY DEF EnsureOffshoot, CreateLocs, Held, objVars, countVars, Context, ReadyInv, Readied
  <1>2. res \in [DB -> [Kinds -> Owner]] /\ pc[d] \in Kinds /\ "gvr" \in Kinds
    BY <1>1 DEF IInv, Offshoots, ShootOK, Kinds
  <1>3. /\ \A e \in DB \ {d} : res'[e] = res[e]
        /\ res'[d][pc[d]] = my[d].uid
        /\ \A k \in Kinds \ {pc[d]} : res'[d][k] = res[d][k]
    BY <1>1, <1>2
  <1>4. res'[d]["gvr"] = res[d]["gvr"]
    BY <1>1, <1>2, <1>3
  <1>5. PICK l : /\ Continue(d, l)
                 /\ \/ pc[d] = "rbac" /\ l = "svc"
                    \/ pc[d] = "svc" /\ l = "secret"
                    \/ pc[d] = "app" /\ l = AfterApp(my[d])
    <2>1. CASE pc[d] = "rbac"
      BY <2>1 DEF EnsureOffshoot
    <2>2. CASE pc[d] = "svc"
      BY <2>2 DEF EnsureOffshoot
    <2>3. CASE pc[d] = "app"
      BY <2>3 DEF EnsureOffshoot
    <2> QED BY <1>1, <2>1, <2>2, <2>3
  <1>6. \/ l \in CreateLocs \cup {"fail"} /\ Goto(d, l) /\ UNCHANGED <<my, failures, dirty>>
        \/ l = "return" /\ ReturnNil(d) /\ AwaitsRestore(my[d])
    BY <1>5, ContinueForms DEF CreateLocs, AfterApp
  <1>7. ASSUME l # "return", pc'[d] = l, my'[d] = my[d] PROVE Built(d)'
    <2>1. CASE pc[d] = "rbac" /\ l = "svc"
      BY <1>1, <1>3, <1>4, <1>7, <2>1 DEF Built, HaltLocs
    <2>2. CASE pc[d] = "svc" /\ l = "secret"
      <3>1. res'[d]["rbac"] = res[d]["rbac"]
        BY <1>3, <2>2 DEF Kinds
      <3> QED BY <1>1, <1>3, <1>4, <1>7, <2>2, <3>1 DEF Built, HaltLocs
    <2>3. CASE pc[d] = "app" /\ l = AfterApp(my[d])
      <3>1. res'[d]["rbac"] = res[d]["rbac"] /\ res'[d]["svc"] = res[d]["svc"]
        BY <1>3, <2>3 DEF Kinds
      <3>2. l = "ready" /\ ~AwaitsRestore(my[d])
        BY <1>1, <1>7, <2>3 DEF Built, AfterApp
      <3> QED BY <1>1, <1>3, <1>4, <1>7, <2>3, <3>1, <3>2 DEF Built, HaltLocs
    <2> QED BY <1>5, <2>1, <2>2, <2>3
  <1>8. Governs(d)
    BY <1>4 DEF Governs
  <1> QED BY <1>1, <1>3, <1>6, <1>7, <1>8, FaultsStay, CreateGoesReady

\* The secrets, the StatefulSet and the wait for its pods; a rejected call.
LEMMA SetReadies ==
    ASSUME Context, NEW d \in DB,
           \/ CreateDatabaseSecret(d) \/ UpgradeDatabaseSecret(d) \/ EnsureStatefulSet(d)
           \/ CheckPodStatus(d) \/ CreateRejected(d)
    PROVE  ReadyInv'
  <1>1. /\ UNCHANGED <<px, watch, cache, restore, res, pods, my, failures, dirty>>
        /\ faults' = faults /\ IInv /\ Built(d) /\ (NoneDeleted' => NoneDeleted)
        /\ pc[d] \in CreateLocs
    BY DEF CreateDatabaseSecret, UpgradeDatabaseSecret, EnsureStatefulSet, CheckPodStatus,
           CreateRejected, Rejected, CreateLocs, objVars, shootVars, countVars, Context, ReadyInv,
           Readied
  <1>2. Governs(d) /\ \A e \in DB : res'[e] = res[e] /\ pods'[e] = pods[e] /\ my'[e] = my[e]
    BY <1>1 DEF Governs
  <1>3. CASE CreateDatabaseSecret(d) \/ UpgradeDatabaseSecret(d) \/ CheckPodStatus(d)
                \/ CreateRejected(d)
    <2>1. PICK l \in {"secretPatch", "sts", "app", "fail"} :
             /\ Goto(d, l)
             /\ l \in {"secretPatch", "sts"} => pc[d] = "secret"
             /\ l = "app" => pc[d] = "pods"
      BY <1>3 DEF CreateDatabaseSecret, UpgradeDatabaseSecret, CheckPodStatus, CreateRejected
    <2>2. l \in CreateLocs \cup {"fail"} /\ sts' = sts
      BY <1>3 DEF CreateDatabaseSecret, UpgradeDatabaseSecret, CheckPodStatus, CreateRejected,
                  CreateLocs, shootVars
    <2>3. pc'[d] = l /\ my'[d] = my[d] => Built(d)'
      BY <1>1, <1>2, <2>1, <2>2 DEF Built, HaltLocs
    <2> QED BY <1>1, <1>2, <2>1, <2>2, <2>3, FaultsStay, CreateGoesReady
  <1>4. CASE EnsureStatefulSet(d)
    <2>1. PICK l \in {"app", "pods"} : Goto(d, l)
      BY <1>4 DEF EnsureStatefulSet
    <2>2. sts \in [DB -> Sts] /\ pc[d] = "sts" /\ sts' = [sts EXCEPT ![d] = DesiredSts(d)]
      BY <1>1, <1>4 DEF EnsureStatefulSet, IInv, Offshoots, ShootOK
    <2>3. sts'[d] = DesiredSts(d) /\ \A e \in DB \ {d} : sts'[e] = sts[e]
      BY <2>2
    <2>4. /\ sts'[d].owner = my[d].uid /\ sts'[d].rev = my[d].rev /\ sts'[d].secret = my[d].secret
      BY <2>3 DEF DesiredSts
    <2>5. pc'[d] = l /\ my'[d] = my[d] => Built(d)'
      BY <1>1, <1>2, <2>1, <2>2, <2>4 DEF Built, HaltLocs
    <2>6. l \in CreateLocs
      BY DEF CreateLocs
    <2> QED BY <1>1, <1>2, <2>1, <2>3, <2>5, <2>6, FaultsStay, CreateGoesReady
  <1> QED BY <1>3, <1>4

\* A write of phase and observed generation leaves the rest.
Restated(d) ==
    /\ px'[d].uid = px[d].uid /\ px'[d].gen = px[d].gen /\ px'[d].rev = px[d].rev
    /\ px'[d].secret = px[d].secret /\ px'[d].restored = px[d].restored
    /\ px'[d].provisioned = px[d].provisioned

\* UpdatePerconaXtraDBStatus of a run.
LEMMA PhaseReady ==
    ASSUME Context, NEW d \in DB, Exists(px[d]), pc[d] \in Held, NEW p \in Phases, NEW g \in Nat,
           g \leq px[d].gen, SetPhase(d, p, g), cache' = cache, Apart(d), Governs(d), Built(d)',
           px'[d].phase = p /\ px'[d].obsGen = g /\ Restated(d) => Copied(d) /\ Upheld(d)
    PROVE  ReadyInv'
  <1>0. PICK o : o = [px[d] EXCEPT !.phase = p, !.obsGen = g]
    OBVIOUS
  <1>1. IInv /\ px[d] \in Px /\ px[d].uid # 0 /\ px[d].fin /\ Kept(px[d])
    BY Copy, RunHeld DEF Exists, HaltInv, Order, Context
  <1>2. o \in Px /\ Grown(px[d], o)
    BY <1>0, <1>1, PhaseGrown, Zenon
  <1>3. SetPx(d, o)
    BY <1>0 DEF SetPhase
  <1>4. /\ o.phase = p /\ o.obsGen = g /\ o.gen = px[d].gen
        /\ o.restored = px[d].restored /\ o.provisioned = px[d].provisioned
    BY <1>0, <1>1 DEF Px
  <1>5. px'[d] = o => Moved(d) /\ Copied(d) /\ Upheld(d)
    BY <1>2, <1>4 DEF Moved, Grown, Restated
  <1> QED BY <1>2, <1>3, <1>5, PutReady DEF Runs

\* ... whose phase is another one, at the end of the run.
LEMMA OtherPhaseReady ==
    ASSUME Context, NEW d \in DB, Exists(px[d]), pc[d] \in Held, NEW p \in Phases \ {"Ready"},
           SetPhase(d, p, my[d].gen), cache' = cache, ReturnNil(d) \/ ReturnErr(d),
           UNCHANGED <<shootVars, restore>>, faults' = faults
    PROVE  ReadyInv'
  <1>1. IInv /\ HaltInv /\ UNCHANGED <<res, sts, pods>>
    BY DEF Context, shootVars
  <1>2. Apart(d) /\ Governs(d) /\ Built(d)' /\ Copied(d)
    BY <1>1, ShootsKept, FaultsStay, EndApart
  <1>3. my[d].gen \in Nat /\ my[d].gen \leq px[d].gen
    BY <1>1, CopyNotAhead
  <1>4. px'[d].phase = p => Upheld(d)
    BY DEF Upheld, ReportedReady
  <1> QED BY <1>2, <1>3, <1>4, PhaseReady

\* The phase Provisioning, with which create waits or goes on.
LEMMA ProvisioningReady ==
    ASSUME Context, NEW d \in DB, SetProvisioning(d)
    PROVE  ReadyInv'
  <1>1. /\ Exists(px[d]) /\ SetPhase(d, "Provisioning", px[d].obsGen) /\ cache' = cache
        /\ UNCHANGED <<res, sts, pods, restore>> /\ faults' = faults /\ pc[d] \in Held
        /\ IInv /\ HaltInv
    BY DEF SetProvisioning, countVars, shootVars, CreateLocs, Held, Context
  <1>2. /\ FaultsGrow /\ Governs(d)
        /\ \A e \in DB \ {d} : res'[e] = res[e] /\ sts'[e] = sts[e] /\ pods'[e] = pods[e]
    BY <1>1, ShootsKept, FaultsStay
  <1>3. "Provisioning" \in Phases /\ px[d].obsGen \in Nat /\ px[d].obsGen \leq px[d].gen
    BY <1>1, CopyNotAhead DEF Phases
  <1>4. px'[d].phase = "Provisioning" => Upheld(d)
    BY DEF Upheld, ReportedReady
  <1>5. CASE ReturnNil(d)
    <2>1. Apart(d) /\ Built(d)' /\ Copied(d)
      BY <1>1, <1>2, <1>5, EndApart
    <2> QED BY <1>1, <1>2, <1>3, <1>4, <2>1, PhaseReady
  <1>6. CASE ~ReturnNil(d)
    <2>1. PICK o : /\ o = [my[d] EXCEPT !.phase = "Provisioning", !.obsGen = px[d].obsGen,
                                        !.paused = px[d].paused, !.restored = px[d].restored,
                                        !.provisioned = px[d].provisioned]
                   /\ AfterPhase(o) # "return" /\ Goto(d, AfterPhase(o))
                   /\ my' = [my EXCEPT ![d] = o] /\ UNCHANGED <<failures, dirty>>
      BY <1>6 DEF SetProvisioning
    <2>2. Goto(d, "gvr") /\ ~(IsCluster /\ AwaitsRestore(o))
      BY <2>1 DEF AfterPhase
    <2>3. my[d] \in Px /\ px[d] \in Px
      BY <1>1, Copy
    <2>4. /\ o.gen = my[d].gen /\ o.uid = my[d].uid /\ o.rev = my[d].rev /\ o.secret = my[d].secret
          /\ o.halted = my[d].halted /\ o.restored = px[d].restored
          /\ o.provisioned = px[d].provisioned
      BY <2>1, <2>3 DEF Px
    <2>5. Apart(d) /\ pc'[d] = "gvr" /\ my'[d] = o
      BY <1>1, <1>2, <2>1, <2>2, GoApart
    <2>6. Built(d)'
      BY <2>2, <2>5 DEF Built, HaltLocs
    <2>7. px'[d].phase = "Provisioning" /\ Restated(d) => Copied(d)
      BY <1>1, <2>4, <2>5 DEF Copied, Started, ReportedReady, Restated
    <2> QED BY <1>1, <1>2, <1>3, <1>4, <2>5, <2>6, <2>7, PhaseReady
  <1> QED BY <1>5, <1>6

\* The report: the copy has the generation of the object or the report is not for it.
LEMMA ReadyReady ==
    ASSUME Context, NEW d \in DB, SetReady(d)
    PROVE  ReadyInv'
  <1>1. /\ Exists(px[d]) /\ SetPhase(d, "Ready", my[d].gen) /\ cache' = cache /\ ReturnNil(d)
        /\ UNCHANGED <<res, sts, pods, restore>> /\ faults' = faults /\ pc[d] = "ready"
        /\ pc[d] \in Held /\ IInv /\ HaltInv /\ Readied(d) /\ (NoneDeleted' => NoneDeleted)
    BY DEF SetReady, countVars, shootVars, CreateLocs, Held, Context, ReadyInv
  <1>2. /\ FaultsGrow /\ Governs(d) /\ res'[d] = res[d] /\ sts'[d] = sts[d]
        /\ \A e \in DB \ {d} : res'[e] = res[e] /\ sts'[e] = sts[e] /\ pods'[e] = pods[e]
    BY <1>1, ShootsKept, FaultsStay
  <1>3. Apart(d) /\ Built(d)' /\ Copied(d) /\ failures'[d] = 0 /\ ~Started(d)'
    BY <1>1, <1>2, EndApart
  <1>4. "Ready" \in Phases /\ my[d].gen \in Nat /\ my[d].gen \leq px[d].gen
    BY <1>1, CopyNotAhead DEF Phases
  <1>5. my[d].uid = px[d].uid /\ px[d].uid # 0 /\ Agrees(my[d], px[d]) /\ Built(d)
    BY <1>1, RunHeld DEF Exists, Readied, Faithful, Started
  <1>6. ASSUME px'[d].obsGen = my[d].gen, Restated(d), ReportedReady(px'[d])
        PROVE  ~AwaitsRestore(px'[d]) /\ Applied(d)'
    <2>1. my[d].gen = px[d].gen
      BY <1>6 DEF ReportedReady, Restated
    <2>2. ~AwaitsRestore(px'[d])
      BY <1>1, <1>5, <1>6 DEF Built, Agrees, AwaitsRestore, Restated
    <2>3. /\ sts[d].owner = px[d].uid /\ sts[d].rev = px[d].rev /\ sts[d].secret = px[d].secret
          /\ res[d]["rbac"] = px[d].uid /\ res[d]["svc"] = px[d].uid /\ res[d]["app"] = px[d].uid
          /\ NoneDeleted => res[d]["gvr"] # Absent
      BY <1>1, <1>5, <2>1 DEF Built, Agrees
    <2> QED BY <1>1, <1>2, <1>6, <2>2, <2>3 DEF Applied, Kinds, Restated
  <1>7. px'[d].obsGen = my[d].gen /\ Restated(d) => Upheld(d)
    BY <1>3, <1>6 DEF Upheld
  <1> QED BY <1>1, <1>2, <1>3, <1>4, <1>7, PhaseReady

\* spec.databaseSecret is patched: the report, if there is one, is not for this spec.
LEMMA PatchReady ==
    ASSUME Context, NEW d \in DB, PatchDatabaseSecret(d)
    PROVE  ReadyInv'
  <1>1. /\ px[d].uid # 0 /\ cache' = cache /\ my' = [my EXCEPT ![d].secret = d] /\ Goto(d, "sts")
        /\ UNCHANGED <<failures, dirty, res, sts, pods, restore>> /\ faults' = faults
        /\ pc[d] = "secretPatch" /\ pc[d] \in Held /\ "sts" \in Applying /\ IInv /\ Readied(d)
        /\ Kept(px[d]) /\ failures[d] \in Nat /\ (NoneDeleted' => NoneDeleted)
    BY Numbers DEF PatchDatabaseSecret, countVars, shootVars, CreateLocs, Held, Applying, Exists,
                   Context, ReadyInv, HaltInv, Order
  <1>2. /\ FaultsGrow /\ Governs(d) /\ res'[d] = res[d] /\ sts'[d] = sts[d]
        /\ \A e \in DB \ {d} : res'[e] = res[e] /\ sts'[e] = sts[e] /\ pods'[e] = pods[e]
    BY <1>1, ShootsKept, FaultsStay
  <1>3. PICK o : o = [my[d] EXCEPT !.secret = d]
    OBVIOUS
  <1>4. my' = [my EXCEPT ![d] = o] /\ my[d] \in Px /\ px[d] \in Px
    BY <1>1, <1>3, Copy
  <1>5. /\ o.gen = my[d].gen /\ o.uid = my[d].uid /\ o.rev = my[d].rev /\ o.secret = d
        /\ o.halted = my[d].halted /\ o.restored = my[d].restored
        /\ o.provisioned = my[d].provisioned
    BY <1>3, <1>4 DEF Px
  <1>6. Apart(d) /\ pc'[d] = "sts" /\ my'[d] = o /\ failures'[d] = failures[d]
    <2>1. IInv /\ Goto(d, "sts") /\ failures' = failures /\ dirty' = dirty /\ restore' = restore
      BY <1>1
    <2> HIDE <1>1
    <2> QED BY <1>2, <1>4, <2>1, GoApart
  <1>7. AwaitsRestore(o) <=> AwaitsRestore(my[d])
    BY <1>5 DEF AwaitsRestore
  <1>8. Built(d)'
    BY <1>1, <1>2, <1>5, <1>6, <1>7 DEF Built, HaltLocs, Readied
  <1>9. px'[d].secret = d => Copied(d)
    BY <1>1, <1>5, <1>6, <1>7 DEF Copied, Started
  <1>10. (ReportedReady(px'[d]) => ReportedReady(px[d])) => Upheld(d)
    BY <1>1, <1>6 DEF Upheld
  <1>11. CASE px[d].secret = d
    <2>1. px' = [px EXCEPT ![d] = px[d]] /\ watch' = watch
      BY <1>11 DEF PatchDatabaseSecret, SetPx
    <2>2. UNCHANGED <<px, watch, cache>>
      BY <1>1, <2>1 DEF IInv, Reconciling, ObjOK
    <2>3. Runs(d)
      BY <1>2, <1>8, <1>9, <1>10, <1>11, <2>2 DEF Runs
    <2> QED BY <1>6, <2>2, <2>3, QuietReady
  <1>12. CASE px[d].secret # d
    <2>1. PICK n : n = [px[d] EXCEPT !.secret = d, !.gen = @ + 1]
      OBVIOUS
    <2>2. SetPx(d, n)
      BY <1>12, <2>1 DEF PatchDatabaseSecret
    <2>3. d \in SecretNames
      BY DEF SecretNames
    <2>4. n \in Px /\ Grown(px[d], n) /\ Retold(px[d], n)
      BY <1>1, <1>4, <2>1, <2>3, EditGrown
    <2>5. n.secret = d
      BY <1>4, <2>1 DEF Px
    <2>6. px'[d] = n => Moved(d)
      BY <2>4 DEF Moved, Retold
    <2>7. ASSUME px'[d] = n PROVE Runs(d)
      <3>1. ReportedReady(n) => ReportedReady(px[d])
        BY <2>4, RetoldReady
      <3> QED BY <1>2, <1>8, <1>9, <1>10, <2>5, <2>7, <3>1 DEF Runs
    <2> QED BY <1>1, <1>6, <2>2, <2>4, <2>6, <2>7, PutReady
  <1> QED BY <1>11, <1>12

\* All of create.
LEMMA CreateReady ==
    ASSUME Context, NEW d \in DB, CreateStep(d)
    PROVE  ReadyInv'
  BY ValidateReady, ProvisioningReady, GoverningReady, OffshootReady, SetReadies, PatchReady,
     ReadyReady DEF CreateStep

----------------------------------------------------------------------------
(* halt, and the report of a failure                                         *)

\* A call of halt: where the object is reported Ready, it has been resumed
\* since, and another run follows.
LEMMA HaltGoesReady ==
    ASSUME Context, NEW d \in DB, pc[d] \in HaltLocs, NEW l, l \in HaltLocs \cup {"fail"},
           Goto(d, l), UNCHANGED <<my, failures, dirty>>,
           \A e \in DB \ {d} : res'[e] = res[e] /\ sts'[e] = sts[e] /\ pods'[e] = pods[e],
           UNCHANGED <<px, watch, cache, restore>>, FaultsGrow, Governs(d)
    PROVE  ReadyInv'
  <1>1. /\ IInv /\ IInv' /\ Readied(d) /\ failures[d] \in Nat /\ px'[d] = px[d] /\ Started(d)
        /\ Order(d) /\ px[d].uid = my[d].uid /\ px[d].fin
    BY Numbers, Places, RunHeld DEF Context, ReadyInv, HaltInv, Started
  <1>2. Apart(d) /\ pc'[d] = l /\ failures'[d] = failures[d] /\ my'[d] = my[d]
    BY <1>1, GoApart
  <1>3. my[d].halted /\ Agrees(my[d], px[d])
    BY <1>1 DEF Readied, Built, Faithful
  <1>4. Built(d)'
    BY <1>2, <1>3 DEF Built, HaltLocs
  <1>5. Copied(d)
    BY <1>1, <1>2 DEF Copied
  <1>6. ASSUME Woken(d) PROVE Upheld(d)
    <2> SUFFICES ASSUME ReportedReady(px'[d]) PROVE Roused(d)'
      BY <1>1, <1>2 DEF Upheld
    <2>1. px[d].uid # 0 /\ ~px[d].halted
      BY <1>1 DEF ReportedReady, Exists
    <2>2. my[d].gen # px[d].gen
      BY <1>1, <1>3, <2>1 DEF Agrees
    <2> QED BY <1>1, <1>6, <2>2 DEF Readied, Superseded, Woken, Roused
  <1> QED BY <1>2, <1>4, <1>5, <1>6, QuietReady DEF Runs

\* All of halt, ...
LEMMA HaltReady ==
    ASSUME Context, NEW d \in DB, HaltStep(d)
    PROVE  ReadyInv'
  <1>0. IInv /\ HaltInv
    BY DEF Context
  <1>1. CASE Halt(d) \/ WaitUntilPaused(d)
    <2>1. PICK l \in {"haltApp", "fail", "halted"} : Goto(d, l)
      BY <1>1 DEF Halt, WaitUntilPaused
    <2>2. /\ UNCHANGED <<px, watch, cache, my, failures, dirty, restore, res, sts, pods>>
          /\ faults' = faults /\ pc[d] \in HaltLocs /\ l \in HaltLocs \cup {"fail"}
      BY <1>1 DEF Halt, WaitUntilPaused, HaltLocs, objVars, shootVars, countVars
    <2> QED BY <1>0, <2>1, <2>2, ShootsKept, FaultsStay, HaltGoesReady
  <1>2. CASE HaltDatabase(d)
    <2>1. /\ UNCHANGED <<px, watch, cache, my, failures, dirty, restore, sts, pods>>
          /\ faults' = faults /\ pc[d] \in {"haltApp", "haltRbac", "haltSvcs"}
      BY <1>2 DEF HaltDatabase, objVars, countVars
    <2>2. PICK gone :
             res' = [res EXCEPT ![d] = [k \in Kinds |-> IF k \in gone THEN Absent ELSE @[k]]]
      BY <1>2 DEF HaltDatabase
    <2>3. PICK l \in {"haltSts", "haltSvcs", "waitPaused"} : Goto(d, l)
      BY <1>2 DEF HaltDatabase
    <2>4. res \in [DB -> [Kinds -> Owner]]
      BY <1>0 DEF IInv, Offshoots, ShootOK
    <2>5. /\ \A e \in DB \ {d} : res'[e] = res[e]
          /\ \A k \in Kinds : res'[d][k] = IF k \in gone THEN Absent ELSE res[d][k]
      BY <2>2, <2>4
    <2>6. Governs(d)
      BY <2>5 DEF Governs, Kinds
    <2>7. pc[d] \in HaltLocs /\ l \in HaltLocs \cup {"fail"}
      BY <2>1 DEF HaltLocs
    <2> QED BY <1>0, <2>1, <2>3, <2>5, <2>6, <2>7, FaultsStay, HaltGoesReady
  <1>3. CASE HaltStatefulSet(d)
    <2>1. /\ UNCHANGED <<px, watch, cache, my, failures, dirty, restore, res>>
          /\ faults' = faults /\ Goto(d, "haltRbac") /\ DropSts(d)
          /\ pc[d] \in HaltLocs /\ "haltRbac" \in HaltLocs
      BY <1>3 DEF HaltStatefulSet, HaltLocs, objVars, countVars
    <2>2. sts \in [DB -> Sts] /\ pods \in [DB -> {"none", "starting", "running", "orphaned"}]
      BY <1>0 DEF IInv, Offshoots, ShootOK
    <2>3. \A e \in DB \ {d} : res'[e] = res[e] /\ sts'[e] = sts[e] /\ pods'[e] = pods[e]
      BY <2>1, <2>2 DEF DropSts
    <2>4. Governs(d)
      BY <2>1 DEF Governs
    <2> QED BY <1>0, <2>1, <2>3, <2>4, FaultsStay, HaltGoesReady
  <1>4. CASE SetHalted(d)
    <2>1. /\ Exists(px[d]) /\ SetPhase(d, "Halted", my[d].gen) /\ cache' = cache /\ ReturnNil(d)
          /\ UNCHANGED <<shootVars, restore>> /\ faults' = faults /\ pc[d] \in Held
          /\ "Halted" \in Phases \ {"Ready"}
      BY <1>4 DEF SetHalted, countVars, HaltLocs, Held, Phases
    <2> QED BY <2>1, OtherPhaseReady
  <1> QED BY <1>1, <1>2, <1>3, <1>4 DEF HaltStep

\* ... and pushFailureEvent, which takes a report back.
LEMMA FailureReady ==
    ASSUME Context, NEW d \in DB, PushFailureEvent(d)
    PROVE  ReadyInv'
  <1>1. /\ Exists(px[d]) /\ SetPhase(d, "NotReady", my[d].gen) /\ cache' = cache /\ ReturnErr(d)
        /\ UNCHANGED <<shootVars, restore>> /\ faults' = faults /\ pc[d] \in Held
        /\ "NotReady" \in Phases \ {"Ready"}
    BY DEF PushFailureEvent, countVars, Held, Phases
  <1> QED BY <1>1, OtherPhaseReady

----------------------------------------------------------------------------
(* terminate, and errors                                                     *)

\* What terminate works on is not reported Ready.
LEMMA TermNotReady ==
    ASSUME Context, NEW d \in DB, pc[d] \in TermLocs
    PROVE  ~ReportedReady(px[d]) /\ (px[d].del \/ ~px[d].fin)
  <1>1. (px[d].del \/ ~px[d].fin) /\ px[d] \in Px /\ Kept(px[d])
    BY Copy, TermUnreported DEF Context, HaltInv, Order
  <1> QED BY <1>1, ReadyHeld

\* A call of terminate that leaves the object alone.
LEMMA TermGoesReady ==
    ASSUME Context, NEW d \in DB, pc[d] \in TermLocs, NEW l,
           \/ l \in TermLocs /\ Goto(d, l) /\ UNCHANGED <<my, failures, dirty>>
           \/ ReturnNil(d) \/ ReturnErr(d),
           UNCHANGED <<px, watch, cache, restore, res, sts, pods>>, FaultsGrow
    PROVE  ReadyInv'
  <1>1. IInv /\ ~ReportedReady(px'[d])
    BY TermNotReady DEF Context
  <1>2. Upheld(d)
    BY <1>1 DEF Upheld
  <1>3. /\ \A e \in DB \ {d} : res'[e] = res[e] /\ sts'[e] = sts[e] /\ pods'[e] = pods[e]
        /\ Governs(d)
    BY ShootsKept
  <1>4. Apart(d) /\ Copied(d) /\ Built(d)'
    <2>1. CASE l \in TermLocs /\ Goto(d, l) /\ UNCHANGED <<my, failures, dirty>>
      <3>1. Apart(d) /\ pc'[d] = l
        BY <1>1, <1>3, <2>1, GoApart
      <3>2. ~Started(d)'
        BY <2>1, <3>1, Disjoint DEF Started, TermLocs, Held, CreateLocs, HaltLocs
      <3> QED BY <2>1, <3>1, <3>2 DEF Copied, Built, TermLocs, HaltLocs
    <2>2. CASE ReturnNil(d) \/ ReturnErr(d)
      BY <1>1, <1>3, <2>2, EndApart
    <2> QED BY <2>1, <2>2
  <1> QED BY <1>2, <1>3, <1>4, QuietReady DEF Runs

\* All of terminate.
LEMMA TerminateReady ==
    ASSUME Context, NEW d \in DB, TerminateStep(d)
    PROVE  ReadyInv'
  <1>0. IInv
    BY DEF Context
  <1>1. CASE ReleasePvc(d) \/ ReleaseSecret(d) \/ WipeOutDatabase(d) \/ OwnPvc(d)
    <2>1. PICK l \in {"releaseSecret", "removeFinalizer", "ownPvc"} : Goto(d, l)
      BY <1>1 DEF ReleasePvc, ReleaseSecret, WipeOutDatabase, OwnPvc
    <2>2. l \in TermLocs /\ pc[d] \in TermLocs
      BY <1>1 DEF ReleasePvc, ReleaseSecret, WipeOutDatabase, OwnPvc, TermLocs
    <2>3. UNCHANGED <<px, watch, cache, my, failures, dirty, restore, res, sts, pods>> /\ faults' = faults
      BY <1>1 DEF ReleasePvc, ReleaseSecret, WipeOutDatabase, OwnPvc, objVars, countVars
    <2> QED BY <1>0, <2>1, <2>2, <2>3, FaultsStay, TermGoesReady
  <1>2. CASE TerminateRejected(d)
    <2>1. /\ UNCHANGED <<px, watch, cache, restore, res, sts, pods>> /\ faults' = faults
          /\ ReturnErr(d) /\ pc[d] \in TermLocs
      BY <1>2 DEF TerminateRejected, TermLocs, objVars, shootVars, countVars
    <2> QED BY <1>0, <2>1, FaultsStay, TermGoesReady
  <1>3. CASE RemoveFinalizer(d)
    <2>1. /\ cache' = cache /\ UNCHANGED <<restore, res, sts, pods>> /\ faults' = faults
          /\ ReturnNil(d) /\ pc[d] \in TermLocs
      BY <1>3 DEF RemoveFinalizer, TermLocs, shootVars, countVars
    <2>2. px \in [DB -> Px] /\ FaultsGrow
      BY <1>0, <2>1, FaultsStay DEF IInv, Reconciling, ObjOK
    <2>3. CASE px[d].del
      <3>1. SetPx(d, NoPx)
        BY <1>3, <2>3 DEF RemoveFinalizer
      <3>2. Apart(d) /\ Copied(d) /\ Built(d)' /\ Governs(d)
        BY <1>0, <2>1, <2>2, ShootsKept, EndApart
      <3>3. ~ReportedReady(NoPx) /\ NoPx \in Px /\ Fresh(NoPx)
        BY NoPxFresh, NoPxFacts DEF ReportedReady, Exists, NoPx
      <3>4. px'[d] = NoPx => Upheld(d) /\ Moved(d)
        BY <2>1, <3>3 DEF Upheld, Moved
      <3> QED BY <2>1, <3>1, <3>2, <3>3, <3>4, PutReady DEF Runs
    <2>4. CASE ~px[d].del
      <3>1. PICK o : o = [px[d] EXCEPT !.fin = FALSE]
        OBVIOUS
      <3>2. SetPx(d, o)
        BY <1>3, <2>4, <3>1 DEF RemoveFinalizer
      <3>3. ~px[d].fin
        BY <2>1, <2>4, TermNotReady
      <3>4. o = px[d]
        BY <2>2, <3>1, <3>3 DEF Px
      <3>5. UNCHANGED <<px, watch>>
        BY <2>2, <3>2, <3>4 DEF SetPx
      <3> QED BY <2>1, <2>2, <3>5, TermGoesReady
    <2> QED BY <2>3, <2>4
  <1> QED BY <1>1, <1>2, <1>3 DEF TerminateStep

\* An error outside validation: either the call failed, or the object is gone.
LEMMA ErrorReady ==
    ASSUME Context, NEW d \in DB, Error(d), pc[d] \notin {"idle", "validate"},
           faults' \leq MaxRetries,
           \/ faults' = faults + 1
           \/ faults' = faults /\ ~Exists(px[d]) /\ pc[d] # "fail"
    PROVE  ReadyInv'
  <1>0. IInv /\ HaltInv /\ Readied(d)
    BY DEF Context, ReadyInv
  <1>1. UNCHANGED <<px, watch, cache, restore, res, sts, pods>>
    BY DEF Error, objVars, shootVars
  <1>2. FaultsGrow
    <2>1. faults \in Nat
      BY <1>0, Numbers
    <2> QED BY <2>1 DEF FaultsGrow
  <1>3. /\ \A e \in DB \ {d} : res'[e] = res[e] /\ sts'[e] = sts[e] /\ pods'[e] = pods[e]
        /\ Governs(d)
    BY <1>1, ShootsKept
  <1>4. CASE pc[d] \in CreateLocs
    <2>1. "fail" \in CreateLocs \cup {"fail"} /\ Goto(d, "fail") /\ UNCHANGED <<my, failures, dirty>>
      BY <1>4 DEF Error, TermLocs, CreateLocs
    <2>2. pc'[d] = "fail" => Built(d)'
      BY DEF Built, HaltLocs
    <2> QED BY <1>1, <1>2, <1>3, <1>4, <2>1, <2>2, CreateGoesReady
  <1>5. CASE pc[d] \in HaltLocs
    <2>1. Goto(d, "fail") /\ UNCHANGED <<my, failures, dirty>>
      BY <1>5 DEF Error, TermLocs, HaltLocs
    <2> QED BY <1>1, <1>2, <1>3, <1>5, <2>1, HaltGoesReady
  <1>6. CASE pc[d] \in TermLocs
    <2>1. ReturnErr(d)
      BY <1>6 DEF Error, TermLocs
    <2> QED BY <1>1, <1>2, <1>6, <2>1, TermGoesReady
  <1>7. CASE pc[d] \in {"addFinalizer", "fail"}
    <2>1. ReturnErr(d)
      BY <1>7 DEF Error
    <2>2. /\ Apart(d) /\ Built(d)' /\ Copied(d)
          /\ failures'[d] = 0 \/ failures'[d] = failures[d] + 1
      BY <1>0, <1>1, <1>2, <1>3, <2>1, EndApart
    <2>3. px'[d] = px[d] /\ failures[d] \in Nat
      BY <1>0, <1>1, Numbers
    <2>4. ASSUME ReportedReady(px[d]) PROVE d \in dirty' /\ faults' = faults + 1
      <3>1. faults' = faults + 1
        BY <2>4 DEF ReportedReady
      <3>2. failures[d] < MaxRetries
        <4>1. failures[d] \in Nat /\ faults \in Nat /\ failures[d] \leq faults
          BY <1>0, <2>4, Numbers DEF Readied, Returning
        <4>2. MaxRetries \in Nat
          BY ControllerAssumption DEF ControllerAssumption
        <4> QED BY <3>1, <4>1, <4>2
      <3>3. dirty' = dirty \cup {d}
        BY <2>1, <3>2 DEF ReturnErr
      <3> QED BY <3>1, <3>3
    <2>5. Upheld(d)
      BY <2>2, <2>3, <2>4 DEF Upheld, Roused, Newer
    <2> QED BY <1>1, <1>3, <2>2, <2>5, QuietReady DEF Runs
  <1> QED BY <1>0, <1>4, <1>5, <1>6, <1>7, Copy DEF Locations

----------------------------------------------------------------------------
(* The finalizer patch, and the beginning of a run.                          *)

\* The reply decides between create, halt and return.
LEMMA FinalizerReady ==
    ASSUME Context, NEW d \in DB, AddFinalizer(d)
    PROVE  ReadyInv'
  <1>1. /\ cache' = cache /\ UNCHANGED <<restore, res, sts, pods>> /\ faults' = faults
        /\ pc[d] = "addFinalizer" /\ (my[d].fin \/ Exists(px[d]))
    BY DEF AddFinalizer, shootVars, countVars
  <1>2. /\ IInv /\ IInv' /\ Readied(d) /\ Tracked(d) /\ Order(d) /\ px[d] \in Px /\ failures[d] \in Nat
    BY Copy, Numbers DEF Context, ReadyInv, HaltInv
  <1>3. /\ FaultsGrow /\ Governs(d)
        /\ \A e \in DB \ {d} : res'[e] = res[e] /\ sts'[e] = sts[e] /\ pods'[e] = pods[e]
    BY <1>1, <1>2, ShootsKept, FaultsStay
  <1>4. PICK o : /\ o = IF my[d].fin THEN my[d] ELSE [px[d] EXCEPT !.fin = TRUE]
                 /\ IF my[d].fin THEN UNCHANGED objVars ELSE SetPx(d, o)
                 /\ IF o.paused
                    THEN ReturnNil(d)
                    ELSE /\ Goto(d, IF o.halted THEN "halt" ELSE "validate")
                         /\ my' = [my EXCEPT ![d] = o]
                         /\ UNCHANGED <<failures, dirty>>
    BY DEF AddFinalizer
  <1>5. /\ Apart(d) /\ (failures'[d] = failures[d] \/ failures'[d] = 0)
        /\ \/ o.paused /\ pc'[d] = "idle" /\ ~Started(d)'
           \/ o.halted /\ pc'[d] = "halt" /\ my'[d] = o
           \/ pc'[d] = "validate" /\ my'[d] = o
    <2>1. CASE o.paused
      BY <1>1, <1>2, <1>3, <1>4, <2>1, EndApart
    <2>2. CASE ~o.paused
      <3>1. /\ Goto(d, IF o.halted THEN "halt" ELSE "validate") /\ my' = [my EXCEPT ![d] = o]
            /\ failures' = failures /\ dirty' = dirty /\ restore' = restore
        BY <1>1, <1>4, <2>2
      <3>2. CASE o.halted
        <4>1. Goto(d, "halt")
          BY <3>1, <3>2
        <4> QED BY <1>2, <1>3, <3>1, <3>2, <4>1, GoApart
      <3>3. CASE ~o.halted
        <4>1. Goto(d, "validate")
          BY <3>1, <3>3
        <4> QED BY <1>2, <1>3, <3>1, <4>1, GoApart
      <3> QED BY <3>2, <3>3
    <2> QED BY <2>1, <2>2
  <1>6. Built(d)'
    BY <1>5 DEF Built, HaltLocs
  <1>7. "validate" \in Applying
    BY DEF Applying, CreateLocs
  (* It is well if another run follows where this one returns or halts what  *)
  (* is reported Ready.                                                      *)
  <1>8. ASSUME ReportedReady(px'[d]) => ReportedReady(px[d]),
               ReportedReady(px'[d]) /\ (o.paused \/ o.halted) => Roused(d)'
        PROVE  Upheld(d)
    BY <1>2, <1>5, <1>7, <1>8 DEF Upheld
  <1>9. CASE my[d].fin
    <2>1. UNCHANGED <<px, watch, cache>> /\ o = my[d]
      BY <1>1, <1>4, <1>9 DEF objVars
    <2>2. px[d].fin /\ px[d].uid = my[d].uid /\ Started(d)
      BY <1>1, <1>2, <1>9, RunHeld DEF Started
    <2>3. Copied(d)
      BY <1>5, <2>1, <2>2 DEF Copied
    <2>4. ASSUME Woken(d), ReportedReady(px'[d]), o.paused \/ o.halted PROVE Roused(d)'
      <3>1. CASE o.paused
        <4>1. Newer(d) \/ Waits(cache[d])
          BY <1>1, <1>2, <1>9, <2>1, <3>1 DEF Tracked, PauseSeen, Awake, Waits
        <4> QED BY <2>1, <2>2, <2>4, <4>1 DEF Woken, Roused
      <3>2. CASE o.halted
        <4>1. px[d].uid # 0 /\ ~px[d].halted
          BY <2>1, <2>4 DEF ReportedReady, Exists
        <4>2. my[d].gen # px[d].gen
          BY <1>2, <2>1, <2>2, <3>2, <4>1 DEF Readied, Faithful, Agrees
        <4> QED BY <1>2, <2>1, <2>2, <2>4, <4>2 DEF Readied, Superseded, Woken, Roused
      <3> QED BY <2>4, <3>1, <3>2
    <2>5. ASSUME Woken(d) PROVE Runs(d)
      <3>1. Upheld(d)
        BY <1>8, <2>1, <2>4, <2>5
      <3> QED BY <1>3, <1>6, <2>3, <3>1 DEF Runs
    <2> QED BY <1>5, <2>1, <2>5, QuietReady
  <1>10. CASE ~my[d].fin
    <2>1. SetPx(d, o) /\ o = [px[d] EXCEPT !.fin = TRUE] /\ px[d].uid # 0 /\ Kept(px[d])
      BY <1>1, <1>2, <1>4, <1>10 DEF Exists, Order
    <2>2. o \in Px /\ Grown(px[d], o) /\ Retold(px[d], o) /\ o.fin
      BY <1>2, <2>1, FinalizerGrown
    <2>3. px'[d] = o => Moved(d)
      BY <2>2 DEF Moved, Retold
    <2>4. ASSUME px'[d] = o, Woken(d) PROVE Runs(d)
      <3>1. Copied(d)
        BY <1>5, <2>4 DEF Copied
      <3>2. ReportedReady(px'[d]) => ReportedReady(px[d])
        BY <2>2, <2>4, RetoldReady
      <3>3. ReportedReady(px[d]) => Newer(d)
        BY <1>1, <1>2, <1>10, <2>1, ReadyHeld DEF Tracked, PauseSeen
      <3>4. ReportedReady(px'[d]) => Roused(d)'
        BY <2>2, <2>4, <3>2, <3>3 DEF Woken, Roused
      <3>5. Upheld(d)
        BY <1>8, <3>2, <3>4
      <3> QED BY <1>3, <1>6, <3>1, <3>5 DEF Runs
    <2> QED BY <1>1, <1>5, <2>1, <2>2, <2>3, <2>4, PutReady
  <1> QED BY <1>9, <1>10

\* A run begins with the stored version, and is what the key was queued for.
LEMMA BeginReadied ==
    ASSUME Context, NEW d \in DB, RunPerconaXtraDB(d)
    PROVE  Readied(d)'
  <1>0. IInv /\ IInv' /\ Readied(d) /\ Order(d) /\ (NoneDeleted' => NoneDeleted)
    BY DEF Context, ReadyInv, HaltInv
  <1>1. /\ UNCHANGED <<px, watch, cache, shootVars, restore>> /\ faults' = faults
        /\ \/ pc'[d] = "idle" /\ failures'[d] = 0 /\ (~Exists(cache[d]) \/ ~cache[d].fin)
           \/ pc'[d] \in TermLocs /\ failures'[d] = failures[d] /\ cache[d].del
           \/ pc'[d] = "addFinalizer" /\ failures'[d] = failures[d] /\ my'[d] = cache[d]
    <2>1. restore' = restore
      BY DEF RunPerconaXtraDB
    <2> QED BY <1>0, <2>1, BeginForms
  <1>2. /\ px'[d] = px[d] /\ cache'[d] = cache[d] /\ restore'[d] = restore[d] /\ res'[d] = res[d]
        /\ px[d] \in Px /\ Kept(px[d]) /\ failures[d] \in Nat /\ faults \in Nat
    BY <1>0, <1>1, Copy, Numbers DEF shootVars, Order
  <1>3. 0 \in Positions(d) /\ Version(d, 0) = cache[d]
    BY DEF Positions, Version
  <1>4. Started(d)' => my'[d] = cache[d]
    BY <1>1, Disjoint, Places DEF Started, TermLocs, Held, CreateLocs, HaltLocs
  <1>5. Positions(d)' = Positions(d) /\ \A i \in Positions(d) : Version(d, i)' = Version(d, i)
    BY <1>1 DEF Positions, Version
  <1>6. Faithful(d)'
    BY <1>0, <1>2, <1>3, <1>4, <1>5 DEF Readied, Faithful
  <1>7. Superseded(d)'
    BY <1>2, <1>4 DEF Superseded, Newer, Alike
  <1>8. Waiting(d)'
    BY <1>0, <1>2, <1>4 DEF Readied, Waiting, Roused, Waits
  <1>9. Built(d)'
    BY <1>1 DEF Built, TermLocs, HaltLocs
  <1>10. Governed(d)'
    BY <1>0, <1>2 DEF Readied, Governed
  <1>11. ASSUME ReportedReady(px[d]) PROVE Roused(d)' \/ pc'[d] \in Applying
    <2>1. px[d].fin /\ ~px[d].del /\ px[d].uid # 0
      BY <1>2, <1>11, ReadyHeld
    <2>2. CASE pc'[d] = "idle" /\ (~Exists(cache[d]) \/ ~cache[d].fin)
      BY <1>2, <2>1, <2>2 DEF Roused, Newer, Alike, Exists
    <2>3. CASE cache[d].del
      BY <1>0, <1>3, <2>1, <2>3 DEF IInv, Reconciling, Incarnations, Incarnation, FinalizerSeen
    <2>4. CASE pc'[d] = "addFinalizer"
      BY <2>4 DEF Applying
    <2> QED BY <1>1, <2>2, <2>3, <2>4
  <1>12. Returning(d)'
    BY <1>0, <1>1, <1>2, <1>11 DEF Readied, Returning
  <1> QED BY <1>6, <1>7, <1>8, <1>9, <1>10, <1>12 DEF Readied

\* The beginning of a run.
LEMMA BeginReady ==
    ASSUME Context, NEW d \in DB, RunPerconaXtraDB(d)
    PROVE  ReadyInv'
  <1>1. IInv /\ UNCHANGED <<px, watch, cache, restore, res, sts>> /\ FaultsGrow
    <2>1. IInv /\ restore' = restore
      BY DEF Context, RunPerconaXtraDB
    <2> QED BY <2>1, BeginForms, FaultsStay DEF shootVars
  <1>2. ASSUME NEW e \in DB \ {d} PROVE Readied(e)'
    <2>1. RunStays(e) /\ VersionLink(e) /\ px'[e] = px[e] /\ cache'[e] = cache[e]
      BY <1>1, BeginForms, QuietLinks DEF RunStays
    <2>2. Moved(e) /\ Stands(e) /\ RestoreKept /\ (ReportedReady(px'[e]) => ReportedReady(px[e]))
      BY <1>1 DEF Moved, Stands, RestoreKept
    <2>3. Woken(e)
      BY <1>1, <2>1, QuietHeard, StillWoken DEF RunStays
    <2> QED BY <1>1, <2>1, <2>2, <2>3, RestsReadied
  <1> QED BY <1>2, BeginReadied DEF ReadyInv

----------------------------------------------------------------------------
(* The informer, restarts, and what others do.                               *)

\* Steps outside all runs that leave the objects alone.
LEMMA AllRest ==
    ASSUME Context, UNCHANGED <<px, watch, cache>>, faults' = faults, RestoreKept,
           \A e \in DB : RunStays(e) /\ Stands(e)
    PROVE  ReadyInv'
  <1> SUFFICES ASSUME NEW e \in DB PROVE Readied(e)'
    BY DEF ReadyInv
  <1>1. /\ IInv /\ VersionLink(e) /\ px'[e] = px[e] /\ cache'[e] = cache[e]
        /\ RunStays(e) /\ Stands(e)
    BY QuietLinks DEF Context
  <1>2. Moved(e) /\ (ReportedReady(px'[e]) => ReportedReady(px[e]))
    BY <1>1 DEF Moved
  <1>3. Woken(e) /\ FaultsGrow
    BY <1>1, QuietHeard, StillWoken, FaultsStay DEF RunStays
  <1> QED BY <1>1, <1>2, <1>3, RestsReadied

\* Delivery leaves every wake-up: a version that ends a wait is one.
LEMMA DeliverWoken ==
    ASSUME IInv, Deliver, NEW e \in DB, Order(e)
    PROVE  Woken(e)
  <1>1. Heard(e)
    BY DeliverHeard
  <1>2. /\ watch \in Seq(Entries) /\ watch # << >> /\ cache \in [DB -> Px]
        /\ cache' = [cache EXCEPT ![Head(watch).db] = Head(watch).obj]
        /\ dirty' = IF Enqueues(cache[Head(watch).db], Head(watch).obj)
                    THEN dirty \cup {Head(watch).db} ELSE dirty
    BY DEF Deliver, IInv, Reconciling, ObjOK, WorkOK, Entries
  <1>3. Head(watch).db \in DB
    <2>1. Head(watch) \in Entries
      BY <1>2
    <2> QED BY <2>1 DEF Entries
  <1>4. Waits(cache[e]) => e \in dirty' \/ Waits(cache'[e])
    <2>1. CASE Head(watch).db # e
      BY <1>2, <1>3, <2>1
    <2>2. CASE Head(watch).db = e
      <3> DEFINE o == Head(watch).obj
      <3>1. cache'[e] = o /\ (Enqueues(cache[e], o) => e \in dirty')
        BY <1>2, <1>3, <2>2
      <3> HIDE DEF o
      <3>2. Waits(cache[e]) /\ ~Waits(o) => Status(cache[e]) # Status(o)
        BY DEF Waits, AwaitsRestore, Status
      <3> QED BY <3>1, <3>2 DEF Enqueues
    <2> QED BY <2>1, <2>2
  <1> QED BY <1>1, <1>4 DEF Woken, Heard, Roused, Newer

\* The informer.
LEMMA DeliverReady ==
    ASSUME Context, Deliver
    PROVE  ReadyInv'
  <1> SUFFICES ASSUME NEW e \in DB PROVE Readied(e)'
    BY DEF ReadyInv
  <1>1. IInv /\ ObjOK /\ WorkOK /\ Order(e)
    BY DEF Context, HaltInv, IInv, Reconciling
  <1>2. /\ UNCHANGED <<px, failures, pc, my, res, sts, restore>> /\ faults' = faults
        /\ dirty \subseteq dirty'
    BY DEF Deliver, countVars, shootVars
  <1>3. VersionLink(e)
    BY <1>1, Delivered DEF VersionLink
  <1>4. /\ Moved(e) /\ Stands(e) /\ RunStays(e) /\ RestoreKept
        /\ ReportedReady(px'[e]) => ReportedReady(px[e])
    BY <1>2 DEF Moved, Stands, RunStays, RestoreKept
  <1>5. Woken(e) /\ FaultsGrow
    BY <1>1, <1>2, DeliverWoken, FaultsStay
  <1> QED BY <1>3, <1>4, <1>5, RestsReadied

\* A restart enqueues every object.
LEMMA StartReady ==
    ASSUME Context, StartOperator, faults' = faults
    PROVE  ReadyInv'
  <1> SUFFICES ASSUME NEW e \in DB PROVE Readied(e)'
    BY DEF ReadyInv
  <1>1. Readied(e) /\ faults \in Nat /\ (NoneDeleted' => NoneDeleted)
    BY Numbers DEF Context, ReadyInv
  <1>2. /\ px' = px /\ cache' = px /\ watch' = << >> /\ pc'[e] = "idle" /\ failures'[e] = 0
        /\ (Exists(px[e]) => e \in dirty') /\ res' = res /\ restore' = restore
    BY DEF StartOperator, shootVars
  <1>3. Positions(e)' = {0} /\ Version(e, 0)' = px[e]
    BY <1>2 DEF Positions, Version
  <1>4. ~Started(e)'
    BY <1>2, Places DEF Started
  <1>5. Faithful(e)'
    BY <1>1, <1>2, <1>3, <1>4 DEF Readied, Faithful, Agrees
  <1>6. Superseded(e)' /\ Built(e)'
    BY <1>2, <1>4 DEF Superseded, Built, HaltLocs
  <1>7. Waiting(e)'
    BY <1>1, <1>2, <1>4 DEF Readied, Waiting
  <1>8. Returning(e)'
    BY <1>1, <1>2 DEF Returning, ReportedReady, Roused, Newer
  <1>9. Governed(e)'
    BY <1>1, <1>2 DEF Readied, Governed
  <1> QED BY <1>5, <1>6, <1>7, <1>8, <1>9 DEF Readied

\* The live object gets another version, by somebody else.
LEMMA OthersPutReady ==
    ASSUME Context, NEW d \in DB, NEW o \in Px, SetPx(d, o),
           UNCHANGED <<workVars, shootVars, restore>>, faults' = faults,
           Grown(px[d], o) \/ Fresh(o), px'[d] = o => Moved(d),
           ReportedReady(o) => ReportedReady(px[d])
    PROVE  ReadyInv'
  <1>1. /\ cache' = cache /\ restore' = restore
        /\ \A e \in DB : RunStays(e) /\ res'[e] = res[e] /\ sts'[e] = sts[e]
    BY DEF RunStays, workVars, shootVars
  <1>2. FaultsGrow
    BY FaultsStay DEF Context
  <1>3. Apart(d) /\ Stands(d)
    BY <1>1, <1>2 DEF Apart, RunStays, Stands
  <1>4. px'[d] = o /\ Woken(d) => Runs(d)
    BY <1>1, <1>3, RestsRuns
  <1> QED BY <1>1, <1>3, <1>4, PutReady

\* Users.
LEMMA UserReady ==
    ASSUME Context, NEW d \in DB, UserStep(d), ~CreateRestoreSession(d)
    PROVE  ReadyInv'
  <1>0. IInv /\ HaltInv
    BY DEF Context
  <1>1. ASSUME NEW o \in Px, Fresh(o), SetPx(d, o), UNCHANGED <<workVars, shootVars, restore>>,
               faults' = faults, ~px[d].fin
        PROVE  ReadyInv'
    <2>1. ~ReportedReady(o) /\ (px'[d] = o => Moved(d))
      BY <1>1 DEF Fresh, Loud, ReportedReady, Moved
    <2> QED BY <1>1, <2>1, OthersPutReady
  <1>2. ASSUME NEW o \in Px, Grown(px[d], o), Retold(px[d], o), SetPx(d, o),
               UNCHANGED <<workVars, shootVars, restore>>, faults' = faults
        PROVE  ReadyInv'
    <2>1. (ReportedReady(o) => ReportedReady(px[d])) /\ (px'[d] = o => Moved(d))
      BY <1>2, RetoldReady DEF Moved, Retold
    <2> QED BY <1>2, <2>1, OthersPutReady
  <1>3. CASE CreatePx(d)
    <2>1. ~px[d].fin
      BY <1>0, <1>3 DEF CreatePx, Exists, IInv, Reconciling, Incarnations, Incarnation, NothingThere
    <2> QED BY <1>0, <1>1, <1>3, <2>1, CreateVersion
  <1>4. CASE DeletePx(d)
    BY <1>0, <1>1, <1>2, <1>4, DeleteVersion, NoPxFresh
  <1>5. CASE ~CreatePx(d) /\ ~DeletePx(d)
    BY <1>0, <1>2, <1>5, EditVersions DEF UserStep
  <1> QED BY <1>3, <1>4, <1>5

\* The StatefulSet controller, and the collector, which takes what belongs to no object.
LEMMA KubernetesReady ==
    ASSUME Context, NEW d \in DB, KubernetesStep(d)
    PROVE  ReadyInv'
  <1>1. UNCHANGED <<px, watch, workVars, restore>> /\ faults' = faults
    BY DEF KubernetesStep, CreatePods, StartPods, DeletePods, CollectOffshoot, CollectSts,
           CollectPvc, objVars, countVars
  <1>2. res \in [DB -> [Kinds -> Owner]] /\ sts \in [DB -> Sts]
    BY DEF Context, IInv, Offshoots, ShootOK
  <1>3. \A e \in DB : Stands(e)
    <2>1. CASE CreatePods(d) \/ StartPods(d) \/ DeletePods(d) \/ CollectPvc(d)
      BY <2>1 DEF CreatePods, StartPods, DeletePods, CollectPvc, Stands
    <2>2. CASE \E k \in Kinds : CollectOffshoot(d, k)
      <3>1. PICK k \in Kinds : /\ res' = [res EXCEPT ![d][k] = Absent] /\ sts' = sts
                               /\ res[d][k] # px[d].uid
        BY <2>2 DEF CollectOffshoot, Dangling
      <3>2. \A e \in DB : \A j \in Kinds : \/ res'[e][j] = res[e][j]
                                           \/ res'[e][j] = Absent /\ res[e][j] # px[e].uid
        BY <1>2, <3>1
      <3> QED BY <3>1, <3>2 DEF Stands
    <2>3. CASE CollectSts(d)
      <3>1. sts' = [sts EXCEPT ![d] = NoSts] /\ res' = res /\ sts[d].owner # px[d].uid
        BY <2>3 DEF CollectSts, DropSts, Dangling
      <3>2. \A e \in DB : sts'[e] = sts[e] \/ sts[e].owner # px[e].uid
        BY <1>2, <3>1
      <3> QED BY <3>1, <3>2 DEF Stands
    <2> QED BY <2>1, <2>2, <2>3 DEF KubernetesStep
  <1>4. \A e \in DB : RunStays(e)
    BY <1>1 DEF RunStays, workVars
  <1>5. UNCHANGED <<px, watch, cache>> /\ RestoreKept
    BY <1>1 DEF workVars, RestoreKept
  <1> QED BY <1>1, <1>3, <1>4, <1>5, AllRest

\* The objects and the runs on them are not touched.
LEMMA UntouchedReady ==
    ASSUME Context, UNCHANGED <<px, watch, cache, failures, pc, my, res, sts>>,
           dirty \subseteq dirty', faults' = faults, RestoreKept
    PROVE  ReadyInv'
  <1>1. \A e \in DB : RunStays(e) /\ Stands(e)
    BY DEF RunStays, Stands
  <1> QED BY <1>1, AllRest

\* Stash, and the conditions that a restore writes: a restore that has succeeded stays so.
LEMMA StashReady ==
    ASSUME Context, NEW d \in DB, StashStep(d)
    PROVE  ReadyInv'
  <1>1. CASE RunRestore(d) \/ RetryRestore(d)
    <2>1. UNCHANGED <<objVars, workVars, shootVars, countVars>>
      BY <1>1 DEF RunRestore, RetryRestore
    <2>2. RestoreKept
      BY <1>1 DEF RunRestore, RetryRestore, RestoreKept, Context, IInv, Offshoots, ShootOK
    <2> QED BY <2>1, <2>2, UntouchedReady DEF objVars, workVars, shootVars, countVars
  <1>2. CASE ProcessRestoreSession(d)
    <2>1. px[d] \in Px /\ px[d].uid # 0 /\ Kept(px[d]) /\ Readied(d)
      BY <1>2, Copy DEF ProcessRestoreSession, Exists, HaltInv, Order, Context, ReadyInv
    <2>2. /\ UNCHANGED <<workVars, shootVars, restore>> /\ faults' = faults
          /\ px[d].restored # (restore[d] = "Succeeded")
      BY <1>2 DEF ProcessRestoreSession, countVars
    <2>3. PICK b \in BOOLEAN : b = (restore[d] = "Succeeded")
      OBVIOUS
    <2>4. PICK n : n = [px[d] EXCEPT !.restored = b]
      OBVIOUS
    <2>5. SetPx(d, n)
      BY <1>2, <2>3, <2>4 DEF ProcessRestoreSession
    <2>6. n \in Px /\ Grown(px[d], n)
      BY <2>1, <2>4, ConditionGrown
    <2>7. /\ n.restored = b /\ n.provisioned = px[d].provisioned /\ n.del = px[d].del
          /\ n.halted = px[d].halted /\ n.phase = px[d].phase /\ n.obsGen = px[d].obsGen
          /\ n.gen = px[d].gen
      BY <2>1, <2>4 DEF Px
    <2>8. restore[d] = "Succeeded"
      <3>1. px[d].restored \in BOOLEAN /\ (px[d].restored => restore[d] = "Succeeded")
        BY <2>1, PxFields DEF Readied, Faithful
      <3> QED BY <2>2, <3>1
    <2>9. px'[d] = n => Moved(d)
      BY <2>3, <2>6, <2>7, <2>8 DEF Moved
    <2>10. ReportedReady(n) => ReportedReady(px[d])
      BY <2>1, <2>7 DEF ReportedReady, Exists
    <2> QED BY <2>2, <2>5, <2>6, <2>9, <2>10, OthersPutReady
  <1> QED BY <1>1, <1>2 DEF StashStep

----------------------------------------------------------------------------
(* The invariant, and the theorems.                                          *)

\* The invariant holds at the start, ...
LEMMA ReadyInitial == Init => ReadyInv
  <1> SUFFICES ASSUME Init, NEW d \in DB PROVE Readied(d)
    BY DEF ReadyInv
  <1>1. /\ px[d] = NoPx /\ cache[d] = NoPx /\ watch = << >> /\ pc[d] = "idle"
        /\ res[d]["gvr"] = Absent
    BY DEF Init, Kinds
  <1>2. Positions(d) = {0} /\ NoPx.uid = 0 /\ ~NoPx.restored
    <2>1. Positions(d) = {0}
      BY <1>1 DEF Positions
    <2> QED BY <2>1 DEF NoPx
  <1>3. ~Started(d) /\ ~ReportedReady(px[d])
    BY <1>1, <1>2, Places DEF Started, ReportedReady, Exists
  <1>4. Faithful(d) /\ Governed(d)
    BY <1>1, <1>2, <1>3 DEF Faithful, Agrees, Governed
  <1>5. Superseded(d) /\ Waiting(d) /\ Built(d) /\ Returning(d)
    BY <1>1, <1>3 DEF Superseded, Waiting, Built, HaltLocs, Returning
  <1> QED BY <1>4, <1>5 DEF Readied

\* ... and every step keeps it, while retries are left and validation is sound.
LEMMA ReadyInductive ==
    ASSUME IInv, IInv', Sharing, HaltInv, Credentials, ReadyInv, [Next]_vars,
           [SoundValidation]_vars, faults' \leq MaxRetries
    PROVE  ReadyInv'
  <1>0. Context
    BY SafeBefore DEF Context, Sharing, Seen
  <1>1. ASSUME NEW d \in DB, Resync(d) PROVE ReadyInv'
    BY <1>0, <1>1, UntouchedReady DEF Resync, objVars, shootVars, countVars, RestoreKept
  <1>2. ASSUME NEW d \in DB, WorkerStep(d) PROVE ReadyInv'
    <2>1. CASE NotFound(d)
      <3>1. /\ Error(d) /\ faults' = faults /\ ~Exists(px[d]) /\ pc[d] # "fail"
            /\ pc[d] \notin {"idle", "validate"}
        BY <2>1 DEF NotFound, ObjectLocs
      <3> QED BY <1>0, <3>1, ErrorReady
    <2> QED BY <1>0, <1>2, <2>1, FinalizerReady, CreateReady, HaltReady, TerminateReady,
               FailureReady DEF WorkerStep
  <1>3. ASSUME NEW d \in DB, FaultStep(d) PROVE ReadyInv'
    <2>1. CASE CallFails(d)
      <3>1. Error(d) /\ faults' = faults + 1 /\ pc[d] # "idle"
        BY <2>1 DEF CallFails, Silent
      <3>2. faults' # faults
        BY <3>1 DEF IInv, Offshoots, CountOK
      <3>3. pc[d] # "validate"
        BY <2>1, <3>2 DEF SoundValidation, vars, countVars
      <3> QED BY <1>0, <3>1, <3>3, ErrorReady
    <2>2. CASE PushFailurePanics(d)
      BY <1>0, <2>2, StartReady DEF PushFailurePanics
    <2> QED BY <1>3, <2>1, <2>2 DEF FaultStep
  <1>4. ASSUME NEW d \in DB, UserStep(d) PROVE ReadyInv'
    <2>1. CASE CreateRestoreSession(d)
      <3>1. UNCHANGED <<objVars, workVars, shootVars, countVars>>
        BY <2>1 DEF CreateRestoreSession
      <3>2. RestoreKept
        BY <2>1 DEF CreateRestoreSession, RestoreKept, IInv, Offshoots, ShootOK
      <3> QED BY <1>0, <3>1, <3>2, UntouchedReady DEF objVars, workVars, shootVars, countVars
    <2> QED BY <1>0, <1>4, <2>1, UserReady
  <1>5. ASSUME NEW s \in SecretNames, CollectSecret(s) PROVE ReadyInv'
    BY <1>0, <1>5, UntouchedReady DEF CollectSecret, objVars, workVars, countVars, RestoreKept
  <1>6. CASE Crash
    BY <1>0, <1>6, StartReady DEF Crash
  <1>7. CASE UNCHANGED vars
    BY <1>0, <1>7, UntouchedReady DEF vars, objVars, workVars, shootVars, countVars, RestoreKept
  <1> QED BY <1>0, <1>1, <1>2, <1>3, <1>4, <1>5, <1>6, <1>7, DeliverReady, BeginReady,
             KubernetesReady, StashReady DEF Next

\* The invariant until more calls have failed than a key is retried, and until one has.
ReadyOrDropped == faults \leq MaxRetries /\ NoneWipedOut => ReadyInv
ReadyFaultless == faults = 0 /\ NoneWipedOut => ReadyInv

\* A step of a behaviour that keeps the other invariants keeps this one.
LEMMA ReadyStep ==
    ASSUME IInv, IInv', Sharing, Counted, SafeCredentials, [Next]_vars
    PROVE  /\ ReadyOrDropped /\ [SoundValidation]_vars => ReadyOrDropped'
           /\ ReadyFaultless => ReadyFaultless'
  <1>1. /\ faults \leq faults' /\ faults \in Nat /\ faults' \in Nat /\ MaxRetries \in Nat
        /\ NoneWipedOut' => NoneWipedOut
    BY FaultsCounted, SafeBefore, ControllerAssumption
       DEF IInv, Offshoots, CountOK, ControllerAssumption, Safely
  <1>2. ASSUME ReadyInv, [SoundValidation]_vars, faults' \leq MaxRetries, NoneWipedOut'
        PROVE  ReadyInv'
    <2>1. HaltInv /\ Credentials
      BY <1>1, <1>2 DEF Counted, HaltedOrDropped, SafeCredentials
    <2> QED BY <1>2, <2>1, ReadyInductive
  <1>3. faults' \leq MaxRetries => faults \leq MaxRetries
    BY <1>1
  <1>4. faults' = 0 => faults = 0 /\ faults' \leq MaxRetries /\ SoundValidation
    <2>1. faults' = 0 => faults = 0 /\ faults' \leq MaxRetries /\ faults' # faults + 1
      BY <1>1
    <2> QED BY <2>1 DEF SoundValidation, CallFails
  <1>5. ReadyOrDropped /\ [SoundValidation]_vars => ReadyOrDropped'
    BY <1>1, <1>2, <1>3 DEF ReadyOrDropped
  <1>6. ReadyFaultless => ReadyFaultless'
    BY <1>1, <1>2, <1>4 DEF ReadyFaultless
  <1> QED BY <1>5, <1>6

\* Where nothing is left to do, what is reported is in place.
LEMMA SettledApplied ==
    ASSUME ReadyInv, NEW d \in DB, Settled(d, "Ready"), ~px[d].halted
    PROVE  Applied(d)
  <1>1. /\ ReportedReady(px[d]) /\ pc[d] = "idle" /\ d \notin dirty /\ cache[d] = px[d]
        /\ ~px[d].paused /\ Readied(d)
    BY DEF Settled, ReportedReady, ReadyInv
  <1>2. ~Roused(d)
    BY <1>1 DEF Roused, Newer, Alike, Waits, Readied, Waiting
  <1>3. pc[d] \notin Applying
    BY <1>1 DEF Applying, CreateLocs
  <1> QED BY <1>1, <1>2, <1>3 DEF Readied, Returning

\* What the invariant says of the properties.
LEMMA ReadyImplies ==
    ASSUME ReadyInv
    PROVE  ObservedApplied /\ (NoneDeleted => GoverningServiceKept)
  BY SettledApplied DEF ObservedApplied, GoverningServiceKept, Applied

\* No deletion is no wipe-out.
LEMMA NoneDeletedSafe == NoneDeleted => NoneWipedOut
  BY DEF NoneDeleted, NoneWipedOut

(* status.observedGeneration (percona_xtradb.go:153) never says more than    *)
(* what was applied: a database that is reported Ready for its present spec, *)
(* and for which the operator has nothing left to do, has the StatefulSet of *)
(* exactly this spec and incarnation, its service, RBAC objects and          *)
(* AppBinding.  This is so until a call fails or a wipe-out is asked for.    *)
THEOREM ObservedIsApplied == Spec => [](faults = 0 /\ NoneWipedOut => ObservedApplied)
  <1>1. Init => ReadyFaultless
    BY ReadyInitial DEF ReadyFaultless
  <1>2. IInv /\ IInv' /\ Sharing /\ Counted /\ SafeCredentials /\ [Next]_vars /\ ReadyFaultless
          => ReadyFaultless'
    BY ReadyStep
  <1>3. ReadyFaultless => (faults = 0 /\ NoneWipedOut => ObservedApplied)
    BY ReadyImplies DEF ReadyFaultless
  <1> QED BY <1>1, <1>2, <1>3, Invariance, SharingInvariance, HaltInvariance,
             CredentialsInvariance, PTL DEF Spec

(* The same while calls fail, as long as no more have failed than a key is   *)
(* retried (MaxNumRequeues, worker.go:92-108), and none of them in           *)
(* validation, which swallows the error of its call and ends the run as if   *)
(* it had done its work (percona_xtradb.go:39-49).                           *)
THEOREM ObservedIsAppliedDespiteFaults ==
    Spec /\ [][SoundValidation]_vars =>
        [](faults \leq MaxRetries /\ NoneWipedOut => ObservedApplied)
  <1>1. Init => ReadyOrDropped
    BY ReadyInitial DEF ReadyOrDropped
  <1>2. IInv /\ IInv' /\ Sharing /\ Counted /\ SafeCredentials /\ [Next]_vars /\ ReadyOrDropped
          /\ [SoundValidation]_vars => ReadyOrDropped'
    BY ReadyStep
  <1>3. ReadyOrDropped => (faults \leq MaxRetries /\ NoneWipedOut => ObservedApplied)
    BY ReadyImplies DEF ReadyOrDropped
  <1> QED BY <1>1, <1>2, <1>3, Invariance, SharingInvariance, HaltInvariance,
             CredentialsInvariance, PTL DEF Spec

(* ... and its governing service, which createPerconaXtraDBGoverningService  *)
(* takes whoever owns it (service.go:197), and which therefore may be about  *)
(* to be collected with an earlier incarnation: as long as no database with  *)
(* its finalizer was deleted, there is none.                                 *)
THEOREM GoverningServiceStays ==
    /\ Spec => [](faults = 0 /\ NoneDeleted => GoverningServiceKept)
    /\ Spec /\ [][SoundValidation]_vars =>
          [](faults \leq MaxRetries /\ NoneDeleted => GoverningServiceKept)
  <1>1. Init => ReadyOrDropped /\ ReadyFaultless
    BY ReadyInitial DEF ReadyOrDropped, ReadyFaultless
  <1>2. IInv /\ IInv' /\ Sharing /\ Counted /\ SafeCredentials /\ [Next]_vars =>
          /\ ReadyOrDropped /\ [SoundValidation]_vars => ReadyOrDropped'
          /\ ReadyFaultless => ReadyFaultless'
    BY ReadyStep
  <1>3. /\ ReadyFaultless => (faults = 0 /\ NoneDeleted => GoverningServiceKept)
        /\ ReadyOrDropped => (faults \leq MaxRetries /\ NoneDeleted => GoverningServiceKept)
    BY ReadyImplies, NoneDeletedSafe DEF ReadyFaultless, ReadyOrDropped
  <1> QED BY <1>1, <1>2, <1>3, Invariance, SharingInvariance, HaltInvariance,
             CredentialsInvariance, PTL DEF Spec
=============================================================================
