----------------------------- MODULE HaltProofs -----------------------------
(***************************************************************************)
(* Proof about Controller: a database that is reported Halted for its       *)
(* present spec, and on which the operator has nothing left to do, has left *)
(* nothing running, until more calls have failed than a key is retried.     *)
(*                                                                          *)
(* A run of create from an older copy can make the StatefulSet again after  *)
(* the report.  The argument is that another run, with halt, then follows:  *)
(* the informer gets the live version last and every change of spec or      *)
(* finalizer with a wake-up (Order), so that a create that began before the *)
(* halt has a wake-up behind it (Overtaken), which nothing takes away       *)
(* before the halt itself is under way (InHand, PauseSeen); that halt is    *)
(* done in order (Emptied), or fails and is retried (Retried).              *)
(***************************************************************************)
EXTENDS SharingProofs

\* Versions of one object with the same spec and finalizer.
Alike(v, o) == v.uid = o.uid /\ v.gen = o.gen /\ v.fin = o.fin

\* The handler enqueues the key for this version whatever the store has.
Loud(o) == ~Exists(o) \/ o.obsGen # o.gen

\* A version of the live object o is not ahead of it.
Below(v, o) ==
    o.uid # 0 /\ v.uid = o.uid =>
        /\ v.gen \leq o.gen /\ (v.fin => o.fin)
        /\ v.gen = o.gen => v.halted = o.halted

\* Only what exists is reported on, and only with the finalizer set.
Kept(o) == o.uid # 0 => /\ 1 \leq o.gen /\ o.obsGen \leq o.gen
                        /\ ~o.fin => o.obsGen = 0

\* The informer gets the live object last, ...
Ends(d) == \E j \in Positions(d) : Version(d, j) = px[d] /\ \A k \in Positions(d) : k \leq j

\* ... nothing that is ahead of it, ...
Behind(d) == \A i \in Positions(d) : Below(Version(d, i), px[d])

\* ... and every change of the spec or the finalizer with a wake-up.
Announced(d) ==
    \A i, j \in Positions(d) : i < j /\ ~Alike(Version(d, i), Version(d, j)) =>
        \E k \in Positions(d) : i < k /\ k \leq j /\ Loud(Version(d, k))

Order(d) == Kept(px[d]) /\ Ends(d) /\ Behind(d) /\ Announced(d)

----------------------------------------------------------------------------
(* The live object gets another version: p becomes o.                        *)
Grown(p, o) ==
    /\ p.uid # 0 /\ o.uid = p.uid
    /\ p.gen \leq o.gen /\ (p.fin => o.fin)
    /\ o.gen = p.gen => o.halted = p.halted /\ o.rev = p.rev /\ o.secret = p.secret
    /\ Kept(o)
    /\ Alike(p, o) \/ Loud(o)

(* ... which, unless the spec has changed, says of it what the old one said. *)
Retold(p, o) ==
    /\ o.restored = p.restored /\ (p.provisioned => o.provisioned)
    /\ o.gen = p.gen => o.phase = p.phase /\ o.obsGen = p.obsGen /\ o.del = p.del

(* The object goes, or there is a new one.                                   *)
Fresh(o) ==
    /\ ~o.halted /\ ~o.fin /\ ~o.del /\ ~o.restored /\ Kept(o) /\ Loud(o)
    /\ o.uid = 0 \/ ~(o.uid \leq uids)

\* The types of versions and their places.
LEMMA VersionIsPx ==
    ASSUME IInv, NEW d \in DB, NEW i \in Positions(d)
    PROVE  Version(d, i) \in Px /\ i \in Nat
  <1>1. /\ watch \in Seq(Entries) /\ cache[d] \in Px
    BY Copy DEF IInv, Reconciling, ObjOK, Entries
  <1>2. Len(watch) \in Nat /\ \A n \in 1..Len(watch) : watch[n].obj \in Px
    BY <1>1, WatchEntry
  <1> QED BY <1>1, <1>2 DEF Positions, Version

\* A write, with the wake-up it owes, keeps the order of versions.
LEMMA PutOrder ==
    ASSUME IInv, UidsFresh, NEW d \in DB, NEW o \in Px, Put(d, o), Order(d),
           Grown(px[d], o) \/ Fresh(o)
    PROVE  Order(d)'
  <1>1. /\ px'[d] = o
        /\ \A i \in Positions(d)' : \/ i \in Positions(d) /\ Version(d, i)' = Version(d, i)
                                    \/ i = Len(watch) + 1 /\ Version(d, i)' = o
        /\ \A i \in Positions(d) : /\ i \in Int /\ i < Len(watch) + 1
                                   /\ i \in Positions(d)' /\ Version(d, i)' = Version(d, i)
        /\ o = px[d] \/ \E n \in Positions(d)' : n = Len(watch) + 1 /\ Version(d, n)' = o
        /\ Len(watch) \in Nat
    BY DEF Put
  <1>2. /\ px[d] \in Px /\ px[d].gen \in Nat /\ o.gen \in Nat
        /\ \A i \in Positions(d) : Version(d, i).gen \in Nat
    BY Copy, VersionIsPx, PxFields
  <1>3. Kept(o)
    BY DEF Grown, Fresh
  <1>4. Ends(d)'
    <2>1. CASE o = px[d]
      <3>1. PICK j \in Positions(d) : Version(d, j) = px[d] /\ \A k \in Positions(d) : k \leq j
        BY DEF Order, Ends
      <3>2. CASE \E n \in Positions(d)' : n = Len(watch) + 1 /\ Version(d, n)' = o
        <4>1. PICK n \in Positions(d)' : n = Len(watch) + 1 /\ Version(d, n)' = o
          BY <3>2
        <4>2. \A k \in Positions(d)' : k \leq n
          BY <1>1, <4>1
        <4> QED BY <1>1, <4>1, <4>2 DEF Ends
      <3>3. CASE ~ \E n \in Positions(d)' : n = Len(watch) + 1 /\ Version(d, n)' = o
        <4>1. \A k \in Positions(d)' : k \in Positions(d)
          BY <1>1, <3>3
        <4> QED BY <1>1, <2>1, <3>1, <4>1 DEF Ends
      <3> QED BY <3>2, <3>3
    <2>2. CASE \E n \in Positions(d)' : n = Len(watch) + 1 /\ Version(d, n)' = o
      <3>1. PICK n \in Positions(d)' : n = Len(watch) + 1 /\ Version(d, n)' = o
        BY <2>2
      <3>2. \A k \in Positions(d)' : k \leq n
        BY <1>1, <3>1
      <3> QED BY <1>1, <3>1, <3>2 DEF Ends
    <2> QED BY <1>1, <2>1, <2>2
  <1>5. Behind(d)'
    <2> SUFFICES ASSUME NEW i \in Positions(d)'
                 PROVE  Below(Version(d, i)', o)
      BY <1>1 DEF Behind, Below
    <2>1. CASE Version(d, i)' = o
      BY <1>2, <2>1 DEF Below
    <2>2. CASE i \in Positions(d) /\ Version(d, i)' = Version(d, i)
      <3>1. Below(Version(d, i), px[d]) /\ Version(d, i).uid \leq uids
        BY <2>2 DEF Order, Behind, UidsFresh
      <3>2. CASE Grown(px[d], o)
        BY <1>2, <2>2, <3>1, <3>2 DEF Below, Grown
      <3>3. CASE Fresh(o)
        BY <2>2, <3>1, <3>3 DEF Below, Fresh
      <3> QED BY <3>2, <3>3
    <2> QED BY <1>1, <2>1, <2>2
  <1>6. Announced(d)'
    <2> SUFFICES ASSUME NEW i \in Positions(d)', NEW j \in Positions(d)', i < j,
                        ~Alike(Version(d, i)', Version(d, j)')
                 PROVE  \E k \in Positions(d)' : i < k /\ k \leq j /\ Loud(Version(d, k)')
      BY DEF Announced, Alike, Loud, Exists
    <2>0. i \in Int /\ j \in Int
      BY <1>1
    <2>1. CASE j \in Positions(d) /\ Version(d, j)' = Version(d, j)
      <3>1. i \in Positions(d) /\ Version(d, i)' = Version(d, i)
        BY <1>1, <2>1
      <3>2. PICK k \in Positions(d) : i < k /\ k \leq j /\ Loud(Version(d, k))
        BY <2>1, <3>1 DEF Order, Announced
      <3> QED BY <1>1, <3>2
    <2>2. CASE j = Len(watch) + 1 /\ Version(d, j)' = o
      <3>0. i # Len(watch) + 1
        BY <1>1, <2>0, <2>2
      <3>1. i \in Positions(d) /\ Version(d, i)' = Version(d, i)
        BY <1>1, <3>0
      <3>2. CASE Loud(o)
        BY <2>0, <2>2, <3>2
      <3>3. CASE Alike(px[d], o)
        <4>1. PICK l \in Positions(d) : Version(d, l) = px[d] /\ \A k \in Positions(d) : k \leq l
          BY DEF Order, Ends
        <4>2. ~Alike(Version(d, i), Version(d, l)) /\ i # l
          BY <2>2, <3>1, <3>3, <4>1 DEF Alike
        <4>3. i < l /\ l < j
          BY <1>1, <2>2, <3>1, <4>1, <4>2
        <4>4. PICK k \in Positions(d) : i < k /\ k \leq l /\ Loud(Version(d, k))
          BY <3>1, <4>2, <4>3 DEF Order, Announced
        <4>5. k \leq j
          BY <1>1, <2>0, <4>1, <4>3, <4>4
        <4> QED BY <1>1, <4>4, <4>5
      <3> QED BY <3>2, <3>3 DEF Grown, Fresh
    <2> QED BY <1>1, <2>1, <2>2
  <1> QED BY <1>1, <1>3, <1>4, <1>5, <1>6 DEF Order

(* Nothing happens to the object and its versions.                           *)
LEMMA OrderKept ==
    ASSUME NEW d \in DB, Order(d), px'[d] = px[d],
           Positions(d)' = Positions(d),
           \A i \in Positions(d) : Version(d, i)' = Version(d, i)
    PROVE  Order(d)'
  <1>1. Kept(px[d])' /\ Ends(d)'
    BY DEF Order, Kept, Ends
  <1>2. Behind(d)'
    BY DEF Order, Behind, Below
  <1>3. Announced(d)'
    BY DEF Order, Announced, Alike, Loud, Exists
  <1> QED BY <1>1, <1>2, <1>3 DEF Order

\* After a restart only the live object is left.
LEMMA StartOrder ==
    ASSUME IInv, NEW d \in DB, Order(d), StartOperator
    PROVE  Order(d)'
  <1>1. cache' = px /\ watch' = << >> /\ px' = px
    BY DEF StartOperator
  <1>2. Positions(d)' = {0} /\ Version(d, 0)' = px[d]
    BY <1>1 DEF Positions, Version
  <1>3. px[d].gen \in Nat
    BY Copy, PxFields
  <1>4. Kept(px[d])' /\ Ends(d)'
    BY <1>1, <1>2 DEF Order, Kept, Ends
  <1>5. Behind(d)' /\ Announced(d)'
    BY <1>1, <1>2, <1>3 DEF Behind, Below, Announced
  <1> QED BY <1>4, <1>5 DEF Order

(* Every version but the one that the store had is still there.              *)
LEMMA Remains ==
    ASSUME ObjOK, WorkOK, Deliver, NEW d \in DB, NEW i \in Positions(d),
           i # 0 \/ watch[1].db # d
    PROVE  \E j \in Positions(d)' : Shift(d, j) = i
  <1>1. /\ watch \in Seq(Entries) /\ watch # << >> /\ watch' = Tail(watch)
    BY DEF Deliver, ObjOK, Entries
  <1>2. /\ Len(watch) \in Nat \ {0} /\ Len(watch') = Len(watch) - 1
        /\ \A k \in 1..Len(watch') : watch'[k] = watch[k + 1]
    BY <1>1, WatchTail
  <1>3. 0 \in Positions(d)'
    BY DEF Positions
  <1>4. CASE i = 0 \/ (i = 1 /\ watch[1].db = d)
    BY <1>3, <1>4 DEF Shift
  <1>5. CASE i # 0 /\ ~(i = 1 /\ watch[1].db = d)
    <2>1. i \in 1..Len(watch) /\ watch[i].db = d /\ i # 1
      BY <1>5 DEF Positions
    <2>2. PICK j \in 1..Len(watch') : j + 1 = i
      <3>1. i - 1 \in 1..Len(watch') /\ (i - 1) + 1 = i
        BY <1>2, <2>1
      <3> QED BY <3>1
    <2>3. j # 0 /\ watch'[j] = watch[i]
      BY <1>2, <2>2
    <2>4. j \in Positions(d)' /\ Shift(d, j) = i
      BY <2>1, <2>2, <2>3 DEF Positions, Shift
    <2> QED BY <2>4
  <1> QED BY <1>4, <1>5

\* Delivery takes the oldest version away.
LEMMA DeliverOrder ==
    ASSUME IInv, Deliver, NEW d \in DB, Order(d)
    PROVE  Order(d)'
  <1>1. ObjOK /\ WorkOK /\ px' = px
    BY DEF IInv, Reconciling, Deliver
  <1>2. /\ \A i \in Positions(d)' : /\ Shift(d, i) \in Positions(d)
                                    /\ Version(d, i)' = Version(d, Shift(d, i))
        /\ \A i, j \in Positions(d)' : i < j => Shift(d, i) < Shift(d, j)
    BY <1>1, Delivered
  <1>3. (\A i \in Positions(d)' : i \in Nat) /\ (\A i \in Positions(d) : i \in Nat)
    BY DEF Positions
  <1>4. Kept(px[d])'
    BY <1>1 DEF Order, Kept
  <1>5. Ends(d)'
    <2>1. PICK i \in Positions(d) : Version(d, i) = px[d] /\ \A k \in Positions(d) : k \leq i
      BY DEF Order, Ends
    <2>2. i # 0 \/ watch[1].db # d
      <3>1. Len(watch) \in Nat \ {0}
        BY <1>1 DEF Deliver, ObjOK
      <3>2. watch[1].db = d => 1 \in Positions(d)
        BY <3>1 DEF Positions
      <3> QED BY <2>1, <3>2
    <2>3. PICK j \in Positions(d)' : Shift(d, j) = i
      BY <1>1, <2>2, Remains
    <2>4. ASSUME NEW k \in Positions(d)' PROVE k \leq j
      <3>1. ~(j < k)
        BY <1>2, <1>3, <2>1, <2>3
      <3> QED BY <1>3, <3>1
    <2> QED BY <1>1, <1>2, <2>1, <2>3, <2>4 DEF Ends
  <1>6. Behind(d)'
    BY <1>1, <1>2 DEF Order, Behind, Below
  <1>7. Announced(d)'
    <2> SUFFICES ASSUME NEW i \in Positions(d)', NEW j \in Positions(d)', i < j,
                        ~Alike(Version(d, i)', Version(d, j)')
                 PROVE  \E k \in Positions(d)' : i < k /\ k \leq j /\ Loud(Version(d, k)')
      BY DEF Announced, Alike, Loud, Exists
    <2>1. PICK l \in Positions(d) : /\ Shift(d, i) < l /\ l \leq Shift(d, j)
                                    /\ Loud(Version(d, l))
      BY <1>2 DEF Order, Announced
    <2>2. l # 0
      BY <1>2, <1>3, <2>1
    <2>3. PICK k \in Positions(d)' : Shift(d, k) = l
      BY <1>1, <2>2, Remains
    <2>4. ~(k < i) /\ ~(j < k) /\ k # i
      BY <1>2, <1>3, <2>1, <2>3
    <2>5. i < k /\ k \leq j
      BY <1>3, <2>4
    <2> QED BY <1>2, <2>1, <2>3, <2>5
  <1> QED BY <1>4, <1>5, <1>6, <1>7 DEF Order

----------------------------------------------------------------------------
(* Wake-ups.                                                                 *)

\* The key is in the queue, or the informer will put it there.
Newer(d) == d \in dirty \/ ~Alike(cache[d], px[d])
Awake(d) == Newer(d) \/ cache[d].paused

\* The operator says that it has halted the database for its present spec.
Reported(o) == Exists(o) /\ ~o.del /\ o.halted /\ o.phase = "Halted" /\ o.obsGen = o.gen

(* What a step does to the object of d, and which wake-ups it leaves.        *)
Heard(d) ==
    \/ ~px'[d].halted /\ ~px'[d].fin
    \/ /\ Newer(d) \/ ~Alike(px[d], px'[d]) => Newer(d)'
       /\ cache[d].paused => Awake(d)'
       /\ Alike(px[d], px'[d]) => px'[d].halted = px[d].halted
       /\ Reported(px'[d]) => Alike(px[d], px'[d])
       /\ px[d].gen \leq px'[d].gen

\* A write leaves every wake-up, and its own if it changes the spec.
LEMMA PutHeard ==
    ASSUME IInv, NEW d \in DB, NEW o \in Px, Order(d), px'[d] = o, cache'[d] = cache[d],
           Grown(px[d], o) \/ Fresh(o), d \in dirty => d \in dirty'
    PROVE  Heard(d)
  <1>1. CASE Fresh(o)
    BY <1>1 DEF Fresh, Heard
  <1>2. CASE Grown(px[d], o)
    <2>1. 0 \in Positions(d) /\ Version(d, 0) = cache[d]
      BY DEF Positions, Version
    <2>2. Below(cache[d], px[d])
      BY <2>1 DEF Order, Behind
    <2>3. /\ px[d].gen \in Nat /\ o.gen \in Nat /\ cache[d].gen \in Nat
          /\ px[d].fin \in BOOLEAN /\ o.fin \in BOOLEAN /\ cache[d].fin \in BOOLEAN
      BY Copy, PxFields
    <2>4. ~Alike(cache[d], px[d]) \/ ~Alike(px[d], o) => ~Alike(cache[d], o)
      BY <1>2, <2>2, <2>3 DEF Alike, Below, Grown
    <2>5. Newer(d) \/ ~Alike(px[d], o) => Newer(d)'
      BY <2>4 DEF Newer, Alike
    <2>6. Reported(o) => Alike(px[d], o)
      BY <1>2 DEF Reported, Grown, Loud
    <2> QED BY <1>2, <2>5, <2>6 DEF Heard, Grown, Awake, Reported, Alike
  <1> QED BY <1>1, <1>2

\* A step that leaves object and store alone leaves the wake-ups.
LEMMA QuietHeard ==
    ASSUME IInv, NEW d \in DB, px'[d] = px[d], cache'[d] = cache[d], d \in dirty => d \in dirty'
    PROVE  Heard(d)
  <1>1. px[d].gen \in Nat
    BY Copy, PxFields
  <1> QED BY <1>1 DEF Heard, Newer, Awake, Alike, Reported, Exists

\* Delivery of a change puts the key into the queue.
LEMMA DeliverHeard ==
    ASSUME IInv, Deliver, NEW d \in DB, Order(d)
    PROVE  Heard(d)
  <1>1. /\ watch \in Seq(Entries) /\ watch # << >> /\ px' = px /\ cache \in [DB -> Px]
        /\ cache' = [cache EXCEPT ![Head(watch).db] = Head(watch).obj]
        /\ dirty' = IF Enqueues(cache[Head(watch).db], Head(watch).obj)
                    THEN dirty \cup {Head(watch).db} ELSE dirty
    BY DEF Deliver, IInv, Reconciling, ObjOK, WorkOK, Entries
  <1>2. Len(watch) \in Nat \ {0} /\ Head(watch) = watch[1] /\ watch[1].db \in DB
    <2>1. Len(watch) \in Nat \ {0} /\ watch[1] \in Entries /\ Head(watch) = watch[1]
      BY <1>1
    <2> QED BY <2>1 DEF Entries
  <1>3. CASE watch[1].db # d
    BY <1>1, <1>2, <1>3, QuietHeard
  <1>4. CASE watch[1].db = d
    <2> DEFINE o == watch[1].obj
    <2>1. cache'[d] = o /\ (Enqueues(cache[d], o) => d \in dirty') /\ (d \in dirty => d \in dirty')
      BY <1>1, <1>2, <1>4
    <2>2. /\ 0 \in Positions(d) /\ Version(d, 0) = cache[d]
          /\ 1 \in Positions(d) /\ Version(d, 1) = o
      BY <1>2, <1>4 DEF Positions, Version
    <2> HIDE DEF o
    <2>3. ~Alike(cache[d], o) => Loud(o)
      <3> SUFFICES ASSUME ~Alike(cache[d], o) PROVE Loud(o)
        OBVIOUS
      <3>1. PICK k \in Positions(d) : 0 < k /\ k \leq 1 /\ Loud(Version(d, k))
        BY <2>2 DEF Order, Announced
      <3>2. k = 1
        BY <3>1 DEF Positions
      <3> QED BY <2>2, <3>1, <3>2
    <2>4. Loud(o) => d \in dirty'
      BY <2>1 DEF Loud, Enqueues
    <2>5. Newer(d) => Newer(d)'
      BY <1>1, <2>1, <2>3, <2>4 DEF Newer, Alike
    <2>6. cache[d].paused => Awake(d)'
      <3>1. cache[d].paused /\ ~o.paused => Status(cache[d]) # Status(o)
        BY DEF Status
      <3> QED BY <2>1, <3>1 DEF Enqueues, Awake, Newer
    <2>7. px[d].gen \in Nat
      BY Copy, PxFields
    <2> QED BY <1>1, <2>5, <2>6, <2>7 DEF Heard, Alike
  <1> QED BY <1>3, <1>4

----------------------------------------------------------------------------
(* Runs on a database that is halted.                                        *)

Gone(d) ==
    /\ sts[d].owner = Absent /\ pods[d] = "none"
    /\ \A k \in Kinds : res[d][k] = Absent

Halting == HaltLocs \cup {"fail", "addFinalizer"}

\* The copy of a run is not ahead of the live object.
CopyBehind(d) ==
    pc[d] \in Held \/ (pc[d] = "addFinalizer" /\ my[d].fin) => my[d].gen \leq px[d].gen

\* After a create that began before the halt there will be another run, ...
Overtaken(d) ==
    px[d].halted /\ (\/ pc[d] \in CreateLocs
                     \/ pc[d] = "addFinalizer" /\ my[d].fin /\ ~my[d].halted) => Newer(d)

\* ... and after one that returns because its copy, or the reply to its
\* finalizer patch, is paused.
PauseSeen(d) ==
    pc[d] = "addFinalizer" =>
        /\ my[d].fin /\ my[d].paused => Awake(d)
        /\ ~my[d].fin /\ px[d].fin => Newer(d)

\* What is reported as halted is gone, or a run on it is to come or under way.
InHand(d) == Reported(px[d]) => Gone(d) \/ Awake(d) \/ pc[d] \in Halting

\* Retries since the report are due to failures.
Retried(d) == Reported(px[d]) => failures[d] \leq faults

\* haltDatabase has deleted what comes before its location.
Emptied(d) ==
    /\ pc[d] \in {"haltSts", "haltRbac", "haltSvcs", "waitPaused", "halted"} =>
          res[d]["app"] = Absent
    /\ pc[d] \in {"haltRbac", "haltSvcs", "waitPaused", "halted"} => sts[d].owner = Absent
    /\ pc[d] \in {"haltSvcs", "waitPaused", "halted"} => res[d]["rbac"] = Absent
    /\ pc[d] \in {"waitPaused", "halted"} => res[d]["svc"] = Absent /\ res[d]["gvr"] = Absent
    /\ pc[d] = "halted" => pods[d] = "none"

Tracked(d) ==
    CopyBehind(d) /\ Overtaken(d) /\ PauseSeen(d) /\ InHand(d) /\ Retried(d) /\ Emptied(d)

\* The invariant, for one database and for all.
HaltInv == \A d \in DB : Order(d) /\ Tracked(d)

(* What a step may do to the run on d, to its offshoots and to its report.   *)
RunGoes(d) ==
    /\ pc'[d] \in CreateLocs => pc[d] \in CreateLocs \/ (px'[d].halted => Newer(d)')
    /\ pc'[d] = "addFinalizer" => pc[d] = "addFinalizer" /\ my'[d] = my[d]
    /\ pc'[d] \in Held => \/ pc[d] \in Held /\ my'[d].gen = my[d].gen
                          \/ my'[d].gen \leq px'[d].gen
    /\ pc[d] \in Halting => pc'[d] \in Halting \/ Gone(d)' \/ Awake(d)' \/ ~Reported(px'[d])

ReportGoes(d) ==
    /\ faults' \in Nat /\ faults \leq faults'
    /\ Reported(px'[d]) =>
          \/ /\ Reported(px[d])
             /\ \/ failures'[d] \leq failures[d]
                \/ failures'[d] = failures[d] + 1 /\ faults' = faults + 1
          \/ Gone(d)' /\ failures'[d] = 0

\* The types of the numbers that are compared.
LEMMA Numbers ==
    ASSUME IInv, NEW d \in DB
    PROVE  /\ failures[d] \in Nat /\ faults \in Nat /\ my[d].gen \in Nat /\ px[d].gen \in Nat
           /\ px[d].obsGen \in Nat /\ failures[d] \leq MaxRetries
  <1>1. failures[d] \in 0..MaxRetries /\ faults \in Nat
    BY DEF IInv, Reconciling, WorkOK, Offshoots, CountOK
  <1>2. failures[d] \in Nat /\ failures[d] \leq MaxRetries
    BY <1>1, ControllerAssumption DEF ControllerAssumption
  <1> QED BY <1>1, <1>2, Copy, PxFields

\* Which locations belong to create, to halt and to neither.
LEMMA Places ==
    /\ "addFinalizer" \notin CreateLocs /\ "addFinalizer" \notin Held /\ "idle" \notin CreateLocs
    /\ "idle" \notin Held /\ CreateLocs \subseteq Held /\ CreateLocs \cap Halting = {}
    /\ HaltLocs \subseteq Held /\ HaltLocs \subseteq Halting
  BY DEF CreateLocs, HaltLocs, Held, Halting

(* Held, or with the finalizer in the copy: the object has its finalizer.    *)
LEMMA RunHeld ==
    ASSUME IInv, NEW d \in DB, pc[d] \in Held \/ (pc[d] = "addFinalizer" /\ my[d].fin)
    PROVE  px[d].fin /\ px[d].uid = my[d].uid
  BY DEF IInv, Reconciling, Incarnations, Incarnation, RunSeen

\* A step that moves run, report and offshoots as allowed keeps Tracked.
LEMMA TrackedKept ==
    ASSUME IInv, IInv', NEW d \in DB, Tracked(d), Heard(d), RunGoes(d), ReportGoes(d),
           Gone(d) => Gone(d)' \/ pc[d] \in CreateLocs, Emptied(d)'
    PROVE  Tracked(d)'
  <1>1. /\ failures[d] \in Nat /\ faults \in Nat /\ my[d].gen \in Nat /\ px[d].gen \in Nat
        /\ failures'[d] \in Nat /\ faults' \in Nat /\ my'[d].gen \in Nat /\ px'[d].gen \in Nat
    <2>1. failures[d] \in Nat /\ faults \in Nat /\ my[d].gen \in Nat /\ px[d].gen \in Nat
      BY Numbers
    <2>2. failures'[d] \in 0..MaxRetries /\ faults' \in Nat /\ my'[d] \in Px /\ px'[d] \in Px
      BY DEF IInv, Reconciling, ObjOK, WorkOK, Offshoots, CountOK
    <2>3. failures'[d] \in Nat
      BY <2>2, ControllerAssumption DEF ControllerAssumption
    <2> QED BY <2>1, <2>2, <2>3, PxFields
  <1>2. pc'[d] \in Held \/ (pc'[d] = "addFinalizer" /\ my'[d].fin) => px'[d].fin
    BY DEF IInv, Reconciling, Incarnations, Incarnation, RunSeen
  <1>3. CopyBehind(d)'
    BY <1>1, <1>2 DEF CopyBehind, Tracked, Heard, RunGoes
  <1>4. Overtaken(d)'
    BY <1>1 DEF Overtaken, Tracked, Heard, RunGoes
  <1>5. PauseSeen(d)'
    BY <1>2 DEF PauseSeen, Tracked, Heard, RunGoes, Awake, Alike
  <1>6. InHand(d)'
    BY Places DEF InHand, Tracked, Heard, RunGoes, ReportGoes, Awake, Overtaken, Reported
  <1>7. Retried(d)'
    BY <1>1 DEF Retried, Tracked, ReportGoes
  <1> QED BY <1>3, <1>4, <1>5, <1>6, <1>7 DEF Tracked

----------------------------------------------------------------------------
(* Versions.                                                                 *)

(* A change of the spec, and one of the status.                              *)
LEMMA SpecGrown ==
    ASSUME NEW p \in Px, NEW n \in Px, p.uid # 0, Kept(p), n.uid = p.uid, n.gen = p.gen + 1,
           n.fin = p.fin, n.obsGen = p.obsGen
    PROVE  Grown(p, n) /\ ~Reported(n)
  <1>1. p.gen \in Nat /\ p.obsGen \in Nat
    BY PxFields
  <1>2. 1 \leq n.gen /\ n.obsGen \leq n.gen /\ n.obsGen # n.gen /\ p.gen \leq n.gen /\ n.gen # p.gen
    BY <1>1 DEF Kept
  <1> QED BY <1>2 DEF Grown, Kept, Loud, Reported

\* A write of the status is another version, ...
LEMMA StatusGrown ==
    ASSUME NEW p \in Px, NEW n \in Px, p.uid # 0, Kept(p), n.uid = p.uid, n.gen = p.gen,
           n.fin = p.fin, n.halted = p.halted, n.rev = p.rev, n.secret = p.secret,
           n.obsGen \leq p.gen, ~p.fin => n.obsGen = 0
    PROVE  Grown(p, n)
  <1>1. p.gen \in Nat
    BY PxFields
  <1> QED BY <1>1 DEF Grown, Kept, Alike

\* ... that of a phase too, ...
LEMMA PhaseGrown ==
    \A p \in Px, phase \in Phases, g \in Nat :
        p.uid # 0 /\ Kept(p) /\ p.fin /\ g \leq p.gen =>
            LET n == [p EXCEPT !.phase = phase, !.obsGen = g]
            IN  /\ n \in Px /\ Grown(p, n) /\ n.phase = phase /\ n.obsGen = g /\ n.gen = p.gen
                /\ n.restored = p.restored /\ n.provisioned = p.provisioned
  <1> TAKE p \in Px, phase \in Phases, g \in Nat
  <1> HAVE p.uid # 0 /\ Kept(p) /\ p.fin /\ g \leq p.gen
  <1> DEFINE n == [p EXCEPT !.phase = phase, !.obsGen = g]
  <1>1. /\ n \in Px /\ n.uid = p.uid /\ n.gen = p.gen /\ n.fin = p.fin /\ n.halted = p.halted
        /\ n.obsGen = g /\ n.phase = phase /\ n.rev = p.rev /\ n.secret = p.secret
        /\ n.restored = p.restored /\ n.provisioned = p.provisioned
    BY DEF Px
  <1> HIDE DEF n
  <1>2. Grown(p, n)
    BY <1>1, StatusGrown
  <1> QED BY <1>1, <1>2 DEF n

(* Conditions, which leave the report as it is.                              *)
LEMMA ConditionGrown ==
    ASSUME NEW p \in Px, p.uid # 0, Kept(p), NEW n,
           \/ n = [p EXCEPT !.paused = ~@]
           \/ n = [p EXCEPT !.provisioned = TRUE]
           \/ \E b \in BOOLEAN : n = [p EXCEPT !.restored = b]
    PROVE  /\ n \in Px /\ Grown(p, n) /\ n.gen = p.gen
           /\ n.restored = p.restored => Retold(p, n)
           /\ Reported(n) => Reported(p)
  <1>1. /\ n \in Px /\ n.uid = p.uid /\ n.gen = p.gen /\ n.fin = p.fin /\ n.halted = p.halted
        /\ n.obsGen = p.obsGen /\ n.phase = p.phase /\ n.del = p.del /\ n.rev = p.rev
        /\ n.secret = p.secret /\ (p.provisioned => n.provisioned)
    <2>1. CASE n = [p EXCEPT !.paused = ~@]
      BY <2>1 DEF Px
    <2>2. CASE n = [p EXCEPT !.provisioned = TRUE]
      BY <2>2 DEF Px
    <2>3. CASE \E b \in BOOLEAN : n = [p EXCEPT !.restored = b]
      BY <2>3 DEF Px
    <2> QED BY <2>1, <2>2, <2>3
  <1>2. Grown(p, n)
    BY <1>1, StatusGrown DEF Kept
  <1> QED BY <1>1, <1>2 DEF Reported, Exists, Retold

(* The finalizer.                                                            *)
LEMMA FinalizerGrown ==
    ASSUME NEW p \in Px, p.uid # 0, Kept(p), NEW n, n = [p EXCEPT !.fin = TRUE]
    PROVE  /\ n \in Px /\ Grown(p, n) /\ Retold(p, n) /\ (Reported(n) => Reported(p))
           /\ n.gen = p.gen /\ n.halted = p.halted /\ n.paused = p.paused /\ n.fin
  <1>1. /\ n \in Px /\ n.uid = p.uid /\ n.gen = p.gen /\ n.fin /\ n.halted = p.halted
        /\ n.obsGen = p.obsGen /\ n.phase = p.phase /\ n.del = p.del /\ n.paused = p.paused
        /\ n.rev = p.rev /\ n.secret = p.secret /\ n.restored = p.restored
        /\ n.provisioned = p.provisioned
    BY DEF Px
  <1>2. p.gen \in Nat /\ p.obsGen \in Nat /\ p.fin \in BOOLEAN
    BY PxFields
  <1>3. Kept(n) /\ p.gen \leq n.gen
    BY <1>1, <1>2 DEF Kept
  <1>4. Alike(p, n) \/ Loud(n)
    <2>1. CASE p.fin
      BY <1>1, <2>1 DEF Alike
    <2>2. CASE ~p.fin
      <3>1. n.obsGen = 0 /\ n.gen # 0
        BY <1>1, <1>2, <2>2 DEF Kept
      <3> QED BY <3>1 DEF Loud
    <2> QED BY <2>1, <2>2
  <1>5. Grown(p, n)
    BY <1>1, <1>3, <1>4 DEF Grown
  <1> QED BY <1>1, <1>5 DEF Reported, Exists, Retold

(* Changes of the spec.                                                      *)
LEMMA Successors ==
    ASSUME NEW p \in Px
    PROVE  p.gen + 1 \in Nat /\ p.rev + 1 \in Nat /\ p.gen + 1 # p.gen
  BY PxFields

\* ... and every edit of the spec, which takes the report back.
LEMMA EditGrown ==
    ASSUME NEW p \in Px, p.uid # 0, Kept(p), NEW n,
           \/ \E s \in SecretNames : n = [p EXCEPT !.secret = s, !.gen = @ + 1]
           \/ n = [p EXCEPT !.halted = TRUE, !.policy = "Halt", !.gen = @ + 1]
           \/ n = [p EXCEPT !.halted = FALSE, !.gen = @ + 1]
           \/ \E q \in AllPolicies : n = [p EXCEPT !.policy = q, !.gen = @ + 1]
           \/ n = [p EXCEPT !.rev = @ + 1, !.gen = @ + 1]
           \/ n = [p EXCEPT !.del = TRUE, !.gen = @ + 1]
    PROVE  n \in Px /\ Grown(p, n) /\ Retold(p, n) /\ ~Reported(n)
  <1> DEFINE g == p.gen + 1
             r == p.rev + 1
  <1>1. g \in Nat /\ r \in Nat /\ "Halt" \in AllPolicies
    BY Successors DEF AllPolicies
  <1> HIDE DEF g, r
  <1>2. /\ n \in Px /\ n.uid = p.uid /\ n.gen = g /\ n.fin = p.fin /\ n.obsGen = p.obsGen
        /\ n.restored = p.restored /\ n.provisioned = p.provisioned
    <2>1. CASE \E s \in SecretNames : n = [p EXCEPT !.secret = s, !.gen = @ + 1]
      <3>1. PICK s \in SecretNames : n = [p EXCEPT !.secret = s, !.gen = g]
        BY <2>1 DEF g, r
      <3> QED BY <1>1, <3>1 DEF Px
    <2>2. CASE n = [p EXCEPT !.halted = TRUE, !.policy = "Halt", !.gen = @ + 1]
      <3>1. n = [p EXCEPT !.halted = TRUE, !.policy = "Halt", !.gen = g]
        BY <2>2 DEF g, r
      <3> QED BY <1>1, <3>1 DEF Px
    <2>3. CASE n = [p EXCEPT !.halted = FALSE, !.gen = @ + 1]
      <3>1. n = [p EXCEPT !.halted = FALSE, !.gen = g]
        BY <2>3 DEF g, r
      <3> QED BY <1>1, <3>1 DEF Px
    <2>4. CASE \E q \in AllPolicies : n = [p EXCEPT !.policy = q, !.gen = @ + 1]
      <3>1. PICK q \in AllPolicies : n = [p EXCEPT !.policy = q, !.gen = g]
        BY <2>4 DEF g, r
      <3> QED BY <1>1, <3>1 DEF Px
    <2>5. CASE n = [p EXCEPT !.rev = @ + 1, !.gen = @ + 1]
      <3>1. n = [p EXCEPT !.rev = r, !.gen = g]
        BY <2>5 DEF g, r
      <3> QED BY <1>1, <3>1 DEF Px
    <2>6. CASE n = [p EXCEPT !.del = TRUE, !.gen = @ + 1]
      <3>1. n = [p EXCEPT !.del = TRUE, !.gen = g]
        BY <2>6 DEF g, r
      <3> QED BY <1>1, <3>1 DEF Px
    <2> QED BY <2>1, <2>2, <2>3, <2>4, <2>5, <2>6
  <1>3. g # p.gen
    BY Successors DEF g
  <1> QED BY <1>2, <1>3, SpecGrown DEF g, Retold

----------------------------------------------------------------------------
(* Steps, by what they do to each database.                                  *)

(* Offshoots of d do not come back.                                          *)
Shrinks(d) ==
    /\ \A k \in Kinds : res[d][k] = Absent => res'[d][k] = Absent
    /\ sts[d].owner = Absent => sts'[d].owner = Absent
    /\ sts[d].owner = Absent /\ pods[d] = "none" => pods'[d] = "none"

(* The run on d, its place in the queue and its offshoots stay as they are.  *)
RunStays(d) ==
    /\ pc'[d] = pc[d] /\ my'[d] = my[d] /\ failures'[d] = failures[d]
    /\ d \in dirty => d \in dirty'

FaultsGrow == faults' \in Nat /\ faults \leq faults'

\* What is gone stays gone unless somebody makes it.
LEMMA GoneStays ==
    ASSUME NEW d \in DB, Shrinks(d)
    PROVE  /\ Gone(d) => Gone(d)'
           /\ Emptied(d) /\ pc'[d] = pc[d] => Emptied(d)'
  <1>1. Gone(d) => Gone(d)'
    BY DEF Gone, Shrinks
  <1>2. Emptied(d) /\ pc'[d] = pc[d] => Emptied(d)'
    BY DEF Emptied, Shrinks, Kinds
  <1> QED BY <1>1, <1>2

\* A step outside the run on d that makes nothing keeps Tracked.
LEMMA StaysTracked ==
    ASSUME IInv, IInv', NEW d \in DB, Tracked(d), Heard(d), RunStays(d), Shrinks(d), FaultsGrow,
           Reported(px'[d]) => Reported(px[d])
    PROVE  Tracked(d)'
  <1>1. Emptied(d)' /\ (Gone(d) => Gone(d)')
    BY GoneStays DEF Tracked, RunStays
  <1>2. RunGoes(d)
    BY DEF RunGoes, RunStays
  <1>3. failures[d] \in Nat
    BY Numbers
  <1>4. ReportGoes(d)
    BY <1>3 DEF ReportGoes, RunStays, FaultsGrow
  <1> QED BY <1>1, <1>2, <1>4, TrackedKept

(* A step on d leaves the others alone.                                      *)
Confined(d) ==
    /\ \A e \in DB \ {d} : RunStays(e) /\ Shrinks(e)
    /\ d \in dirty => d \in dirty'
    /\ FaultsGrow

(* The run on d goes on.                                                     *)
RunsOn(d) ==
    /\ RunGoes(d) /\ ReportGoes(d) /\ Emptied(d)'
    /\ Gone(d) => Gone(d)' \/ pc[d] \in CreateLocs

(* Nothing happens to the objects.                                           *)
LEMMA QuietOrder ==
    ASSUME HaltInv, UNCHANGED <<px, watch, cache>>, NEW e \in DB
    PROVE  /\ Order(e)' /\ Order(e) /\ Tracked(e)
           /\ px'[e] = px[e] /\ cache'[e] = cache[e] /\ (Reported(px'[e]) => Reported(px[e]))
  <1>1. Order(e) /\ Tracked(e) /\ px'[e] = px[e] /\ cache'[e] = cache[e]
    BY DEF HaltInv
  <1>2. Positions(e)' = Positions(e) /\ \A i \in Positions(e) : Version(e, i)' = Version(e, i)
    BY DEF Positions, Version
  <1>3. Order(e)'
    BY <1>1, <1>2, OrderKept
  <1> QED BY <1>1, <1>3

\* A step of the run on d keeps Tracked for the others.
LEMMA OthersHalt ==
    ASSUME IInv, IInv', NEW d \in DB, Confined(d), NEW e \in DB \ {d}, Tracked(e),
           px'[e] = px[e], cache'[e] = cache[e]
    PROVE  Tracked(e)'
  <1>1. RunStays(e) /\ Shrinks(e) /\ FaultsGrow
    BY DEF Confined
  <1>2. Heard(e)
    BY <1>1, QuietHeard DEF RunStays
  <1>3. Reported(px'[e]) => Reported(px[e])
    OBVIOUS
  <1> QED BY <1>1, <1>2, <1>3, StaysTracked

\* A step of a run that writes no object keeps the invariant, ...
LEMMA QuietHalt ==
    ASSUME IInv, IInv', HaltInv, NEW d \in DB, UNCHANGED <<px, watch, cache>>, Confined(d),
           Heard(d) => RunsOn(d)
    PROVE  HaltInv'
  <1>1. Tracked(d)'
    <2>1. Tracked(d) /\ px'[d] = px[d] /\ cache'[d] = cache[d]
      BY QuietOrder
    <2>2. Heard(d)
      BY <2>1, QuietHeard DEF Confined
    <2> QED BY <2>1, <2>2, TrackedKept DEF RunsOn
  <1>2. ASSUME NEW e \in DB \ {d} PROVE Tracked(e)'
    BY QuietOrder, OthersHalt
  <1>3. \A e \in DB : Order(e)'
    BY QuietOrder
  <1> QED BY <1>1, <1>2, <1>3 DEF HaltInv

\* ... and so does one that writes.
LEMMA PutHalt ==
    ASSUME IInv, IInv', UidsFresh, HaltInv, NEW d \in DB, NEW o \in Px, SetPx(d, o),
           cache' = cache, Grown(px[d], o) \/ Fresh(o), Confined(d), Heard(d) => RunsOn(d)
    PROVE  HaltInv'
  <1>1. o.del => o.uid \in 1..MaxUid
    <2>1. o.uid \in 0..MaxUid
      BY PxFields
    <2> QED BY <2>1 DEF Grown, Fresh
  <1>2. Put(d, o)
    BY <1>1, PutFacts DEF IInv, Reconciling
  <1>3. /\ px'[d] = o /\ \A e \in DB \ {d} : px'[e] = px[e]
        /\ \A e \in DB : \A i \in Positions(e)' :
              \/ i \in Positions(e) /\ Version(e, i)' = Version(e, i)
              \/ e = d /\ i = Len(watch) + 1 /\ Version(e, i)' = o
        /\ \A e \in DB : \A i \in Positions(e) :
              i \in Positions(e)' /\ Version(e, i)' = Version(e, i)
    BY <1>2 DEF Put
  <1>4. Order(d)' /\ Tracked(d)'
    <2>1. Order(d) /\ Tracked(d)
      BY DEF HaltInv
    <2>2. Order(d)'
      BY <1>2, <2>1, PutOrder
    <2>3. Heard(d)
      BY <1>3, <2>1, PutHeard DEF Confined
    <2> QED BY <2>1, <2>2, <2>3, TrackedKept DEF RunsOn
  <1>5. ASSUME NEW e \in DB \ {d} PROVE Order(e)' /\ Tracked(e)'
    <2>1. Order(e) /\ Tracked(e) /\ px'[e] = px[e] /\ cache'[e] = cache[e]
      BY <1>3 DEF HaltInv
    <2>2. Positions(e)' = Positions(e) /\ \A i \in Positions(e) : Version(e, i)' = Version(e, i)
      BY <1>3
    <2>3. Order(e)'
      BY <2>1, <2>2, OrderKept
    <2> QED BY <2>1, <2>3, OthersHalt
  <1> QED BY <1>4, <1>5 DEF HaltInv

----------------------------------------------------------------------------
(* Runs that go on, and runs that return.                                    *)

\* The offshoots of the others do not grow.
LEMMA Elsewhere ==
    ASSUME NEW d \in DB,
           \A e \in DB \ {d} : res'[e] = res[e] /\ sts'[e] = sts[e] /\ pods'[e] = pods[e]
    PROVE  \A e \in DB \ {d} : Shrinks(e)
  BY DEF Shrinks

\* No offshoots grow.
LEMMA Nowhere ==
    ASSUME UNCHANGED shootVars
    PROVE  /\ \A e \in DB : Shrinks(e)
           /\ \A e \in DB : res'[e] = res[e] /\ sts'[e] = sts[e] /\ pods'[e] = pods[e]
  <1>1. res' = res /\ sts' = sts /\ pods' = pods
    BY DEF shootVars
  <1> QED BY <1>1 DEF Shrinks

\* A step without a failure.
LEMMA FaultsStay ==
    ASSUME IInv, faults' = faults
    PROVE  FaultsGrow
  <1>1. faults \in Nat
    BY DEF IInv, Offshoots, CountOK
  <1> QED BY <1>1 DEF FaultsGrow

\* What a move of the run leaves alone.
LEMMA GoRun ==
    ASSUME IInv, NEW d \in DB, NEW l, Goto(d, l), NEW o, my' = my \/ my' = [my EXCEPT ![d] = o],
           failures' = failures, dirty' = dirty, FaultsGrow, \A e \in DB \ {d} : Shrinks(e)
    PROVE  /\ Confined(d) /\ pc'[d] = l /\ failures'[d] = failures[d]
           /\ my' = my => my'[d] = my[d]
           /\ my' = [my EXCEPT ![d] = o] => my'[d] = o
  <1>1. pc \in [DB -> Locations] /\ my \in [DB -> Px]
    BY DEF IInv, Reconciling, WorkOK
  <1>2. pc'[d] = l /\ \A e \in DB \ {d} : pc'[e] = pc[e]
    BY <1>1 DEF Goto
  <1>3. \A e \in DB \ {d} : my'[e] = my[e]
    BY <1>1
  <1>4. my' = [my EXCEPT ![d] = o] => my'[d] = o
    BY <1>1
  <1>5. Confined(d)
    BY <1>2, <1>3 DEF Confined, RunStays
  <1> QED BY <1>2, <1>4, <1>5

\* What the end of a run leaves: a failed key is queued again while retries are left.
LEMMA EndRun ==
    ASSUME IInv, NEW d \in DB, ReturnNil(d) \/ ReturnErr(d), FaultsGrow,
           \A e \in DB \ {d} : Shrinks(e)
    PROVE  /\ Confined(d) /\ pc'[d] = "idle"
           /\ ReturnNil(d) => failures'[d] = 0
           /\ \/ failures'[d] = 0
              \/ failures'[d] = failures[d] + 1
           /\ failures[d] < MaxRetries => d \in dirty' \/ ReturnNil(d)
  <1>1. pc \in [DB -> Locations] /\ my \in [DB -> Px] /\ failures \in [DB -> 0..MaxRetries]
    BY DEF IInv, Reconciling, WorkOK
  <1>2. pc' = [pc EXCEPT ![d] = "idle"] /\ my' = [my EXCEPT ![d] = NoPx]
    BY DEF ReturnNil, ReturnErr, Leave, Goto
  <1>3. /\ pc'[d] = "idle" /\ \A e \in DB \ {d} : pc'[e] = pc[e] /\ my'[e] = my[e]
    BY <1>1, <1>2
  <1>4. \/ failures' = [failures EXCEPT ![d] = 0]
        \/ failures' = [failures EXCEPT ![d] = @ + 1]
    BY DEF ReturnNil, ReturnErr
  <1>5. \A e \in DB \ {d} : failures'[e] = failures[e]
    BY <1>1, <1>4
  <1>6. ReturnNil(d) => failures'[d] = 0
    BY <1>1 DEF ReturnNil
  <1>7. failures'[d] = 0 \/ failures'[d] = failures[d] + 1
    BY <1>1, <1>4
  <1>8. \A e \in DB : e \in dirty => e \in dirty'
    BY DEF ReturnNil, ReturnErr
  <1>9. failures[d] < MaxRetries => d \in dirty' \/ ReturnNil(d)
    BY DEF ReturnErr
  <1>10. Confined(d)
    BY <1>3, <1>5, <1>8 DEF Confined, RunStays
  <1> QED BY <1>3, <1>6, <1>7, <1>9, <1>10

(* A run of create, one of halt, and one of terminate goes on.               *)
LEMMA CreateGoes ==
    ASSUME IInv, NEW d \in DB, pc[d] \in CreateLocs,
           \/ pc'[d] \in CreateLocs \cup {"fail"} /\ my'[d].gen = my[d].gen
           \/ pc'[d] = "idle",
           failures'[d] = failures[d] \/ failures'[d] = 0, FaultsGrow,
           Reported(px'[d]) => Reported(px[d])
    PROVE  RunsOn(d)
  <1>1. failures[d] \in Nat
    BY Numbers
  <1>2. RunGoes(d)
    BY Places DEF RunGoes, Halting, HaltLocs, CreateLocs
  <1>3. ReportGoes(d)
    BY <1>1 DEF ReportGoes, FaultsGrow
  <1>4. Emptied(d)'
    BY DEF Emptied, CreateLocs
  <1> QED BY <1>2, <1>3, <1>4 DEF RunsOn

\* A step of halt on the way.
LEMMA HaltGoes ==
    ASSUME IInv, NEW d \in DB, pc[d] \in HaltLocs, pc'[d] \in HaltLocs \cup {"fail"},
           my'[d].gen = my[d].gen, failures'[d] = failures[d], FaultsGrow, px'[d] = px[d],
           Shrinks(d), Emptied(d)'
    PROVE  RunsOn(d)
  <1>1. failures[d] \in Nat
    BY Numbers
  <1>2. pc'[d] \in Halting /\ pc'[d] \notin CreateLocs /\ pc'[d] # "addFinalizer" /\ pc[d] \in Held
    BY DEF Halting, HaltLocs, CreateLocs, Held
  <1>3. RunGoes(d)
    BY <1>2 DEF RunGoes
  <1>4. ReportGoes(d)
    BY <1>1 DEF ReportGoes, FaultsGrow
  <1> QED BY <1>3, <1>4, GoneStays DEF RunsOn

\* A step of terminate: a database under deletion is not reported Halted.
LEMMA TerminateGoes ==
    ASSUME IInv, NEW d \in DB, pc[d] \in TermLocs, pc'[d] \in TermLocs \cup {"idle"},
           FaultsGrow, ~Reported(px'[d]), Shrinks(d)
    PROVE  RunsOn(d)
  <1>1. RunGoes(d)
    BY Places, Disjoint DEF RunGoes, Halting, HaltLocs, CreateLocs, TermLocs, Held
  <1>2. ReportGoes(d)
    BY DEF ReportGoes, FaultsGrow
  <1>3. Emptied(d)'
    BY DEF Emptied, TermLocs
  <1> QED BY <1>1, <1>2, <1>3, GoneStays DEF RunsOn

(* UpdatePerconaXtraDBStatus of a run.                                       *)
LEMMA PhaseHalt ==
    ASSUME IInv, IInv', UidsFresh, HaltInv, NEW d \in DB, Exists(px[d]), pc[d] \in Held,
           NEW p \in Phases, NEW g \in Nat, g \leq px[d].gen, SetPhase(d, p, g), cache' = cache,
           Confined(d), Heard(d) /\ px'[d].phase = p => RunsOn(d)
    PROVE  HaltInv'
  <1>0. PICK o : o = [px[d] EXCEPT !.phase = p, !.obsGen = g]
    OBVIOUS
  <1>1. px[d] \in Px /\ px[d].uid # 0 /\ px[d].fin /\ Kept(px[d])
    BY Copy, RunHeld DEF Exists, HaltInv, Order
  <1>2. o \in Px /\ Grown(px[d], o) /\ o.phase = p
    BY <1>0, <1>1, PhaseGrown, Zenon
  <1>3. SetPx(d, o)
    BY <1>0 DEF SetPhase
  <1>4. px'[d] = o
    BY <1>1, <1>3 DEF SetPx, IInv, Reconciling, ObjOK
  <1> QED BY <1>2, <1>3, <1>4, PutHalt

\* Create and halt work on a copy that is not ahead of the live object.
LEMMA CopyNotAhead ==
    ASSUME IInv, HaltInv, NEW d \in DB, pc[d] \in Held
    PROVE  /\ my[d].gen \in Nat /\ my[d].gen \leq px[d].gen
           /\ Exists(px[d]) => px[d].obsGen \in Nat /\ px[d].obsGen \leq px[d].gen
  BY Numbers DEF HaltInv, Tracked, CopyBehind, Order, Kept, Exists

----------------------------------------------------------------------------
(* create                                                                    *)

(* A call of create that leaves the object alone.                            *)
LEMMA CreateQuiet ==
    ASSUME IInv, IInv', HaltInv, NEW d \in DB, pc[d] \in CreateLocs, NEW l,
           \/ l \in CreateLocs \cup {"fail"} /\ Goto(d, l) /\ UNCHANGED <<my, failures, dirty>>
           \/ l = "return" /\ ReturnNil(d),
           \A e \in DB \ {d} : res'[e] = res[e] /\ sts'[e] = sts[e] /\ pods'[e] = pods[e],
           UNCHANGED <<px, watch, cache>>, FaultsGrow
    PROVE  HaltInv'
  <1>1. \A e \in DB \ {d} : Shrinks(e)
    BY Elsewhere
  <1>2. Reported(px'[d]) => Reported(px[d])
    OBVIOUS
  <1>3. CASE l \in CreateLocs \cup {"fail"} /\ Goto(d, l) /\ UNCHANGED <<my, failures, dirty>>
    <2>1. Confined(d) /\ pc'[d] = l /\ failures'[d] = failures[d] /\ my'[d] = my[d]
      BY <1>1, <1>3, GoRun
    <2>2. RunsOn(d)
      BY <1>2, <1>3, <2>1, CreateGoes
    <2> QED BY <2>1, <2>2, QuietHalt
  <1>4. CASE ReturnNil(d)
    <2>1. Confined(d) /\ pc'[d] = "idle" /\ failures'[d] = 0
      BY <1>1, <1>4, EndRun
    <2>2. RunsOn(d)
      BY <1>2, <2>1, CreateGoes
    <2> QED BY <2>1, <2>2, QuietHalt
  <1> QED BY <1>3, <1>4

\* Continue goes on or ends the run.
LEMMA ContinueForms ==
    ASSUME NEW d, NEW l, Continue(d, l)
    PROVE  \/ l # "return" /\ Goto(d, l) /\ UNCHANGED <<my, failures, dirty>>
           \/ l = "return" /\ ReturnNil(d)
  BY DEF Continue

\* Steps of create that write no object: if the database is halted, another run comes.
LEMMA CreateQuiets ==
    ASSUME IInv, IInv', HaltInv, NEW d \in DB,
           \/ ValidatePerconaXtraDB(d) \/ CreateGoverningService(d) \/ EnsureOffshoot(d)
           \/ CreateDatabaseSecret(d) \/ UpgradeDatabaseSecret(d) \/ EnsureStatefulSet(d)
           \/ CheckPodStatus(d) \/ CreateRejected(d)
    PROVE  HaltInv'
  <1>1. FaultsGrow /\ UNCHANGED <<px, watch, cache>>
    <2>1. faults' = faults /\ UNCHANGED <<px, watch, cache>>
      BY DEF ValidatePerconaXtraDB, CreateGoverningService, EnsureOffshoot, CreateDatabaseSecret,
             UpgradeDatabaseSecret, EnsureStatefulSet, CheckPodStatus, CreateRejected, objVars,
             countVars
    <2> QED BY <2>1, FaultsStay
  <1>2. res \in [DB -> [Kinds -> Owner]] /\ sts \in [DB -> Sts]
    BY DEF IInv, Offshoots, ShootOK
  <1>3. CASE ValidatePerconaXtraDB(d)
    <2>1. PICK l \in {"return", "provisioning", "gvr"} : Continue(d, l)
      BY <1>3, AfterLocs DEF ValidatePerconaXtraDB
    <2>2. pc[d] \in CreateLocs /\ (l # "return" => l \in CreateLocs) /\ UNCHANGED shootVars
      BY <1>3 DEF ValidatePerconaXtraDB, CreateLocs
    <2> QED BY <1>1, <2>1, <2>2, ContinueForms, Nowhere, CreateQuiet
  <1>4. CASE CreateGoverningService(d)
    <2>1. /\ pc[d] \in CreateLocs /\ "rbac" \in CreateLocs /\ Goto(d, "rbac")
          /\ UNCHANGED <<my, failures, dirty>>
      BY <1>4 DEF CreateGoverningService, CreateLocs
    <2>2. \A e \in DB \ {d} : res'[e] = res[e] /\ sts'[e] = sts[e] /\ pods'[e] = pods[e]
      BY <1>2, <1>4 DEF CreateGoverningService
    <2> QED BY <1>1, <2>1, <2>2, CreateQuiet
  <1>5. CASE EnsureOffshoot(d)
    <2>1. PICK l \in {"svc", "secret", "return", "ready"} : Continue(d, l)
      BY <1>5, AfterLocs DEF EnsureOffshoot
    <2>2. pc[d] \in CreateLocs /\ (l # "return" => l \in CreateLocs)
      BY <1>5 DEF EnsureOffshoot, CreateLocs
    <2>3. \A e \in DB \ {d} : res'[e] = res[e] /\ sts'[e] = sts[e] /\ pods'[e] = pods[e]
      BY <1>2, <1>5 DEF EnsureOffshoot
    <2> QED BY <1>1, <2>1, <2>2, <2>3, ContinueForms, CreateQuiet
  <1>6. CASE CreateDatabaseSecret(d) \/ UpgradeDatabaseSecret(d) \/ CheckPodStatus(d)
    <2>1. PICK l \in {"secretPatch", "sts", "app"} : Goto(d, l)
      BY <1>6 DEF CreateDatabaseSecret, UpgradeDatabaseSecret, CheckPodStatus
    <2>2. pc[d] \in CreateLocs /\ l \in CreateLocs /\ UNCHANGED <<my, failures, dirty>>
      BY <1>6 DEF CreateDatabaseSecret, UpgradeDatabaseSecret, CheckPodStatus, CreateLocs
    <2>3. \A e \in DB \ {d} : res'[e] = res[e] /\ sts'[e] = sts[e] /\ pods'[e] = pods[e]
      BY <1>6 DEF CreateDatabaseSecret, UpgradeDatabaseSecret, CheckPodStatus, shootVars
    <2> QED BY <1>1, <2>1, <2>2, <2>3, CreateQuiet
  <1>7. CASE EnsureStatefulSet(d)
    <2>1. PICK l \in {"app", "pods"} : Goto(d, l)
      BY <1>7 DEF EnsureStatefulSet
    <2>2. pc[d] \in CreateLocs /\ l \in CreateLocs /\ UNCHANGED <<my, failures, dirty>>
      BY <1>7 DEF EnsureStatefulSet, CreateLocs
    <2>3. \A e \in DB \ {d} : res'[e] = res[e] /\ sts'[e] = sts[e] /\ pods'[e] = pods[e]
      BY <1>2, <1>7 DEF EnsureStatefulSet
    <2> QED BY <1>1, <2>1, <2>2, <2>3, CreateQuiet
  <1>8. CASE CreateRejected(d)
    <2>1. pc[d] \in CreateLocs /\ Goto(d, "fail") /\ UNCHANGED <<my, failures, dirty, shootVars>>
      BY <1>8 DEF CreateRejected, Rejected, CreateLocs
    <2> QED BY <1>1, <2>1, Nowhere, CreateQuiet
  <1> QED BY <1>3, <1>4, <1>5, <1>6, <1>7, <1>8

\* All of create.
LEMMA CreateHalt ==
    ASSUME IInv, IInv', UidsFresh, HaltInv, NEW d \in DB, CreateStep(d)
    PROVE  HaltInv'
  <1>1. CASE SetProvisioning(d)
    <2>1. /\ Exists(px[d]) /\ SetPhase(d, "Provisioning", px[d].obsGen) /\ cache' = cache
          /\ UNCHANGED shootVars /\ faults' = faults /\ pc[d] \in CreateLocs /\ pc[d] \in Held
      BY <1>1 DEF SetProvisioning, countVars, CreateLocs, Held
    <2>2. FaultsGrow /\ \A e \in DB \ {d} : Shrinks(e)
      BY <2>1, Nowhere, FaultsStay
    <2>3. /\ Confined(d) /\ (failures'[d] = failures[d] \/ failures'[d] = 0)
          /\ \/ pc'[d] \in CreateLocs \cup {"fail"} /\ my'[d].gen = my[d].gen
             \/ pc'[d] = "idle"
      <3>1. CASE ReturnNil(d)
        BY <2>2, <3>1, EndRun
      <3>2. CASE ~ReturnNil(d)
        <4>1. PICK o : /\ o = [my[d] EXCEPT !.phase = "Provisioning", !.obsGen = px[d].obsGen,
                                            !.paused = px[d].paused, !.restored = px[d].restored,
                                            !.provisioned = px[d].provisioned]
                       /\ Goto(d, "gvr") /\ my' = [my EXCEPT ![d] = o]
                       /\ UNCHANGED <<failures, dirty>>
          BY <1>1, <3>2, AfterLocs DEF SetProvisioning
        <4>2. my[d] \in Px
          BY Copy
        <4>3. o.gen = my[d].gen
          BY <4>1, <4>2 DEF Px
        <4>4. Confined(d) /\ pc'[d] = "gvr" /\ failures'[d] = failures[d] /\ my'[d] = o
          BY <2>2, <4>1, GoRun
        <4>5. "gvr" \in CreateLocs
          BY DEF CreateLocs
        <4> QED BY <4>3, <4>4, <4>5
      <3> QED BY <3>1, <3>2
    <2>4. px'[d].phase = "Provisioning" => RunsOn(d)
      BY <2>1, <2>2, <2>3, CreateGoes DEF Reported
    <2>5. "Provisioning" \in Phases /\ px[d].obsGen \in Nat /\ px[d].obsGen \leq px[d].gen
      BY <2>1, CopyNotAhead DEF Phases
    <2> QED BY <2>1, <2>3, <2>4, <2>5, PhaseHalt
  <1>2. CASE SetReady(d)
    <2>1. /\ Exists(px[d]) /\ SetPhase(d, "Ready", my[d].gen) /\ cache' = cache /\ ReturnNil(d)
          /\ UNCHANGED shootVars /\ faults' = faults /\ pc[d] \in CreateLocs /\ pc[d] \in Held
      BY <1>2 DEF SetReady, countVars, CreateLocs, Held
    <2>2. FaultsGrow /\ \A e \in DB \ {d} : Shrinks(e)
      BY <2>1, Nowhere, FaultsStay
    <2>3. Confined(d) /\ failures'[d] = 0 /\ pc'[d] = "idle"
      BY <2>1, <2>2, EndRun
    <2>4. px'[d].phase = "Ready" => RunsOn(d)
      BY <2>1, <2>2, <2>3, CreateGoes DEF Reported
    <2>5. "Ready" \in Phases /\ my[d].gen \in Nat /\ my[d].gen \leq px[d].gen
      BY <2>1, CopyNotAhead DEF Phases
    <2> QED BY <2>1, <2>3, <2>4, <2>5, PhaseHalt
  <1>3. CASE PatchDatabaseSecret(d)
    <2>1. /\ px[d].uid # 0 /\ cache' = cache /\ my' = [my EXCEPT ![d].secret = d] /\ Goto(d, "sts")
          /\ UNCHANGED <<failures, dirty, shootVars>> /\ faults' = faults
          /\ pc[d] \in CreateLocs /\ "sts" \in CreateLocs
      BY <1>3 DEF PatchDatabaseSecret, countVars, CreateLocs, Exists
    <2>2. FaultsGrow /\ \A e \in DB \ {d} : Shrinks(e)
      BY <2>1, Nowhere, FaultsStay
    <2>3. PICK o : o = [my[d] EXCEPT !.secret = d]
      OBVIOUS
    <2>4. my' = [my EXCEPT ![d] = o] /\ my[d] \in Px /\ px[d] \in Px
      BY <2>1, <2>3, Copy
    <2>5. o.gen = my[d].gen
      BY <2>3, <2>4 DEF Px
    <2>6. Confined(d) /\ pc'[d] = "sts" /\ failures'[d] = failures[d] /\ my'[d] = o
      BY <2>1, <2>2, <2>4, GoRun
    <2>7. (Reported(px'[d]) => Reported(px[d])) => RunsOn(d)
      BY <2>1, <2>2, <2>5, <2>6, CreateGoes
    <2>8. CASE px[d].secret = d
      <3>1. px' = [px EXCEPT ![d] = px[d]] /\ watch' = watch
        BY <1>3, <2>8 DEF PatchDatabaseSecret, SetPx
      <3>2. UNCHANGED <<px, watch, cache>>
        BY <2>1, <3>1 DEF IInv, Reconciling, ObjOK
      <3> QED BY <2>6, <2>7, <3>2, QuietHalt
    <2>9. CASE px[d].secret # d
      <3>1. PICK n : n = [px[d] EXCEPT !.secret = d, !.gen = @ + 1]
        OBVIOUS
      <3>2. SetPx(d, n)
        BY <1>3, <2>9, <3>1 DEF PatchDatabaseSecret
      <3>3. d \in SecretNames /\ Kept(px[d])
        BY DEF SecretNames, HaltInv, Order
      <3>4. n \in Px /\ Grown(px[d], n) /\ ~Reported(n)
        BY <2>1, <2>4, <3>1, <3>3, EditGrown
      <3>5. px'[d] = n
        BY <3>2 DEF SetPx, IInv, Reconciling, ObjOK
      <3> QED BY <2>1, <2>6, <2>7, <3>2, <3>4, <3>5, PutHalt
    <2> QED BY <2>8, <2>9
  <1> QED BY <1>1, <1>2, <1>3, CreateQuiets DEF CreateStep

----------------------------------------------------------------------------
(* halt, and the report of a failure                                         *)

\* A step of halt that writes no object.
LEMMA HaltQuiet ==
    ASSUME IInv, IInv', HaltInv, NEW d \in DB, pc[d] \in HaltLocs, NEW l,
           l \in HaltLocs \cup {"fail"}, Goto(d, l), UNCHANGED <<my, failures, dirty>>,
           \A e \in DB : Shrinks(e), pc'[d] = l => Emptied(d)',
           UNCHANGED <<px, watch, cache>>, FaultsGrow
    PROVE  HaltInv'
  <1>1. Confined(d) /\ pc'[d] = l /\ failures'[d] = failures[d] /\ my'[d] = my[d]
    BY GoRun
  <1>2. RunsOn(d)
    BY <1>1, HaltGoes
  <1> QED BY <1>1, <1>2, QuietHalt

\* The deletions of haltDatabase, in their order.
LEMMA HaltDatabaseHalt ==
    ASSUME IInv, IInv', HaltInv, NEW d \in DB, HaltDatabase(d)
    PROVE  HaltInv'
  <1>1. /\ UNCHANGED <<px, watch, cache, my, failures, dirty, sts, pods>> /\ faults' = faults
        /\ pc[d] \in {"haltApp", "haltRbac", "haltSvcs"}
    BY DEF HaltDatabase, objVars, countVars
  <1>2. PICK gone : /\ gone = CASE pc[d] = "haltApp"  -> {"app"}
                                [] pc[d] = "haltRbac" -> {"rbac"}
                                [] OTHER              -> {"gvr", "svc"}
                    /\ res' = [res EXCEPT ![d] = [k \in Kinds |-> IF k \in gone THEN Absent ELSE @[k]]]
    BY DEF HaltDatabase
  <1>3. PICK l : /\ l = CASE pc[d] = "haltApp"  -> "haltSts"
                          [] pc[d] = "haltRbac" -> "haltSvcs"
                          [] OTHER              -> "waitPaused"
                 /\ Goto(d, l)
    BY DEF HaltDatabase
  <1>4. res \in [DB -> [Kinds -> Owner]]
    BY DEF IInv, Offshoots, ShootOK
  <1>5. /\ \A e \in DB \ {d} : res'[e] = res[e]
        /\ \A k \in Kinds : res'[d][k] = IF k \in gone THEN Absent ELSE res[d][k]
    BY <1>2, <1>4
  <1>6. \A e \in DB : Shrinks(e)
    <2> SUFFICES ASSUME NEW e \in DB PROVE Shrinks(e)
      OBVIOUS
    <2>1. \A k \in Kinds : res[e][k] = Absent => res'[e][k] = Absent
      BY <1>5
    <2> QED BY <1>1, <2>1 DEF Shrinks
  <1>7. Emptied(d)
    BY DEF HaltInv, Tracked
  <1>8. ASSUME pc'[d] = l PROVE Emptied(d)'
    <2>1. CASE pc[d] = "haltApp"
      <3>1. res'[d]["app"] = Absent /\ l = "haltSts"
        BY <1>2, <1>3, <1>5, <2>1 DEF Kinds
      <3> QED BY <1>8, <3>1 DEF Emptied
    <2>2. CASE pc[d] = "haltRbac"
      <3>1. res'[d]["rbac"] = Absent /\ res'[d]["app"] = res[d]["app"] /\ l = "haltSvcs"
        BY <1>2, <1>3, <1>5, <2>2 DEF Kinds
      <3> QED BY <1>1, <1>7, <1>8, <2>2, <3>1 DEF Emptied
    <2>3. CASE pc[d] = "haltSvcs"
      <3>1. /\ res'[d]["gvr"] = Absent /\ res'[d]["svc"] = Absent /\ l = "waitPaused"
            /\ res'[d]["app"] = res[d]["app"] /\ res'[d]["rbac"] = res[d]["rbac"]
        BY <1>2, <1>3, <1>5, <2>3 DEF Kinds
      <3> QED BY <1>1, <1>7, <1>8, <2>3, <3>1 DEF Emptied
    <2> QED BY <1>1, <2>1, <2>2, <2>3
  <1>9. pc[d] \in HaltLocs /\ l \in HaltLocs \cup {"fail"}
    BY <1>1, <1>3 DEF HaltLocs
  <1> QED BY <1>1, <1>3, <1>6, <1>8, <1>9, FaultsStay, HaltQuiet

\* All of halt: the report is written when everything is gone.
LEMMA HaltHalt ==
    ASSUME IInv, IInv', UidsFresh, HaltInv, NEW d \in DB, HaltStep(d)
    PROVE  HaltInv'
  <1>0. Emptied(d)
    BY DEF HaltInv, Tracked
  <1>1. CASE Halt(d)
    <2>1. PICK l \in {"haltApp", "fail"} : Goto(d, l)
      BY <1>1 DEF Halt
    <2>2. /\ UNCHANGED <<px, watch, cache, my, failures, dirty, shootVars>> /\ faults' = faults
          /\ pc[d] \in HaltLocs /\ l \in HaltLocs \cup {"fail"}
      BY <1>1 DEF Halt, HaltLocs, objVars, countVars
    <2>3. pc'[d] = l => Emptied(d)'
      BY DEF Emptied
    <2> QED BY <2>1, <2>2, <2>3, Nowhere, FaultsStay, HaltQuiet
  <1>2. CASE HaltDatabase(d)
    BY <1>2, HaltDatabaseHalt
  <1>3. CASE HaltStatefulSet(d)
    <2>1. /\ UNCHANGED <<px, watch, cache, my, failures, dirty, res>> /\ faults' = faults
          /\ pc[d] = "haltSts" /\ Goto(d, "haltRbac") /\ DropSts(d)
      BY <1>3 DEF HaltStatefulSet, objVars, countVars
    <2>2. sts \in [DB -> Sts] /\ pods \in [DB -> {"none", "starting", "running", "orphaned"}]
      BY DEF IInv, Offshoots, ShootOK
    <2>3. /\ sts'[d] = NoSts /\ pods'[d] = IF pods[d] = "none" THEN "none" ELSE "orphaned"
          /\ \A e \in DB \ {d} : sts'[e] = sts[e] /\ pods'[e] = pods[e]
      BY <2>1, <2>2 DEF DropSts
    <2>4. sts'[d].owner = Absent
      BY <2>3 DEF NoSts
    <2>5. \A e \in DB : Shrinks(e)
      BY <2>1, <2>3, <2>4 DEF Shrinks
    <2>6. pc'[d] = "haltRbac" => Emptied(d)'
      BY <1>0, <2>1, <2>4 DEF Emptied
    <2>7. pc[d] \in HaltLocs /\ "haltRbac" \in HaltLocs
      BY <2>1 DEF HaltLocs
    <2> QED BY <2>1, <2>5, <2>6, <2>7, FaultsStay, HaltQuiet
  <1>4. CASE WaitUntilPaused(d)
    <2>1. /\ UNCHANGED <<px, watch, cache, my, failures, dirty, shootVars>> /\ faults' = faults
          /\ pc[d] = "waitPaused" /\ Goto(d, "halted") /\ pods[d] = "none"
      BY <1>4 DEF WaitUntilPaused, objVars, countVars
    <2>2. pc'[d] = "halted" => Emptied(d)'
      <3>1. res'[d] = res[d] /\ sts'[d] = sts[d] /\ pods'[d] = pods[d]
        BY <2>1, Nowhere
      <3> QED BY <1>0, <2>1, <3>1 DEF Emptied
    <2>3. pc[d] \in HaltLocs /\ "halted" \in HaltLocs
      BY <2>1 DEF HaltLocs
    <2> QED BY <2>1, <2>2, <2>3, Nowhere, FaultsStay, HaltQuiet
  <1>5. CASE SetHalted(d)
    <2>1. /\ Exists(px[d]) /\ SetPhase(d, "Halted", my[d].gen) /\ cache' = cache /\ ReturnNil(d)
          /\ UNCHANGED shootVars /\ faults' = faults /\ pc[d] = "halted" /\ pc[d] \in Held
      BY <1>5 DEF SetHalted, countVars, HaltLocs, Held
    <2>2. FaultsGrow /\ \A e \in DB \ {d} : Shrinks(e)
      BY <2>1, Nowhere, FaultsStay
    <2>3. Confined(d) /\ failures'[d] = 0 /\ pc'[d] = "idle"
      BY <2>1, <2>2, EndRun
    <2>4. Gone(d)'
      <3>1. res'[d] = res[d] /\ sts'[d] = sts[d] /\ pods'[d] = pods[d]
        BY <2>1, Nowhere
      <3> QED BY <1>0, <2>1, <3>1 DEF Emptied, Gone, Kinds
    <2>5. RunsOn(d)
      <3>1. RunGoes(d)
        BY <2>3, <2>4, Places DEF RunGoes
      <3>2. ReportGoes(d)
        BY <2>2, <2>3, <2>4 DEF ReportGoes, FaultsGrow
      <3>3. Emptied(d)'
        BY <2>3 DEF Emptied
      <3> QED BY <2>4, <3>1, <3>2, <3>3 DEF RunsOn
    <2>6. "Halted" \in Phases /\ my[d].gen \in Nat /\ my[d].gen \leq px[d].gen
      BY <2>1, CopyNotAhead DEF Phases
    <2> QED BY <2>1, <2>3, <2>5, <2>6, PhaseHalt
  <1> QED BY <1>1, <1>2, <1>3, <1>4, <1>5 DEF HaltStep

\* pushFailureEvent, after which the key is retried.
LEMMA ReportHalt ==
    ASSUME IInv, IInv', UidsFresh, HaltInv, NEW d \in DB, PushFailureEvent(d)
    PROVE  HaltInv'
  <1>1. /\ Exists(px[d]) /\ SetPhase(d, "NotReady", my[d].gen) /\ cache' = cache /\ ReturnErr(d)
        /\ UNCHANGED shootVars /\ faults' = faults /\ pc[d] \in Held
    BY DEF PushFailureEvent, countVars, Held
  <1>2. FaultsGrow /\ \A e \in DB : Shrinks(e)
    BY <1>1, Nowhere, FaultsStay
  <1>3. Confined(d) /\ pc'[d] = "idle"
    BY <1>1, <1>2, EndRun
  <1>4. ASSUME px'[d].phase = "NotReady" PROVE RunsOn(d)
    <2>0. ~Reported(px'[d])
      BY <1>4 DEF Reported
    <2>1. RunGoes(d)
      BY <1>3, <2>0, Places DEF RunGoes
    <2>2. ReportGoes(d)
      BY <1>2, <2>0 DEF ReportGoes, FaultsGrow
    <2>3. Emptied(d)'
      BY <1>3 DEF Emptied
    <2> QED BY <1>2, <2>1, <2>2, <2>3, GoneStays DEF RunsOn
  <1>5. "NotReady" \in Phases /\ my[d].gen \in Nat /\ my[d].gen \leq px[d].gen
    BY <1>1, CopyNotAhead DEF Phases
  <1> QED BY <1>1, <1>3, <1>4, <1>5, PhaseHalt

----------------------------------------------------------------------------
(* terminate, the finalizer, and errors                                      *)

\* An object under deletion or without finalizer is not reported Halted, ...
LEMMA Unreported ==
    ASSUME IInv, NEW d \in DB, Order(d), px[d].del \/ ~px[d].fin \/ ~Exists(px[d])
    PROVE  ~Reported(px[d])
  <1> SUFFICES ASSUME Reported(px[d]) PROVE FALSE
    OBVIOUS
  <1>1. px[d].uid # 0 /\ px[d].obsGen = px[d].gen /\ ~px[d].fin
    BY DEF Reported, Exists
  <1>2. 1 \leq px[d].gen /\ px[d].obsGen = 0 /\ px[d].gen \in Nat
    BY <1>1, Numbers DEF Order, Kept
  <1> QED BY <1>1, <1>2

\* ... so none is while terminate works on it.
LEMMA TermUnreported ==
    ASSUME IInv, HaltInv, NEW d \in DB, pc[d] \in TermLocs
    PROVE  ~Reported(px[d]) /\ (px[d].del \/ ~px[d].fin)
  <1>1. px[d].del \/ ~px[d].fin
    BY DEF IInv, Reconciling, Incarnations, Incarnation, RunSeen
  <1>2. Order(d)
    BY DEF HaltInv
  <1> QED BY <1>1, <1>2, Unreported

\* A step of terminate that writes no object.
LEMMA TermQuiet ==
    ASSUME IInv, IInv', HaltInv, NEW d \in DB, pc[d] \in TermLocs, NEW l,
           \/ l \in TermLocs /\ Goto(d, l) /\ UNCHANGED <<my, failures, dirty>>
           \/ ReturnNil(d) \/ ReturnErr(d),
           \A e \in DB : Shrinks(e), UNCHANGED <<px, watch, cache>>, FaultsGrow
    PROVE  HaltInv'
  <1>1. ~Reported(px'[d])
    BY TermUnreported
  <1>2. CASE l \in TermLocs /\ Goto(d, l) /\ UNCHANGED <<my, failures, dirty>>
    <2>1. Confined(d) /\ pc'[d] = l
      BY <1>2, GoRun
    <2>2. RunsOn(d)
      BY <1>1, <1>2, <2>1, TerminateGoes
    <2> QED BY <2>1, <2>2, QuietHalt
  <1>3. CASE ReturnNil(d) \/ ReturnErr(d)
    <2>1. Confined(d) /\ pc'[d] = "idle"
      BY <1>3, EndRun
    <2>2. RunsOn(d)
      BY <1>1, <2>1, TerminateGoes
    <2> QED BY <2>1, <2>2, QuietHalt
  <1> QED BY <1>2, <1>3

\* What is not there has nothing to report.
LEMMA NoPxFresh == NoPx \in Px /\ Fresh(NoPx) /\ ~Reported(NoPx)
  <1>1. NoPx.uid = 0 /\ ~NoPx.halted /\ ~NoPx.fin /\ ~NoPx.del /\ ~NoPx.restored
    BY DEF NoPx
  <1> QED BY <1>1, NoPxFacts DEF Fresh, Reported, Exists, Kept, Loud

\* All of terminate.
LEMMA TerminateHalt ==
    ASSUME IInv, IInv', UidsFresh, HaltInv, NEW d \in DB, TerminateStep(d)
    PROVE  HaltInv'
  <1>1. CASE ReleasePvc(d) \/ ReleaseSecret(d) \/ WipeOutDatabase(d) \/ OwnPvc(d)
    <2>1. PICK l \in {"releaseSecret", "removeFinalizer", "ownPvc"} : Goto(d, l)
      BY <1>1 DEF ReleasePvc, ReleaseSecret, WipeOutDatabase, OwnPvc
    <2>2. l \in TermLocs /\ pc[d] \in TermLocs
      BY <1>1 DEF ReleasePvc, ReleaseSecret, WipeOutDatabase, OwnPvc, TermLocs
    <2>3. /\ UNCHANGED <<px, watch, cache, my, failures, dirty, res, sts, pods>> /\ faults' = faults
      BY <1>1 DEF ReleasePvc, ReleaseSecret, WipeOutDatabase, OwnPvc, objVars, countVars
    <2>4. \A e \in DB : Shrinks(e)
      BY <2>3 DEF Shrinks
    <2> QED BY <2>1, <2>2, <2>3, <2>4, FaultsStay, TermQuiet
  <1>2. CASE TerminateRejected(d)
    <2>1. /\ UNCHANGED <<px, watch, cache, shootVars>> /\ faults' = faults /\ ReturnErr(d)
          /\ pc[d] \in TermLocs
      BY <1>2 DEF TerminateRejected, TermLocs, objVars, countVars
    <2> QED BY <2>1, Nowhere, FaultsStay, TermQuiet
  <1>3. CASE RemoveFinalizer(d)
    <2>1. /\ UNCHANGED <<cache, shootVars>> /\ faults' = faults /\ ReturnNil(d)
          /\ pc[d] \in TermLocs
      BY <1>3 DEF RemoveFinalizer, TermLocs, countVars
    <2>2. FaultsGrow /\ \A e \in DB : Shrinks(e)
      BY <2>1, Nowhere, FaultsStay
    <2>3. px \in [DB -> Px]
      BY DEF IInv, Reconciling, ObjOK
    <2>4. CASE px[d].del
      <3>1. SetPx(d, NoPx)
        BY <1>3, <2>4 DEF RemoveFinalizer
      <3>2. px'[d] = NoPx
        BY <2>3, <3>1 DEF SetPx
      <3>3. Confined(d) /\ pc'[d] = "idle"
        BY <2>1, <2>2, EndRun
      <3>4. RunsOn(d)
        BY <2>1, <2>2, <3>2, <3>3, NoPxFresh, TerminateGoes
      <3> QED BY <2>1, <3>1, <3>3, <3>4, NoPxFresh, PutHalt
    <2>5. CASE ~px[d].del
      <3>1. PICK o : o = [px[d] EXCEPT !.fin = FALSE]
        OBVIOUS
      <3>2. SetPx(d, o)
        BY <1>3, <2>5, <3>1 DEF RemoveFinalizer
      <3>3. ~px[d].fin
        BY <2>1, <2>5, TermUnreported
      <3>4. o = px[d]
        BY <2>3, <3>1, <3>3 DEF Px
      <3>5. UNCHANGED <<px, watch>>
        BY <2>3, <3>2, <3>4 DEF SetPx
      <3> QED BY <2>1, <2>2, <3>5, TermQuiet
    <2> QED BY <2>4, <2>5
  <1> QED BY <1>1, <1>2, <1>3 DEF TerminateStep

(* An error: either the call failed, or the object is gone.                  *)
LEMMA ErrorHalt ==
    ASSUME IInv, IInv', HaltInv, NEW d \in DB, Error(d), pc[d] # "idle", faults' \leq MaxRetries,
           \/ faults' = faults + 1
           \/ faults' = faults /\ ~Exists(px[d]) /\ pc[d] # "fail"
    PROVE  HaltInv'
  <1>1. UNCHANGED <<px, watch, cache, shootVars>>
    BY DEF Error, objVars
  <1>2. FaultsGrow /\ \A e \in DB : Shrinks(e)
    <2>1. faults \in Nat
      BY Numbers
    <2>2. FaultsGrow
      BY <2>1 DEF FaultsGrow
    <2> QED BY <1>1, <2>2, Nowhere
  <1>3. \A e \in DB \ {d} : res'[e] = res[e] /\ sts'[e] = sts[e] /\ pods'[e] = pods[e]
    BY <1>1, Nowhere
  <1>4. CASE pc[d] \in CreateLocs
    <2>1. \/ "fail" \in CreateLocs \cup {"fail"} /\ Goto(d, "fail") /\ UNCHANGED <<my, failures, dirty>>
          \/ ReturnNil(d)
      BY <1>4 DEF Error, TermLocs, CreateLocs
    <2> QED BY <1>1, <1>2, <1>3, <1>4, <2>1, CreateQuiet
  <1>5. CASE pc[d] \in HaltLocs
    <2>1. Goto(d, "fail") /\ UNCHANGED <<my, failures, dirty>>
      BY <1>5 DEF Error, TermLocs, HaltLocs
    <2>2. pc'[d] = "fail" => Emptied(d)'
      BY DEF Emptied
    <2> QED BY <1>1, <1>2, <1>5, <2>1, <2>2, HaltQuiet
  <1>6. CASE pc[d] \in TermLocs
    <2>1. ReturnErr(d)
      BY <1>6 DEF Error, TermLocs
    <2> QED BY <1>1, <1>2, <1>6, <2>1, TermQuiet
  <1>7. CASE pc[d] \in {"addFinalizer", "fail"}
    <2>1. ReturnErr(d)
      BY <1>7 DEF Error
    <2>2. /\ Confined(d) /\ pc'[d] = "idle" /\ (failures'[d] = 0 \/ failures'[d] = failures[d] + 1)
          /\ failures[d] < MaxRetries => d \in dirty' \/ ReturnNil(d)
      BY <1>2, <2>1, EndRun
    <2>3. px'[d] = px[d] /\ Retried(d) /\ Order(d)
      BY <1>1 DEF HaltInv, Tracked
    <2>4. ASSUME Reported(px[d]) PROVE d \in dirty' /\ faults' = faults + 1
      <3>1. faults' = faults + 1
        BY <2>4 DEF Reported
      <3>2. failures[d] < MaxRetries
        <4>1. failures[d] \in Nat /\ faults \in Nat /\ failures[d] \leq faults
          BY <2>3, <2>4, Numbers DEF Retried
        <4>2. MaxRetries \in Nat
          BY ControllerAssumption DEF ControllerAssumption
        <4> QED BY <3>1, <4>1, <4>2
      <3>3. dirty' = dirty \cup {d}
        BY <2>1, <3>2 DEF ReturnErr
      <3> QED BY <3>1, <3>3
    <2>5. RunGoes(d)
      BY <2>2, <2>3, <2>4, Places DEF RunGoes, Awake, Newer
    <2>6. ReportGoes(d)
      <3>1. failures[d] \in Nat
        BY Numbers
      <3> QED BY <1>2, <2>2, <2>3, <2>4, <3>1 DEF ReportGoes, FaultsGrow
    <2>7. Emptied(d)'
      BY <2>2 DEF Emptied
    <2>8. RunsOn(d)
      BY <1>2, <2>5, <2>6, <2>7, GoneStays DEF RunsOn
    <2> QED BY <1>1, <2>2, <2>8, QuietHalt
  <1> QED BY <1>4, <1>5, <1>6, <1>7, Copy DEF Locations

\* The finalizer patch: its reply decides between create, halt and return.
LEMMA FinalizerHalt ==
    ASSUME IInv, IInv', UidsFresh, HaltInv, NEW d \in DB, AddFinalizer(d)
    PROVE  HaltInv'
  <1>1. /\ UNCHANGED <<cache, shootVars>> /\ faults' = faults /\ pc[d] = "addFinalizer"
        /\ my[d].fin \/ Exists(px[d])
    BY DEF AddFinalizer, countVars
  <1>2. FaultsGrow /\ \A e \in DB : Shrinks(e)
    BY <1>1, Nowhere, FaultsStay
  <1>3. Tracked(d) /\ Order(d) /\ px[d] \in Px /\ failures[d] \in Nat
    BY Copy, Numbers DEF HaltInv
  <1>4. PICK o : /\ o = IF my[d].fin THEN my[d] ELSE [px[d] EXCEPT !.fin = TRUE]
                 /\ IF my[d].fin THEN UNCHANGED objVars ELSE SetPx(d, o)
                 /\ IF o.paused
                    THEN ReturnNil(d)
                    ELSE /\ Goto(d, IF o.halted THEN "halt" ELSE "validate")
                         /\ my' = [my EXCEPT ![d] = o]
                         /\ UNCHANGED <<failures, dirty>>
    BY DEF AddFinalizer
  <1>5. /\ Confined(d) /\ (failures'[d] = failures[d] \/ failures'[d] = 0)
        /\ \/ o.paused /\ pc'[d] = "idle"
           \/ ~o.paused /\ o.halted /\ pc'[d] = "halt" /\ my'[d] = o
           \/ ~o.paused /\ ~o.halted /\ pc'[d] = "validate" /\ my'[d] = o
    <2>1. CASE o.paused
      BY <1>2, <1>4, <2>1, EndRun
    <2>2. CASE ~o.paused
      <3>1. /\ Goto(d, IF o.halted THEN "halt" ELSE "validate") /\ my' = [my EXCEPT ![d] = o]
            /\ failures' = failures /\ dirty' = dirty
        BY <1>4, <2>2
      <3>2. CASE o.halted
        <4>1. Goto(d, "halt")
          BY <3>1, <3>2
        <4> QED BY <1>2, <2>2, <3>1, <3>2, <4>1, GoRun
      <3>3. CASE ~o.halted
        <4>1. Goto(d, "validate")
          BY <3>1, <3>3
        <4> QED BY <1>2, <2>2, <3>1, <3>3, <4>1, GoRun
      <3> QED BY <3>2, <3>3
    <2> QED BY <2>1, <2>2
  <1>6. Emptied(d)'
    BY <1>5 DEF Emptied
  <1>7. /\ "halt" \in Halting /\ "halt" \notin CreateLocs /\ "validate" \in CreateLocs
        /\ "idle" \notin CreateLocs /\ "idle" \notin Held /\ pc[d] \in Halting /\ pc[d] \notin CreateLocs
    BY <1>1 DEF Halting, HaltLocs, CreateLocs, Held
  (* The run goes on well if the reply is not ahead and, where it returns or   *)
  (* creates although the object is halted, another one follows.               *)
  <1>8. ASSUME o.gen \leq px'[d].gen, Reported(px'[d]) => Reported(px[d]),
               o.paused /\ Reported(px'[d]) => Awake(d)',
               ~o.halted /\ px'[d].halted => Newer(d)'
        PROVE  RunsOn(d)
    <2>1. RunGoes(d)
      <3>1. CASE o.paused /\ pc'[d] = "idle"
        BY <1>7, <1>8, <3>1 DEF RunGoes
      <3>2. CASE ~o.paused /\ o.halted /\ pc'[d] = "halt" /\ my'[d] = o
        BY <1>7, <1>8, <3>2 DEF RunGoes
      <3>3. CASE ~o.paused /\ ~o.halted /\ pc'[d] = "validate" /\ my'[d] = o
        BY <1>7, <1>8, <3>3 DEF RunGoes, Awake, Reported
      <3> QED BY <1>5, <3>1, <3>2, <3>3
    <2>2. ReportGoes(d)
      BY <1>2, <1>3, <1>5, <1>8 DEF ReportGoes, FaultsGrow
    <2> QED BY <1>2, <1>6, <2>1, <2>2, GoneStays DEF RunsOn
  <1>9. CASE my[d].fin
    <2>1. UNCHANGED <<px, watch, cache>> /\ o = my[d]
      BY <1>1, <1>4, <1>9 DEF objVars
    <2>2. ASSUME Heard(d) PROVE RunsOn(d)
      <3>1. px[d].fin
        BY <1>1, <1>9, RunHeld
      <3>2. (Newer(d) => Newer(d)') /\ (Awake(d) => Awake(d)')
        BY <2>1, <2>2, <3>1 DEF Heard, Awake
      <3>3. o.gen \leq px'[d].gen
        BY <1>1, <1>3, <1>9, <2>1 DEF Tracked, CopyBehind
      <3>4. o.paused => Awake(d)
        BY <1>1, <1>3, <1>9, <2>1 DEF Tracked, PauseSeen
      <3>5. ~o.halted /\ px'[d].halted => Newer(d)
        BY <1>1, <1>3, <1>9, <2>1 DEF Tracked, Overtaken
      <3>6. Reported(px'[d]) => Reported(px[d])
        BY <2>1
      <3>7. o.paused /\ Reported(px'[d]) => Awake(d)'
        BY <3>2, <3>4
      <3>8. ~o.halted /\ px'[d].halted => Newer(d)'
        BY <3>2, <3>5
      <3> QED BY <1>8, <3>3, <3>6, <3>7, <3>8
    <2> QED BY <1>5, <2>1, <2>2, QuietHalt
  <1>10. CASE ~my[d].fin
    <2>1. SetPx(d, o) /\ o = [px[d] EXCEPT !.fin = TRUE] /\ px[d].uid # 0
      BY <1>1, <1>4, <1>10 DEF Exists
    <2>2. /\ o \in Px /\ Grown(px[d], o) /\ (Reported(o) => Reported(px[d]))
          /\ o.gen = px[d].gen /\ o.halted = px[d].halted /\ o.fin
      BY <1>3, <2>1, FinalizerGrown DEF Order
    <2>3. px'[d] = o
      BY <2>1 DEF SetPx, IInv, Reconciling, ObjOK
    <2>4. ASSUME Heard(d) PROVE RunsOn(d)
      <3>1. Newer(d)'
        <4>1. CASE px[d].fin
          BY <1>1, <1>3, <1>10, <2>2, <2>3, <2>4, <4>1 DEF Tracked, PauseSeen, Heard
        <4>2. CASE ~px[d].fin
          BY <2>2, <2>3, <2>4, <4>2 DEF Heard, Alike
        <4> QED BY <4>1, <4>2
      <3>2. o.gen \leq px'[d].gen
        BY <2>2, <2>3, PxFields
      <3> QED BY <1>8, <2>2, <2>3, <3>1, <3>2 DEF Awake
    <2> QED BY <1>1, <1>5, <2>1, <2>2, <2>4, PutHalt
  <1> QED BY <1>9, <1>10

----------------------------------------------------------------------------
(* A run begins.                                                             *)

\* The ways a run begins.
LEMMA BeginForms ==
    ASSUME IInv, NEW d \in DB, RunPerconaXtraDB(d)
    PROVE  /\ pc[d] = "idle" /\ dirty' = dirty \ {d} /\ UNCHANGED <<px, watch, cache, shootVars>>
           /\ faults' = faults
           /\ \A e \in DB \ {d} : pc'[e] = pc[e] /\ my'[e] = my[e] /\ failures'[e] = failures[e]
           /\ \/ pc'[d] = "idle" /\ failures'[d] = 0 /\ (~Exists(cache[d]) \/ ~cache[d].fin)
              \/ pc'[d] \in TermLocs /\ failures'[d] = failures[d] /\ cache[d].del
              \/ pc'[d] = "addFinalizer" /\ failures'[d] = failures[d] /\ my'[d] = cache[d]
  <1> DEFINE o == cache[d]
             k == CASE ~Exists(o)       -> "idle"
                    [] o.del /\ ~o.fin  -> "idle"
                    [] o.del /\ o.fin   -> TerminateLoc(o.policy)
                    [] OTHER            -> "addFinalizer"
  <1>1. /\ dirty' = dirty \ {d} /\ Goto(d, k) /\ pc[d] = "idle"
        /\ my' = [my EXCEPT ![d] = IF k = "idle" THEN NoPx ELSE o]
        /\ failures' = IF k = "idle" THEN [failures EXCEPT ![d] = 0] ELSE failures
        /\ UNCHANGED <<px, watch, cache, shootVars>> /\ faults' = faults
    BY DEF RunPerconaXtraDB, objVars, countVars
  <1>2. \/ k = "idle" /\ (~Exists(o) \/ ~o.fin)
        \/ k \in TermLocs /\ o.del
        \/ k = "addFinalizer"
    <2>1. TerminateLoc(o.policy) \in TermLocs
      BY TerminateLocs DEF TermLocs
    <2>2. o.del \in BOOLEAN /\ o.fin \in BOOLEAN
      BY Copy, PxFields
    <2>3. CASE ~Exists(o)
      <3>1. ~o.del
        BY <2>3 DEF Exists, IInv, Reconciling, Asked, Vouched
      <3>2. k = "idle"
        BY <2>3, <3>1
      <3> QED BY <2>3, <3>2
    <2>4. CASE Exists(o) /\ o.del /\ ~o.fin
      BY <2>4
    <2>5. CASE Exists(o) /\ o.del /\ o.fin
      BY <2>1, <2>5
    <2>6. CASE Exists(o) /\ ~o.del
      BY <2>6
    <2> QED BY <2>2, <2>3, <2>4, <2>5, <2>6
  <1> HIDE DEF k, o
  <1>3. pc \in [DB -> Locations] /\ my \in [DB -> Px] /\ failures \in [DB -> 0..MaxRetries]
    BY DEF IInv, Reconciling, WorkOK
  <1>4. /\ pc'[d] = k /\ (k # "idle" => my'[d] = o)
        /\ \A e \in DB \ {d} : pc'[e] = pc[e] /\ my'[e] = my[e]
    BY <1>1, <1>3 DEF Goto
  <1>5. /\ \A e \in DB \ {d} : failures'[e] = failures[e]
        /\ k = "idle" => failures'[d] = 0
        /\ k # "idle" => failures'[d] = failures[d]
    BY <1>1, <1>3
  <1>6. "idle" \notin TermLocs
    BY DEF TermLocs
  <1> QED BY <1>1, <1>2, <1>4, <1>5, <1>6 DEF o

\* The run that takes the key from the queue does what the key was there for.
LEMMA BeginTracked ==
    ASSUME IInv, IInv', HaltInv, NEW d \in DB, RunPerconaXtraDB(d)
    PROVE  Tracked(d)'
  <1>1. /\ px'[d] = px[d] /\ cache'[d] = cache[d] /\ faults' = faults
        /\ \/ pc'[d] = "idle" /\ failures'[d] = 0 /\ (~Exists(cache[d]) \/ ~cache[d].fin)
           \/ pc'[d] \in TermLocs /\ failures'[d] = failures[d] /\ cache[d].del
           \/ pc'[d] = "addFinalizer" /\ failures'[d] = failures[d] /\ my'[d] = cache[d]
    BY BeginForms
  <1>2. /\ Tracked(d) /\ Order(d) /\ failures[d] \in Nat /\ faults \in Nat
        /\ cache[d] \in Px /\ px[d] \in Px
    BY Copy, Numbers DEF HaltInv
  <1>3. 0 \in Positions(d) /\ Version(d, 0) = cache[d]
    BY DEF Positions, Version
  <1>4. Emptied(d)'
    BY <1>1 DEF Emptied, TermLocs
  <1>5. Reported(px[d]) => px[d].fin /\ ~px[d].del /\ px[d].uid # 0
    BY <1>2, Unreported DEF Reported, Exists
  <1>6. Retried(d)'
    BY <1>1, <1>2 DEF Tracked, Retried
  <1>7. CASE pc'[d] = "idle" /\ (~Exists(cache[d]) \/ ~cache[d].fin)
    <2>1. InHand(d)'
      <3>1. Reported(px[d]) => ~Alike(cache[d], px[d])
        BY <1>5, <1>7 DEF Alike, Exists
      <3> QED BY <1>1, <3>1 DEF InHand, Awake, Newer, Alike
    <2>2. CopyBehind(d)' /\ Overtaken(d)' /\ PauseSeen(d)'
      BY <1>7, Places DEF CopyBehind, Overtaken, PauseSeen
    <2> QED BY <1>4, <1>6, <2>1, <2>2 DEF Tracked
  <1>8. CASE pc'[d] \in TermLocs /\ cache[d].del
    <2>1. ~Reported(px[d])
      BY <1>3, <1>5, <1>8 DEF IInv, Reconciling, Incarnations, Incarnation, FinalizerSeen
    <2>2. InHand(d)'
      BY <1>1, <2>1 DEF InHand
    <2>3. CopyBehind(d)' /\ Overtaken(d)' /\ PauseSeen(d)'
      BY <1>8, Disjoint, Places DEF CopyBehind, Overtaken, PauseSeen
    <2> QED BY <1>4, <1>6, <2>2, <2>3 DEF Tracked
  <1>9. CASE pc'[d] = "addFinalizer" /\ my'[d] = cache[d]
    <2>1. Below(cache[d], px[d])
      BY <1>2, <1>3 DEF Order, Behind
    <2>2. my'[d].fin => px[d].fin /\ px[d].uid = cache[d].uid /\ px[d].uid # 0
      BY <1>1, <1>9 DEF IInv, Reconciling, Incarnations, Incarnation, RunSeen, NothingThere
    <2>3. CopyBehind(d)'
      BY <1>1, <1>9, <2>1, <2>2, Places DEF CopyBehind, Below
    <2>4. Overtaken(d)'
      BY <1>1, <1>9, <2>1, <2>2, Places DEF Overtaken, Below, Newer, Alike
    <2>5. PauseSeen(d)'
      BY <1>1, <1>9 DEF PauseSeen, Awake, Newer, Alike
    <2>6. InHand(d)'
      BY <1>9 DEF InHand, Halting
    <2> QED BY <1>4, <1>6, <2>3, <2>4, <2>5, <2>6 DEF Tracked
  <1> QED BY <1>1, <1>7, <1>8, <1>9

\* The beginning of a run.
LEMMA BeginHalt ==
    ASSUME IInv, IInv', HaltInv, NEW d \in DB, RunPerconaXtraDB(d)
    PROVE  HaltInv'
  <1>1. UNCHANGED <<px, watch, cache>> /\ FaultsGrow
    BY BeginForms, FaultsStay
  <1>2. ASSUME NEW e \in DB \ {d} PROVE Tracked(e)'
    <2>1. RunStays(e)
      BY BeginForms DEF RunStays
    <2>2. Shrinks(e)
      BY BeginForms, Nowhere
    <2>3. Heard(e)
      BY <1>1, <2>1, QuietOrder, QuietHeard DEF RunStays
    <2>4. Tracked(e) /\ (Reported(px'[e]) => Reported(px[e]))
      BY <1>1, QuietOrder
    <2> QED BY <1>1, <2>1, <2>2, <2>3, <2>4, StaysTracked
  <1>3. \A e \in DB : Order(e)'
    BY <1>1, QuietOrder
  <1> QED BY <1>2, <1>3, BeginTracked DEF HaltInv

----------------------------------------------------------------------------
(* The informer, restarts, and what others do.                               *)

\* Steps outside all runs that make nothing.
LEMMA AllStay ==
    ASSUME IInv, IInv', HaltInv, UNCHANGED <<px, watch, cache>>,
           \A e \in DB : RunStays(e) /\ Shrinks(e), FaultsGrow
    PROVE  HaltInv'
  <1> SUFFICES ASSUME NEW e \in DB PROVE Order(e)' /\ Tracked(e)'
    BY DEF HaltInv
  <1>1. /\ Order(e)' /\ Order(e) /\ Tracked(e) /\ px'[e] = px[e] /\ cache'[e] = cache[e]
        /\ Reported(px'[e]) => Reported(px[e])
    BY QuietOrder
  <1>2. Heard(e)
    BY <1>1, QuietHeard DEF RunStays
  <1> QED BY <1>1, <1>2, StaysTracked

\* The informer.
LEMMA DeliverHalt ==
    ASSUME IInv, IInv', HaltInv, Deliver
    PROVE  HaltInv'
  <1> SUFFICES ASSUME NEW e \in DB PROVE Order(e)' /\ Tracked(e)'
    BY DEF HaltInv
  <1>1. Order(e) /\ Tracked(e)
    BY DEF HaltInv
  <1>2. Order(e)' /\ Heard(e)
    BY <1>1, DeliverOrder, DeliverHeard
  <1>3. /\ UNCHANGED <<px, failures, pc, my, shootVars>> /\ faults' = faults
        /\ dirty \subseteq dirty'
    BY DEF Deliver, countVars
  <1>4. RunStays(e) /\ (Reported(px'[e]) => Reported(px[e]))
    BY <1>3 DEF RunStays
  <1>5. Shrinks(e) /\ FaultsGrow
    BY <1>3, Nowhere, FaultsStay
  <1> QED BY <1>1, <1>2, <1>4, <1>5, StaysTracked

\* A restart enqueues every object.
LEMMA StartHalt ==
    ASSUME IInv, HaltInv, StartOperator, faults' = faults
    PROVE  HaltInv'
  <1> SUFFICES ASSUME NEW e \in DB PROVE Order(e)' /\ Tracked(e)'
    BY DEF HaltInv
  <1>1. Order(e)'
    BY StartOrder DEF HaltInv
  <1>2. px'[e] = px[e] /\ pc'[e] = "idle" /\ failures'[e] = 0 /\ (Exists(px[e]) => e \in dirty')
    BY DEF StartOperator
  <1>3. faults \in Nat
    BY Numbers
  <1>4. CopyBehind(e)' /\ Overtaken(e)' /\ PauseSeen(e)'
    BY <1>2, Places DEF CopyBehind, Overtaken, PauseSeen
  <1>5. InHand(e)' /\ Retried(e)'
    BY <1>2, <1>3 DEF InHand, Retried, Reported, Awake, Newer, Exists
  <1>6. Emptied(e)'
    BY <1>2 DEF Emptied
  <1> QED BY <1>1, <1>4, <1>5, <1>6 DEF Tracked

(* The live object gets another version, by somebody else.                   *)
LEMMA OthersPut ==
    ASSUME IInv, IInv', UidsFresh, HaltInv, NEW d \in DB, NEW o \in Px, SetPx(d, o),
           UNCHANGED <<workVars, shootVars>>, faults' = faults, Grown(px[d], o) \/ Fresh(o),
           Reported(o) => Reported(px[d])
    PROVE  HaltInv'
  <1>1. \A e \in DB : RunStays(e) /\ Shrinks(e)
    BY Nowhere DEF RunStays, workVars
  <1>2. FaultsGrow /\ cache' = cache /\ (d \in dirty => d \in dirty')
    BY FaultsStay DEF workVars
  <1>3. Confined(d)
    BY <1>1, <1>2 DEF Confined
  <1>4. px'[d] = o
    BY DEF SetPx, IInv, Reconciling, ObjOK
  <1>5. RunsOn(d)
    <2>1. Emptied(d)' /\ (Gone(d) => Gone(d)')
      BY <1>1, GoneStays DEF HaltInv, Tracked, RunStays
    <2>2. RunGoes(d)
      BY <1>1 DEF RunGoes, RunStays
    <2>3. failures[d] \in Nat
      BY Numbers
    <2>4. ReportGoes(d)
      BY <1>1, <1>2, <1>4, <2>3 DEF ReportGoes, RunStays, FaultsGrow
    <2> QED BY <2>1, <2>2, <2>4 DEF RunsOn
  <1> QED BY <1>2, <1>3, <1>5, PutHalt

\* The versions that users make.
LEMMA EditVersions ==
    ASSUME IInv, HaltInv, NEW d \in DB,
           EditHalt(d) \/ EditResume(d) \/ EditPolicy(d) \/ EditSpec(d) \/ EditPaused(d)
             \/ EditProvisioned(d)
    PROVE  /\ UNCHANGED <<workVars, shootVars, restore>> /\ faults' = faults
           /\ \E o \in Px : SetPx(d, o) /\ Grown(px[d], o) /\ Retold(px[d], o)
  <1>1. px[d] \in Px /\ px[d].uid # 0 /\ Kept(px[d])
    BY Copy DEF EditHalt, EditResume, EditPolicy, EditSpec, EditPaused, EditProvisioned, Edit,
                Exists, HaltInv, Order
  <1>2. UNCHANGED <<workVars, shootVars, restore>> /\ faults' = faults
    BY DEF EditHalt, EditResume, EditPolicy, EditSpec, EditPaused, EditProvisioned, Edit
  <1>3. \E o \in Px : SetPx(d, o) /\ Grown(px[d], o) /\ Retold(px[d], o)
    <2>1. CASE EditHalt(d)
      <3>1. PICK n : n = [px[d] EXCEPT !.halted = TRUE, !.policy = "Halt", !.gen = @ + 1]
        OBVIOUS
      <3> QED BY <1>1, <2>1, <3>1, EditGrown DEF EditHalt
    <2>2. CASE EditResume(d)
      <3>1. PICK n : n = [px[d] EXCEPT !.halted = FALSE, !.gen = @ + 1]
        OBVIOUS
      <3> QED BY <1>1, <2>2, <3>1, EditGrown DEF EditResume
    <2>3. CASE EditPolicy(d)
      <3>1. PICK p \in AllPolicies : SetPx(d, [px[d] EXCEPT !.policy = p, !.gen = @ + 1])
        BY <2>3, ControllerAssumption DEF EditPolicy, ControllerAssumption
      <3>2. PICK n : n = [px[d] EXCEPT !.policy = p, !.gen = @ + 1]
        OBVIOUS
      <3> QED BY <1>1, <3>1, <3>2, EditGrown
    <2>4. CASE EditSpec(d)
      <3>1. PICK n : n = [px[d] EXCEPT !.rev = @ + 1, !.gen = @ + 1]
        OBVIOUS
      <3> QED BY <1>1, <2>4, <3>1, EditGrown DEF EditSpec
    <2>5. CASE EditPaused(d)
      <3>1. PICK n : n = [px[d] EXCEPT !.paused = ~@]
        OBVIOUS
      <3>2. n.restored = px[d].restored
        BY <1>1, <3>1 DEF Px
      <3> QED BY <1>1, <2>5, <3>1, <3>2, ConditionGrown DEF EditPaused
    <2>6. CASE EditProvisioned(d)
      <3>1. PICK n : n = [px[d] EXCEPT !.provisioned = TRUE]
        OBVIOUS
      <3>2. n.restored = px[d].restored
        BY <1>1, <3>1 DEF Px
      <3> QED BY <1>1, <2>6, <3>1, <3>2, ConditionGrown DEF EditProvisioned
    <2> QED BY <2>1, <2>2, <2>3, <2>4, <2>5, <2>6
  <1> QED BY <1>2, <1>3

\* A new object, ...
LEMMA CreateVersion ==
    ASSUME IInv, NEW d \in DB, CreatePx(d)
    PROVE  /\ UNCHANGED <<workVars, shootVars, restore>> /\ faults' = faults /\ ~Exists(px[d])
           /\ \E o \in Px : SetPx(d, o) /\ Fresh(o)
  <1>1. PICK p \in Policies, s \in UserSecrets \cup {NoSecret} :
           SetPx(d, [NoPx EXCEPT !.uid = uids', !.gen = 1, !.policy = p, !.secret = s])
    BY DEF CreatePx
  <1> DEFINE o == [NoPx EXCEPT !.uid = uids', !.gen = 1, !.policy = p, !.secret = s]
  <1>2. UNCHANGED <<workVars, shootVars, restore>> /\ faults' = faults /\ ~Exists(px[d])
    BY DEF CreatePx
  <1>3. uids' \in 1..MaxUid /\ ~(uids' \leq uids)
    <2>1. uids < MaxUid /\ uids \in 0..MaxUid /\ uids' = uids + 1
      BY DEF CreatePx, IInv, Offshoots, CountOK
    <2> QED BY <2>1, ControllerAssumption DEF ControllerAssumption
  <1>4. p \in AllPolicies /\ s \in SecretNames \cup {NoSecret}
    BY ControllerAssumption DEF ControllerAssumption, SecretNames
  <1>5. o \in Px /\ o.uid = uids' /\ ~o.del /\ ~o.fin
    BY <1>3, <1>4, NewPx
  <1>6. o.gen = 1 /\ o.obsGen = 0 /\ ~o.halted /\ ~o.restored
    BY DEF NoPx
  <1>7. SetPx(d, o)
    BY <1>1
  <1> HIDE DEF o
  <1>8. Fresh(o)
    BY <1>3, <1>5, <1>6 DEF Fresh, Kept, Loud
  <1> QED BY <1>2, <1>5, <1>7, <1>8

\* ... and a deletion, which ends an object without finalizer.
LEMMA DeleteVersion ==
    ASSUME IInv, HaltInv, NEW d \in DB, DeletePx(d)
    PROVE  /\ UNCHANGED <<workVars, shootVars, restore>> /\ faults' = faults
           /\ \/ \E o \in Px : SetPx(d, o) /\ Grown(px[d], o) /\ Retold(px[d], o)
              \/ ~px[d].fin /\ SetPx(d, NoPx)
  <1>1. px[d] \in Px /\ px[d].uid # 0 /\ Kept(px[d])
    BY Copy DEF DeletePx, Exists, HaltInv, Order
  <1>2. UNCHANGED <<workVars, shootVars, restore>> /\ faults' = faults
    BY DEF DeletePx, countVars
  <1>3. CASE px[d].fin
    <2>1. PICK n : n = [px[d] EXCEPT !.del = TRUE, !.gen = @ + 1]
      OBVIOUS
    <2>2. SetPx(d, n)
      BY <1>3, <2>1 DEF DeletePx
    <2>3. n \in Px /\ Grown(px[d], n) /\ Retold(px[d], n)
      BY <1>1, <2>1, EditGrown
    <2> QED BY <1>2, <2>2, <2>3
  <1>4. CASE ~px[d].fin
    BY <1>2, <1>4 DEF DeletePx
  <1> QED BY <1>3, <1>4

\* A version that says what the old one said reports nothing new.
LEMMA RetoldReported ==
    ASSUME NEW p, NEW o, Grown(p, o), Retold(p, o), Reported(o)
    PROVE  Reported(p)
  <1>1. Alike(p, o)
    BY DEF Grown, Loud, Reported
  <1> QED BY <1>1 DEF Alike, Grown, Retold, Reported, Exists

\* Users.
LEMMA UserHalt ==
    ASSUME IInv, IInv', UidsFresh, HaltInv, NEW d \in DB, UserStep(d), ~CreateRestoreSession(d)
    PROVE  HaltInv'
  <1>1. CASE CreatePx(d)
    <2>1. ASSUME NEW o, Fresh(o) PROVE ~Reported(o)
      BY <2>1 DEF Fresh, Reported
    <2> QED BY <1>1, <2>1, CreateVersion, OthersPut
  <1>2. CASE DeletePx(d)
    BY <1>2, DeleteVersion, RetoldReported, NoPxFresh, OthersPut
  <1>3. CASE ~CreatePx(d) /\ ~DeletePx(d)
    BY <1>3, EditVersions, RetoldReported, OthersPut DEF UserStep
  <1> QED BY <1>1, <1>2, <1>3

\* The StatefulSet controller, which makes pods for a StatefulSet only, and the collector.
LEMMA KubernetesHalt ==
    ASSUME IInv, IInv', HaltInv, NEW d \in DB, KubernetesStep(d)
    PROVE  HaltInv'
  <1>1. UNCHANGED <<px, watch, workVars>> /\ faults' = faults
    BY DEF KubernetesStep, CreatePods, StartPods, DeletePods, CollectOffshoot, CollectSts,
           CollectPvc, objVars, countVars
  <1>2. /\ res \in [DB -> [Kinds -> Owner]] /\ sts \in [DB -> Sts]
        /\ pods \in [DB -> {"none", "starting", "running", "orphaned"}]
    BY DEF IInv, Offshoots, ShootOK
  <1>3. \A e \in DB : Shrinks(e)
    <2>1. CASE CreatePods(d)
      BY <1>2, <2>1 DEF CreatePods, Shrinks
    <2>2. CASE StartPods(d) \/ DeletePods(d)
      BY <1>2, <2>2 DEF StartPods, DeletePods, Shrinks
    <2>3. CASE \E k \in Kinds : CollectOffshoot(d, k)
      <3>1. PICK k \in Kinds : res' = [res EXCEPT ![d][k] = Absent] /\ UNCHANGED <<sts, pods>>
        BY <2>3 DEF CollectOffshoot
      <3>2. \A e \in DB : \A j \in Kinds : res[e][j] = Absent => res'[e][j] = Absent
        BY <1>2, <3>1
      <3> QED BY <3>1, <3>2 DEF Shrinks
    <2>4. CASE CollectSts(d)
      <3>1. DropSts(d) /\ res' = res
        BY <2>4 DEF CollectSts
      <3>2. /\ sts'[d] = NoSts /\ pods'[d] = IF pods[d] = "none" THEN "none" ELSE "orphaned"
            /\ \A e \in DB \ {d} : sts'[e] = sts[e] /\ pods'[e] = pods[e]
        BY <1>2, <3>1 DEF DropSts
      <3>3. sts'[d].owner = Absent
        BY <3>2 DEF NoSts
      <3> QED BY <3>1, <3>2, <3>3 DEF Shrinks
    <2>5. CASE CollectPvc(d)
      BY <2>5 DEF CollectPvc, Shrinks
    <2> QED BY <2>1, <2>2, <2>3, <2>4, <2>5 DEF KubernetesStep
  <1>4. \A e \in DB : RunStays(e)
    BY <1>1 DEF RunStays, workVars
  <1>5. UNCHANGED <<px, watch, cache>>
    BY <1>1 DEF workVars
  <1> QED BY <1>1, <1>3, <1>4, <1>5, FaultsStay, AllStay

(* The objects and the runs on them are not touched.                         *)
LEMMA UntouchedHalt ==
    ASSUME IInv, IInv', HaltInv, UNCHANGED <<px, watch, cache, failures, pc, my, res, sts, pods>>,
           dirty \subseteq dirty', faults' = faults
    PROVE  HaltInv'
  <1>1. \A e \in DB : RunStays(e) /\ Shrinks(e)
    BY DEF RunStays, Shrinks
  <1> QED BY <1>1, FaultsStay, AllStay

\* A restore writes a condition.
LEMMA RestoreHalt ==
    ASSUME IInv, IInv', UidsFresh, HaltInv, NEW d \in DB, ProcessRestoreSession(d)
    PROVE  HaltInv'
  <1>1. px[d] \in Px /\ px[d].uid # 0 /\ Kept(px[d])
    BY Copy DEF ProcessRestoreSession, Exists, HaltInv, Order
  <1>2. UNCHANGED <<workVars, shootVars>> /\ faults' = faults
    BY DEF ProcessRestoreSession, countVars
  <1>3. PICK b \in BOOLEAN : SetPx(d, [px[d] EXCEPT !.restored = b])
    BY DEF ProcessRestoreSession
  <1>4. PICK n : n = [px[d] EXCEPT !.restored = b]
    OBVIOUS
  <1>5. n \in Px /\ Grown(px[d], n) /\ (Reported(n) => Reported(px[d]))
    BY <1>1, <1>4, ConditionGrown
  <1> QED BY <1>2, <1>3, <1>4, <1>5, OthersPut

----------------------------------------------------------------------------
(* The invariant, and the theorem.                                           *)

\* The invariant holds at the start, ...
LEMMA HaltInitial == Init => HaltInv
  <1> SUFFICES ASSUME Init, NEW d \in DB PROVE Order(d) /\ Tracked(d)
    BY DEF HaltInv
  <1>1. /\ px[d] = NoPx /\ cache[d] = NoPx /\ watch = << >> /\ pc[d] = "idle"
    BY DEF Init
  <1>2. Positions(d) = {0} /\ Version(d, 0) = px[d]
    BY <1>1 DEF Positions, Version
  <1>3. NoPx.uid = 0
    BY DEF NoPx
  <1>4. Kept(px[d]) /\ Ends(d) /\ Behind(d) /\ Announced(d)
    BY <1>1, <1>2, <1>3 DEF Kept, Ends, Behind, Below, Announced
  <1>5. CopyBehind(d) /\ Overtaken(d) /\ PauseSeen(d) /\ Emptied(d)
    BY <1>1, Places DEF CopyBehind, Overtaken, PauseSeen, Emptied
  <1>6. InHand(d) /\ Retried(d)
    BY <1>1, <1>3 DEF InHand, Retried, Reported, Exists
  <1> QED BY <1>4, <1>5, <1>6 DEF Order, Tracked

\* ... every step keeps it while retries are left, ...
LEMMA HaltInductive ==
    ASSUME IInv, IInv', Sharing, HaltInv, [Next]_vars, faults' \leq MaxRetries
    PROVE  HaltInv'
  <1>0. UidsFresh
    BY DEF Sharing, Seen
  <1>1. CASE Deliver
    BY <1>1, DeliverHalt
  <1>2. ASSUME NEW d \in DB, Resync(d) PROVE HaltInv'
    BY <1>2, UntouchedHalt DEF Resync, objVars, shootVars, countVars
  <1>3. ASSUME NEW d \in DB, WorkerStep(d) PROVE HaltInv'
    <2>1. CASE NotFound(d)
      <3>1. Error(d) /\ faults' = faults /\ ~Exists(px[d]) /\ pc[d] # "fail" /\ pc[d] # "idle"
        BY <2>1 DEF NotFound, ObjectLocs
      <3> QED BY <3>1, ErrorHalt
    <2> QED BY <1>0, <1>3, <2>1, FinalizerHalt, CreateHalt, HaltHalt, TerminateHalt, ReportHalt
            DEF WorkerStep
  <1>4. ASSUME NEW d \in DB, FaultStep(d) PROVE HaltInv'
    <2>1. CASE CallFails(d)
      <3>1. Error(d) /\ faults' = faults + 1 /\ pc[d] # "idle"
        BY <2>1 DEF CallFails, Silent
      <3> QED BY <3>1, ErrorHalt
    <2>2. CASE PushFailurePanics(d)
      BY <2>2, StartHalt DEF PushFailurePanics
    <2> QED BY <1>4, <2>1, <2>2 DEF FaultStep
  <1>5. ASSUME NEW d \in DB, UserStep(d) PROVE HaltInv'
    <2>1. CASE CreateRestoreSession(d)
      BY <2>1, UntouchedHalt DEF CreateRestoreSession, objVars, workVars, shootVars, countVars
    <2> QED BY <1>0, <1>5, <2>1, UserHalt
  <1>6. ASSUME NEW d \in DB, StashStep(d) PROVE HaltInv'
    <2>1. CASE RunRestore(d) \/ RetryRestore(d)
      BY <2>1, UntouchedHalt DEF RunRestore, RetryRestore, objVars, workVars, shootVars, countVars
    <2> QED BY <1>0, <1>6, <2>1, RestoreHalt DEF StashStep
  <1>7. ASSUME NEW s \in SecretNames, CollectSecret(s) PROVE HaltInv'
    BY <1>7, UntouchedHalt DEF CollectSecret, objVars, workVars, countVars
  <1>8. CASE Crash
    BY <1>8, StartHalt DEF Crash
  <1>9. CASE UNCHANGED vars
    BY <1>9, UntouchedHalt DEF vars, objVars, workVars, shootVars, countVars
  <1> QED BY <1>1, <1>2, <1>3, <1>4, <1>5, <1>6, <1>7, <1>8, <1>9, BeginHalt, KubernetesHalt
          DEF Next

(* Failing calls are counted, up to their bound.                             *)
LEMMA FaultsCounted ==
    ASSUME IInv, [Next]_vars
    PROVE  faults \leq faults' /\ (faults \leq MaxFaults => faults' \leq MaxFaults)
  <1>1. faults \in Nat /\ MaxFaults \in Nat
    BY ControllerAssumption DEF IInv, Offshoots, CountOK, ControllerAssumption
  <1>2. faults' = faults \/ (faults < MaxFaults /\ faults' = faults + 1)
    <2>1. ASSUME NEW d \in DB, WorkerStep(d) PROVE faults' = faults
      <3>1. CASE CreateStep(d)
        BY <3>1 DEF CreateStep, ValidatePerconaXtraDB, SetProvisioning, CreateGoverningService,
                    EnsureOffshoot, CreateDatabaseSecret, PatchDatabaseSecret,
                    UpgradeDatabaseSecret, EnsureStatefulSet, CheckPodStatus, SetReady,
                    CreateRejected, countVars
      <3>2. CASE HaltStep(d) \/ AddFinalizer(d) \/ PushFailureEvent(d) \/ NotFound(d)
        BY <3>2 DEF HaltStep, Halt, HaltDatabase, HaltStatefulSet, WaitUntilPaused, SetHalted,
                    AddFinalizer, PushFailureEvent, NotFound, countVars
      <3>3. CASE TerminateStep(d)
        BY <3>3 DEF TerminateStep, ReleasePvc, ReleaseSecret, WipeOutDatabase, OwnPvc,
                    RemoveFinalizer, TerminateRejected, countVars
      <3> QED BY <2>1, <3>1, <3>2, <3>3 DEF WorkerStep
    <2>2. ASSUME NEW d \in DB, UserStep(d) \/ KubernetesStep(d) \/ StashStep(d)
          PROVE  faults' = faults
      BY <2>2 DEF UserStep, CreatePx, EditHalt, EditResume, EditPolicy, EditSpec, EditPaused,
                  EditProvisioned, Edit, DeletePx, CreateRestoreSession, KubernetesStep,
                  CreatePods, StartPods, DeletePods, CollectOffshoot, CollectSts, CollectPvc,
                  StashStep, RunRestore, RetryRestore, ProcessRestoreSession, countVars
    <2>3. ASSUME NEW d \in DB, Resync(d) \/ RunPerconaXtraDB(d) \/ FaultStep(d)
          PROVE  faults' = faults \/ (faults < MaxFaults /\ faults' = faults + 1)
      BY <2>3 DEF Resync, RunPerconaXtraDB, FaultStep, CallFails, PushFailurePanics, countVars
    <2>4. CASE Deliver \/ Crash \/ (\E s \in SecretNames : CollectSecret(s)) \/ UNCHANGED vars
      BY <2>4 DEF Deliver, Crash, CollectSecret, vars, countVars
    <2> QED BY <2>1, <2>2, <2>3, <2>4 DEF Next
  <1> QED BY <1>1, <1>2

\* The invariant holds until more calls have failed than a key is retried.
HaltedOrDropped == faults \leq MaxRetries => HaltInv

Counted == HaltedOrDropped /\ faults \leq MaxFaults

\* ... so it holds until then.
LEMMA HaltInvariance == Spec => []Counted
  <1>1. Init => Counted
    <2> SUFFICES ASSUME Init PROVE faults \leq MaxFaults
      BY HaltInitial DEF HaltedOrDropped, Counted
    <2> QED BY ControllerAssumption DEF Init, ControllerAssumption
  <1>2. IInv /\ IInv' /\ Sharing /\ Counted /\ [Next]_vars => Counted'
    <2> SUFFICES ASSUME IInv, IInv', Sharing, HaltedOrDropped, faults \leq MaxFaults, [Next]_vars
                 PROVE  HaltedOrDropped' /\ faults' \leq MaxFaults
      BY DEF Counted
    <2>1. faults \leq faults' /\ faults' \leq MaxFaults
      BY FaultsCounted
    <2>2. faults' \leq MaxRetries => faults \leq MaxRetries
      <3>1. faults \in Nat /\ faults' \in Nat /\ MaxRetries \in Nat
        BY ControllerAssumption DEF IInv, Offshoots, CountOK, ControllerAssumption
      <3> QED BY <2>1, <3>1
    <2> QED BY <2>1, <2>2, HaltInductive DEF HaltedOrDropped
  <1> QED BY <1>1, <1>2, Invariance, SharingInvariance, PTL DEF Spec

(* A database that is reported Halted for its present spec, and for which    *)
(* the operator has nothing left to do, has no StatefulSet, pods, services,  *)
(* RBAC objects and AppBinding (haltDatabase and waitUntilPaused,            *)
(* dormant.go:37-212): no run of create that began from an older copy makes  *)
(* them again without another halt behind it.  This is so as long as no more *)
(* calls have failed than a key is retried (MaxNumRequeues); after that the  *)
(* halt that cleans up may have been dropped from the queue.                 *)
THEOREM HaltedAreGoneSoFar == Spec => [](faults \leq MaxRetries => HaltedMeansGone)
  <1>1. HaltInv => HaltedMeansGone
    <2> SUFFICES ASSUME HaltInv, NEW d \in DB, Settled(d, "Halted"), px[d].halted
                 PROVE  Gone(d)
      BY DEF HaltedMeansGone, Gone
    <2>1. Reported(px[d]) /\ pc[d] = "idle" /\ d \notin dirty /\ cache[d] = px[d] /\ ~px[d].paused
      BY DEF Settled, Reported
    <2>2. ~Awake(d) /\ pc[d] \notin Halting
      BY <2>1 DEF Awake, Newer, Alike, Halting, HaltLocs
    <2> QED BY <2>1, <2>2 DEF HaltInv, Tracked, InHand
  <1>2. Counted => (faults \leq MaxRetries => HaltedMeansGone)
    BY <1>1 DEF HaltedOrDropped, Counted
  <1> QED BY <1>2, HaltInvariance, PTL

(* The same where the calls that fail at all are no more than the retries,   *)
(* which the runs of TLC assume as well: nothing is left of a database that  *)
(* is reported Halted (dormant.go:37-212), in every reachable state.         *)
THEOREM HaltedAreGone ==
    ASSUME MaxFaults \leq MaxRetries
    PROVE  Spec => []HaltedMeansGone
  <1>1. IInv /\ Counted => faults \leq MaxRetries
    BY ControllerAssumption DEF IInv, Offshoots, CountOK, ControllerAssumption, Counted
  <1> QED BY <1>1, HaltInvariance, HaltedAreGoneSoFar, Invariance, PTL
=============================================================================
