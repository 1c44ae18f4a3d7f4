-------------------------- MODULE ControllerProofs --------------------------
(***************************************************************************)
(* Proofs about Controller for every value of its constants: type           *)
(* correctness, that create and halt work on a live object that their       *)
(* finalizer holds, and that secrets and volume claims are given to the     *)
(* garbage collector only under the policies that say so.                   *)
(*                                                                         *)
(* FinalizerHeld is not inductive: the copy of a run comes from an informer *)
(* that lags behind by versions and whole incarnations of the object.  The  *)
(* invariant says in which order deleted and live versions can reach it     *)
(* (Incarnation).  The two about the garbage collector need that every      *)
(* deletion seen anywhere was asked for under the policy it shows (Asked)   *)
(* and that terminate is where its copy's policy leads (Terminating).       *)
(*                                                                         *)
(* Below: the data, the API server's objects and their versions, the effect *)
(* of a step on one object, on all objects, on the offshoots; then one      *)
(* lemma per action, the invariant, and the theorems.                       *)
(***************************************************************************)
EXTENDS Controller, TLAPS

\* Where create and halt work on the object, with its finalizer set.
Held == CreateLocs \cup HaltLocs \cup {"fail"}

\* The versions of d's object that the informer has (at 0) or will get, in the
\* order in which it gets them.
Positions(d)  == {0} \cup {i \in 1..Len(watch) : watch[i].db = d}
Version(d, i) == IF i = 0 THEN cache[d] ELSE watch[i].obj

\* No object: no finalizer, no deletion.
NothingThere(d) == px[d].uid = 0 => ~px[d].fin /\ ~px[d].del

\* While the live object is not being deleted, the informer gets all versions
\* of a deleted incarnation first; while it is, it gets them last.
DeletedFirst(d) ==
    \A i, j \in Positions(d) : i < j =>
        /\ ~Version(d, i).del /\ Version(d, j).del => px[d].del
        /\ Version(d, i).del /\ ~Version(d, j).del => ~px[d].del

\* A finalizer is set only after the informer has got the end of the
\* incarnation before, and what it shows to be held is the live object.
FinalizerSeen(d) ==
    /\ px[d].fin /\ ~px[d].del => \A i \in Positions(d) : ~Version(d, i).del
    /\ \A i \in Positions(d) : Version(d, i).fin /\ ~Version(d, i).del =>
          px[d].fin /\ px[d].uid = Version(d, i).uid

\* terminate works on a deleted incarnation that is still there, or on one that
\* is gone without the next having a finalizer; create and halt do not begin
\* before the informer knows of the end.
RunSeen(d) ==
    /\ pc[d] \in TermLocs =>
         /\ px[d].del \/ ~px[d].fin
         /\ \A i \in Positions(d) : ~Version(d, i).del => ~Version(d, i).fin /\ ~px[d].del
    /\ pc[d] \in Held \cup {"addFinalizer"} =>
         \A i \in Positions(d) : Version(d, i).del => px[d].del
    /\ pc[d] = "addFinalizer" /\ my[d].fin => px[d].fin /\ px[d].uid = my[d].uid
    /\ pc[d] \in Held => px[d].fin /\ px[d].uid = my[d].uid

Incarnation(d) == NothingThere(d) /\ DeletedFirst(d) /\ FinalizerSeen(d) /\ RunSeen(d)
Incarnations   == \A d \in DB : Incarnation(d)

\* Every policy under which a deletion is seen anywhere was asked for.
Vouched(o) == o.del => o.uid \in 1..MaxUid /\ o.policy \in asked[o.uid].policies

Asked ==
    /\ \A d \in DB : Vouched(px[d]) /\ Vouched(cache[d]) /\ Vouched(my[d])
    /\ \A i \in 1..Len(watch) : Vouched(watch[i].obj)

\* What terminate is about to do is what the policy of its copy says.
Terminating ==
    \A d \in DB :
        /\ pc[d] \in TermLocs => my[d].del
        /\ pc[d] = "wipeOut" => my[d].policy = "WipeOut"
        /\ pc[d] = "ownPvc" => my[d].policy # "Halt"

\* Secrets and claims are owned by incarnations that were to be deleted so.
OwnersAsked ==
    /\ \A s \in SecretNames : secrets[s].owner \in 1..MaxUid =>
          "WipeOut" \in asked[secrets[s].owner].policies
    /\ \A d \in DB : pvc[d].owner \in 1..MaxUid =>
          \E p \in asked[pvc[d].owner].policies : p # "Halt"

\* A StatefulSet is made with its secret, and pods are there only with it.
SecretPicked == \A d \in DB : pc[d] = "sts" => my[d].secret # NoSecret

SecretNamed ==
    \A d \in DB :
        /\ sts[d].owner # Absent => sts[d].secret # NoSecret
        /\ pods[d] \in {"starting", "running"} => sts[d].owner # Absent

\* The inductive invariant: the objects with the runs on them, and the offshoots.
Reconciling == ObjOK /\ WorkOK /\ Incarnations /\ Asked /\ Terminating /\ SecretPicked
Offshoots   == ShootOK /\ CountOK /\ OwnersAsked /\ SecretNamed

IInv == Reconciling /\ Offshoots
----------------------------------------------------------------------------
(* Data. *)

(* The same object, in another version.                                      *)
Same(n, o) == n.uid = o.uid /\ n.del = o.del /\ n.fin = o.fin

\* The types of the fields of an object.
LEMMA PxFields ==
    ASSUME NEW o \in Px
    PROVE  /\ o.uid \in 0..MaxUid /\ o.gen \in Nat /\ o.del \in BOOLEAN /\ o.fin \in BOOLEAN
           /\ o.halted \in BOOLEAN /\ o.policy \in AllPolicies /\ o.rev \in Nat
           /\ o.secret \in SecretNames \cup {NoSecret} /\ o.phase \in Phases /\ o.obsGen \in Nat
           /\ o.paused \in BOOLEAN /\ o.provisioned \in BOOLEAN /\ o.restored \in BOOLEAN
  BY DEF Px

\* What is not there has uid 0 and no finalizer.
LEMMA NoPxFacts == NoPx \in Px /\ NoPx.uid = 0 /\ ~NoPx.del /\ ~NoPx.fin
  BY ControllerAssumption DEF NoPx, Px, AllPolicies, Phases, ControllerAssumption

(* The changes of the spec and of the status leave the object the same.      *)
LEMMA StatusEdits ==
    ASSUME NEW o \in Px
    PROVE  /\ \A p \in Phases, g \in Nat :
                LET n == [o EXCEPT !.phase = p, !.obsGen = g] IN n \in Px /\ Same(n, o)
           /\ LET n == [o EXCEPT !.paused = ~@] IN n \in Px /\ Same(n, o)
           /\ LET n == [o EXCEPT !.provisioned = TRUE] IN n \in Px /\ Same(n, o)
           /\ \A b \in BOOLEAN :
                LET n == [o EXCEPT !.restored = b] IN n \in Px /\ Same(n, o)
  <1>1. ASSUME NEW p \in Phases, NEW g \in Nat
        PROVE  LET n == [o EXCEPT !.phase = p, !.obsGen = g] IN n \in Px /\ Same(n, o)
    BY DEF Px, Same
  <1>2. LET n == [o EXCEPT !.paused = ~@] IN n \in Px /\ Same(n, o)
    BY DEF Px, Same
  <1>3. LET n == [o EXCEPT !.provisioned = TRUE] IN n \in Px /\ Same(n, o)
    BY DEF Px, Same
  <1>4. ASSUME NEW b \in BOOLEAN
        PROVE  LET n == [o EXCEPT !.restored = b] IN n \in Px /\ Same(n, o)
    BY DEF Px, Same
  <1> QED BY <1>1, <1>2, <1>3, <1>4

\* An edit of the spec keeps identity, finalizer and deletion of the object.
LEMMA SpecEdits ==
    ASSUME NEW o \in Px
    PROVE  /\ \A s \in SecretNames :
                LET n == [o EXCEPT !.secret = s, !.gen = @ + 1] IN n \in Px /\ Same(n, o)
           /\ LET n == [o EXCEPT !.halted = TRUE, !.policy = "Halt", !.gen = @ + 1]
              IN  n \in Px /\ Same(n, o)
           /\ LET n == [o EXCEPT !.halted = FALSE, !.gen = @ + 1] IN n \in Px /\ Same(n, o)
           /\ \A p \in AllPolicies :
                LET n == [o EXCEPT !.policy = p, !.gen = @ + 1] IN n \in Px /\ Same(n, o)
           /\ LET n == [o EXCEPT !.rev = @ + 1, !.gen = @ + 1] IN n \in Px /\ Same(n, o)
  <1> DEFINE g == o.gen + 1
             r == o.rev + 1
  <1>1. g \in Nat /\ r \in Nat
    BY PxFields
  <1> HIDE DEF g, r
  <1>2. ASSUME NEW s \in SecretNames
        PROVE  LET n == [o EXCEPT !.secret = s, !.gen = g] IN n \in Px /\ Same(n, o)
    BY <1>1 DEF Px, Same
  <1>3. LET n == [o EXCEPT !.halted = TRUE, !.policy = "Halt", !.gen = g]
        IN  n \in Px /\ Same(n, o)
    BY <1>1 DEF Px, Same, AllPolicies
  <1>4. LET n == [o EXCEPT !.halted = FALSE, !.gen = g] IN n \in Px /\ Same(n, o)
    BY <1>1 DEF Px, Same
  <1>5. ASSUME NEW p \in AllPolicies
        PROVE  LET n == [o EXCEPT !.policy = p, !.gen = g] IN n \in Px /\ Same(n, o)
    BY <1>1 DEF Px, Same
  <1>6. LET n == [o EXCEPT !.rev = r, !.gen = g] IN n \in Px /\ Same(n, o)
    BY <1>1 DEF Px, Same
  <1> QED BY <1>2, <1>3, <1>4, <1>5, <1>6 DEF g, r

(* The finalizer, the deletion timestamp, and a new object.                  *)
LEMMA LifeEdits ==
    ASSUME NEW o \in Px
    PROVE  /\ \A b \in BOOLEAN :
                LET n == [o EXCEPT !.fin = b]
                IN  n \in Px /\ n.uid = o.uid /\ n.del = o.del /\ n.fin = b
           /\ LET n == [o EXCEPT !.del = TRUE, !.gen = @ + 1]
              IN  n \in Px /\ n.uid = o.uid /\ n.del /\ n.fin = o.fin
  <1>1. ASSUME NEW b \in BOOLEAN
        PROVE  LET n == [o EXCEPT !.fin = b]
               IN  n \in Px /\ n.uid = o.uid /\ n.del = o.del /\ n.fin = b
    BY DEF Px
  <1>2. LET n == [o EXCEPT !.del = TRUE, !.gen = @ + 1]
        IN  n \in Px /\ n.uid = o.uid /\ n.del /\ n.fin = o.fin
    <2> DEFINE g == o.gen + 1
    <2>1. g \in Nat
      BY PxFields
    <2> HIDE DEF g
    <2>2. LET n == [o EXCEPT !.del = TRUE, !.gen = g]
          IN  n \in Px /\ n.uid = o.uid /\ n.del /\ n.fin = o.fin
      BY <2>1 DEF Px
    <2> QED BY <2>2 DEF g
  <1> QED BY <1>1, <1>2

\* A new object has no finalizer and is not being deleted.
LEMMA NewPx ==
    ASSUME NEW u \in 1..MaxUid, NEW p \in AllPolicies, NEW s \in SecretNames \cup {NoSecret}
    PROVE  LET n == [NoPx EXCEPT !.uid = u, !.gen = 1, !.policy = p, !.secret = s]
           IN  n \in Px /\ n.uid = u /\ ~n.del /\ ~n.fin
  <1>1. u \in 0..MaxUid
    BY ControllerAssumption DEF ControllerAssumption
  <1> QED BY <1>1, NoPxFacts DEF Px

(* What a run changes in its copy.                                           *)
LEMMA CopyEdits ==
    ASSUME NEW o \in Px
    PROVE  \A s \in SecretNames :
              LET n == [o EXCEPT !.secret = s]
              IN  n \in Px /\ Same(n, o) /\ n.policy = o.policy /\ n.secret = s
  BY DEF Px, Same

----------------------------------------------------------------------------
(* The API server and the informer. *)

Entries == [db: DB, obj: Px]

\* The watch with another event.
LEMMA WatchAppend ==
    ASSUME watch \in Seq(Entries), NEW e \in Entries, watch' = Append(watch, e)
    PROVE  /\ watch' \in Seq(Entries) /\ Len(watch) \in Nat /\ Len(watch') = Len(watch) + 1
           /\ \A i \in 1..Len(watch) : watch'[i] = watch[i]
           /\ watch'[Len(watch) + 1] = e
  OBVIOUS

\* The watch without its first event.
LEMMA WatchTail ==
    ASSUME watch \in Seq(Entries), watch # << >>, watch' = Tail(watch)
    PROVE  /\ watch' \in Seq(Entries) /\ Len(watch) \in Nat \ {0} /\ Len(watch') = Len(watch) - 1
           /\ \A i \in 1..Len(watch') : watch'[i] = watch[i + 1] /\ i + 1 \in 1..Len(watch)
           /\ Head(watch) = watch[1] /\ watch[1] \in Entries
  OBVIOUS

\* Every event of the watch is a version of some object.
LEMMA WatchEntry ==
    ASSUME watch \in Seq(Entries)
    PROVE  /\ Len(watch) \in Nat
           /\ \A i \in 1..Len(watch) : watch[i].db \in DB /\ watch[i].obj \in Px
  <1>1. \A i \in 1..Len(watch) : watch[i] \in Entries
    OBVIOUS
  <1> QED BY <1>1 DEF Entries

(* What was asked for when an object was deleted is only ever added to.      *)
Grows == \A u \in 1..MaxUid : asked[u].policies \subseteq asked'[u].policies

\* A write only adds to the history, and a deletion is in it.
LEMMA AskedFacts ==
    ASSUME ObjOK, NEW d \in DB, NEW o \in Px, o.del => o.uid \in 1..MaxUid, SetPx(d, o)
    PROVE  /\ asked' \in [1..MaxUid -> [policies: SUBSET AllPolicies, peers: SUBSET (0..MaxUid)]]
           /\ Grows
           /\ o.del => o.policy \in asked'[o.uid].policies
  <1>1. CASE ~o.del
    BY <1>1 DEF SetPx, ObjOK, Grows
  <1>2. CASE o.del
    <2>1. asked' = [asked EXCEPT ![o.uid] = Deletion(d, o)] /\ o.uid \in 1..MaxUid
      BY <1>2 DEF SetPx
    <2>2. asked[o.uid] \in [policies: SUBSET AllPolicies, peers: SUBSET (0..MaxUid)]
      BY <2>1 DEF ObjOK
    <2>3. o.policy \in AllPolicies /\ \A e \in DB : px[e].uid \in 0..MaxUid
      BY PxFields DEF ObjOK
    <2>4. /\ Deletion(d, o) \in [policies: SUBSET AllPolicies, peers: SUBSET (0..MaxUid)]
          /\ Deletion(d, o).policies = asked[o.uid].policies \cup {o.policy}
      BY <2>2, <2>3 DEF Deletion
    <2>5. /\ asked' \in [1..MaxUid -> [policies: SUBSET AllPolicies, peers: SUBSET (0..MaxUid)]]
          /\ asked'[o.uid] = Deletion(d, o)
          /\ \A u \in (1..MaxUid) \ {o.uid} : asked'[u] = asked[u]
      BY <2>1, <2>4 DEF ObjOK
    <2> QED BY <2>1, <2>4, <2>5 DEF Grows
  <1> QED BY <1>1, <1>2

(* The object of d gets another version, which the informer gets last.       *)
LEMMA SetPxFacts ==
    ASSUME ObjOK, NEW d \in DB, NEW o \in Px, o.del => o.uid \in 1..MaxUid, SetPx(d, o)
    PROVE  /\ ObjOK' /\ Grows
           /\ o.del => o.policy \in asked'[o.uid].policies
           /\ px'[d] = o /\ \A e \in DB \ {d} : px'[e] = px[e]
           /\ \A i \in 1..Len(watch') : \/ i \in 1..Len(watch) /\ watch'[i] = watch[i]
                                        \/ i = Len(watch) + 1 /\ watch'[i] = [db |-> d, obj |-> o]
  <1>1. /\ px' = [px EXCEPT ![d] = o]
        /\ watch' = IF o = px[d] THEN watch ELSE Append(watch, [db |-> d, obj |-> o])
    BY DEF SetPx
  <1>2. [db |-> d, obj |-> o] \in Entries /\ watch \in Seq(Entries)
    BY DEF Entries, ObjOK
  <1>3. /\ watch' \in Seq(Entries)
        /\ \A i \in 1..Len(watch') : \/ i \in 1..Len(watch) /\ watch'[i] = watch[i]
                                     \/ i = Len(watch) + 1 /\ watch'[i] = [db |-> d, obj |-> o]
    <2>1. CASE o = px[d]
      BY <1>1, <1>2, <2>1
    <2>2. CASE o # px[d]
      <3>1. watch' = Append(watch, [db |-> d, obj |-> o])
        BY <1>1, <2>2
      <3>2. /\ watch' \in Seq(Entries) /\ Len(watch) \in Nat /\ Len(watch') = Len(watch) + 1
            /\ \A i \in 1..Len(watch) : watch'[i] = watch[i]
            /\ watch'[Len(watch) + 1] = [db |-> d, obj |-> o]
        BY <1>2, <3>1, WatchAppend
      <3>3. \A i \in 1..Len(watch') : i \in 1..Len(watch) \/ i = Len(watch) + 1
        BY <3>2
      <3> QED BY <3>2, <3>3
    <2> QED BY <2>1, <2>2
  <1>4. px' \in [DB -> Px] /\ px'[d] = o /\ \A e \in DB \ {d} : px'[e] = px[e]
    BY <1>1 DEF ObjOK
  <1> QED BY <1>3, <1>4, AskedFacts DEF ObjOK, Entries

\* After a write, the versions are the old ones and the new one, which comes last.
LEMMA NewVersion ==
    ASSUME ObjOK, NEW d \in DB, NEW o \in Px, o.del => o.uid \in 1..MaxUid, SetPx(d, o),
           cache' = cache, NEW e \in DB
    PROVE  /\ \A i \in Positions(e)' : \/ i \in Positions(e) /\ Version(e, i)' = Version(e, i)
                                       \/ e = d /\ i = Len(watch) + 1 /\ Version(e, i)' = o
           /\ \A i \in Positions(e) : i \in Int /\ i < Len(watch) + 1
  <1>1. Len(watch) \in Nat
    BY DEF ObjOK
  <1>2. \A i \in 1..Len(watch') : \/ i \in 1..Len(watch) /\ watch'[i] = watch[i]
                                  \/ i = Len(watch) + 1 /\ watch'[i] = [db |-> d, obj |-> o]
    BY SetPxFacts
  <1>3. \A i \in Positions(e) : i \in Int /\ i < Len(watch) + 1
    BY <1>1 DEF Positions
  <1>4. ASSUME NEW i \in Positions(e)'
        PROVE  \/ i \in Positions(e) /\ Version(e, i)' = Version(e, i)
               \/ e = d /\ i = Len(watch) + 1 /\ Version(e, i)' = o
    <2>1. CASE i = 0
      BY <2>1 DEF Positions, Version
    <2>2. CASE i \in 1..Len(watch') /\ watch'[i].db = e /\ i # 0
      <3>1. Version(e, i)' = watch'[i].obj
        BY <2>2 DEF Version
      <3>2. CASE i \in 1..Len(watch) /\ watch'[i] = watch[i]
        BY <2>2, <3>1, <3>2 DEF Positions, Version
      <3>3. CASE i = Len(watch) + 1 /\ watch'[i] = [db |-> d, obj |-> o]
        BY <2>2, <3>1, <3>3
      <3> QED BY <1>2, <2>2, <3>2, <3>3
    <2>3. i = 0 \/ (i \in 1..Len(watch') /\ watch'[i].db = e /\ i # 0)
      BY DEF Positions
    <2> QED BY <2>1, <2>2, <2>3
  <1> QED BY <1>3, <1>4

----------------------------------------------------------------------------
(* The steps, by what they do to one object and to the run that holds it. *)

(* A run goes on or returns.                                                 *)
Moves(d) ==
    /\ \A e \in DB \ {d} : pc'[e] = pc[e] /\ my'[e] = my[e]
    /\ \/ pc'[d] = pc[d] /\ my'[d] = my[d]
       \/ pc'[d] = "idle" /\ my'[d] = NoPx
       \/ /\ pc[d] \in Held /\ pc'[d] \in Held
          /\ Same(my'[d], my[d]) /\ my'[d].policy = my[d].policy
       \/ /\ pc[d] \in TermLocs /\ pc'[d] \in TermLocs /\ my'[d] = my[d]
          /\ pc'[d] # "wipeOut" /\ (pc'[d] = "ownPvc" => my[d].policy # "Halt")
    /\ pc'[d] = "sts" => my'[d].secret # NoSecret

\* Create and halt, terminate, and the finalizer patch share no location.
LEMMA Disjoint ==
    /\ Held \cap TermLocs = {} /\ "idle" \notin Held \cup TermLocs
    /\ "addFinalizer" \notin Held \cup TermLocs
  BY DEF Held, CreateLocs, HaltLocs, TermLocs

(* Neither the object nor its versions under way change.                     *)
LEMMA QuietIncarnation ==
    ASSUME NEW d \in DB, Incarnation(d), px'[d] = px[d],
           \A i \in Positions(d)' : i \in Positions(d) /\ Version(d, i)' = Version(d, i),
           \/ pc'[d] = pc[d] /\ my'[d] = my[d]
           \/ pc'[d] = "idle"
           \/ pc[d] \in Held /\ pc'[d] \in Held /\ my'[d].uid = my[d].uid
           \/ pc[d] \in TermLocs /\ pc'[d] \in TermLocs
    PROVE  Incarnation(d)'
  <1>1. NothingThere(d)' /\ DeletedFirst(d)' /\ FinalizerSeen(d)'
    BY DEF Incarnation, NothingThere, DeletedFirst, FinalizerSeen
  <1>2. RunSeen(d)'
    BY Disjoint DEF Incarnation, RunSeen
  <1> QED BY <1>1, <1>2 DEF Incarnation

(* The object of d gets the version o.                                       *)
Appended(d, o) ==
    /\ px'[d] = o
    /\ \A i \in Positions(d)' : \/ i \in Positions(d) /\ Version(d, i)' = Version(d, i)
                                \/ i = Len(watch) + 1 /\ Version(d, i)' = o
    /\ \A i \in Positions(d) : i \in Int /\ i < Len(watch) + 1
    /\ Len(watch) \in Nat

\* A new version of the same incarnation keeps Incarnation, wherever the run goes.
LEMMA SameIncarnation ==
    ASSUME NEW d \in DB, NEW o \in Px, Incarnation(d), Appended(d, o), Same(o, px[d]),
           \/ pc'[d] = pc[d] /\ my'[d] = my[d]
           \/ pc'[d] = "idle"
           \/ pc[d] \in Held /\ pc'[d] \in Held /\ my'[d].uid = my[d].uid
           \/ pc[d] \in TermLocs /\ pc'[d] \in TermLocs
    PROVE  Incarnation(d)'
  <1>1. /\ px'[d] = o /\ o.uid = px[d].uid /\ o.del = px[d].del /\ o.fin = px[d].fin
    BY DEF Appended, Same
  <1>2. NothingThere(d)'
    BY <1>1 DEF Incarnation, NothingThere
  <1>3. DeletedFirst(d)'
    <2> SUFFICES ASSUME NEW i \in Positions(d)', NEW j \in Positions(d)', i < j
                 PROVE  /\ ~Version(d, i)'.del /\ Version(d, j)'.del => px'[d].del
                        /\ Version(d, i)'.del /\ ~Version(d, j)'.del => ~px'[d].del
      BY DEF DeletedFirst
    <2>1. i \in Positions(d) /\ Version(d, i)' = Version(d, i)
      BY DEF Appended
    <2> QED BY <1>1, <2>1 DEF Appended, Incarnation, DeletedFirst
  <1>4. FinalizerSeen(d)'
    BY <1>1 DEF Appended, Incarnation, FinalizerSeen
  <1>5. RunSeen(d)'
    <2>1. \A i \in Positions(d)' : \/ i \in Positions(d) /\ Version(d, i)' = Version(d, i)
                                   \/ Version(d, i)' = o
      BY DEF Appended
    <2>2. pc[d] \in TermLocs => px[d].del \/ ~px[d].fin
      BY DEF Incarnation, RunSeen
    <2> QED BY <1>1, <2>1, <2>2, Disjoint DEF Incarnation, RunSeen
  <1> QED BY <1>2, <1>3, <1>4, <1>5 DEF Incarnation

(* AddFinalizer: the informer has got the end of every incarnation before.   *)
LEMMA FinalizerSet ==
    ASSUME NEW d \in DB, NEW o \in Px, Incarnation(d), Appended(d, o), pc[d] = "addFinalizer",
           o.uid = px[d].uid, o.del = px[d].del, o.fin, px[d].uid # 0,
           \/ pc'[d] = "idle"
           \/ pc'[d] \in Held /\ my'[d].uid = o.uid
    PROVE  Incarnation(d)'
  <1>1. /\ px'[d] = o
        /\ \A i \in Positions(d) : Version(d, i).del => px[d].del
        /\ \A i \in Positions(d)' : \/ i \in Positions(d) /\ Version(d, i)' = Version(d, i)
                                    \/ i = Len(watch) + 1 /\ Version(d, i)' = o
    BY DEF Appended, Incarnation, RunSeen
  <1>2. NothingThere(d)'
    BY <1>1 DEF NothingThere
  <1>3. DeletedFirst(d)'
    <2> SUFFICES ASSUME NEW i \in Positions(d)', NEW j \in Positions(d)', i < j
                 PROVE  /\ ~Version(d, i)'.del /\ Version(d, j)'.del => px'[d].del
                        /\ Version(d, i)'.del /\ ~Version(d, j)'.del => ~px'[d].del
      BY DEF DeletedFirst
    <2>1. i \in Positions(d) /\ Version(d, i)' = Version(d, i)
      BY DEF Appended
    <2> QED BY <1>1, <2>1 DEF Appended, Incarnation, DeletedFirst
  <1>4. FinalizerSeen(d)'
    BY <1>1 DEF Incarnation, FinalizerSeen
  <1>5. RunSeen(d)'
    BY <1>1, Disjoint DEF RunSeen
  <1> QED BY <1>2, <1>3, <1>4, <1>5 DEF Incarnation

(* The deletion timestamp is set.                                            *)
LEMMA DeletionSet ==
    ASSUME NEW d \in DB, NEW o \in Px, Incarnation(d), Appended(d, o),
           pc'[d] = pc[d] /\ my'[d] = my[d],
           o.uid = px[d].uid, o.del, o.fin, px[d].fin, ~px[d].del
    PROVE  Incarnation(d)'
  <1>1. /\ px'[d] = o
        /\ \A i \in Positions(d) : ~Version(d, i).del
        /\ \A i \in Positions(d)' : \/ i \in Positions(d) /\ Version(d, i)' = Version(d, i)
                                    \/ i = Len(watch) + 1 /\ Version(d, i)' = o
    BY DEF Appended, Incarnation, FinalizerSeen
  <1>2. NothingThere(d)'
    BY <1>1 DEF Incarnation, NothingThere
  <1>3. DeletedFirst(d)'
    <2> SUFFICES ASSUME NEW i \in Positions(d)', NEW j \in Positions(d)', i < j
                 PROVE  /\ ~Version(d, i)'.del /\ Version(d, j)'.del => px'[d].del
                        /\ Version(d, i)'.del /\ ~Version(d, j)'.del => ~px'[d].del
      BY DEF DeletedFirst
    <2>1. i \in Positions(d) /\ Version(d, i)' = Version(d, i)
      BY DEF Appended
    <2> QED BY <1>1, <2>1
  <1>4. FinalizerSeen(d)'
    BY <1>1 DEF Incarnation, FinalizerSeen
  <1>5. pc[d] \notin TermLocs
    BY DEF Incarnation, RunSeen
  <1>6. RunSeen(d)'
    BY <1>1, <1>5, Disjoint DEF Incarnation, RunSeen
  <1> QED BY <1>2, <1>3, <1>4, <1>6 DEF Incarnation

(* An object without finalizer goes at once, and another may come.           *)
LEMMA UnheldReplaced ==
    ASSUME NEW d \in DB, NEW o \in Px, Incarnation(d), Appended(d, o),
           pc'[d] = pc[d] /\ my'[d] = my[d],
           ~px[d].fin, ~px[d].del, ~o.fin, ~o.del
    PROVE  Incarnation(d)'
  <1>1. /\ px'[d] = o
        /\ \A i \in Positions(d)' : \/ i \in Positions(d) /\ Version(d, i)' = Version(d, i)
                                    \/ i = Len(watch) + 1 /\ Version(d, i)' = o
    BY DEF Appended
  <1>2. NothingThere(d)'
    BY <1>1 DEF NothingThere
  <1>3. DeletedFirst(d)'
    <2> SUFFICES ASSUME NEW i \in Positions(d)', NEW j \in Positions(d)', i < j
                 PROVE  /\ ~Version(d, i)'.del /\ Version(d, j)'.del => px'[d].del
                        /\ Version(d, i)'.del /\ ~Version(d, j)'.del => ~px'[d].del
      BY DEF DeletedFirst
    <2>1. i \in Positions(d) /\ Version(d, i)' = Version(d, i)
      BY DEF Appended
    <2> QED BY <1>1, <2>1 DEF Incarnation, DeletedFirst
  <1>4. FinalizerSeen(d)'
    BY <1>1 DEF Incarnation, FinalizerSeen
  <1>5. RunSeen(d)'
    BY <1>1, Disjoint DEF Incarnation, RunSeen
  <1> QED BY <1>2, <1>3, <1>4, <1>5 DEF Incarnation

(* terminate drops the finalizer of an object that is being deleted.         *)
LEMMA FinalizerDropped ==
    ASSUME NEW d \in DB, NEW o \in Px, Incarnation(d), Appended(d, o),
           pc[d] \in TermLocs, pc'[d] = "idle", px[d].del, ~o.fin, ~o.del
    PROVE  Incarnation(d)'
  <1>1. /\ px'[d] = o
        /\ \A i \in Positions(d) : Version(d, i).del
        /\ \A i \in Positions(d)' : \/ i \in Positions(d) /\ Version(d, i)' = Version(d, i)
                                    \/ i = Len(watch) + 1 /\ Version(d, i)' = o
    BY DEF Appended, Incarnation, RunSeen
  <1>2. NothingThere(d)'
    BY <1>1 DEF NothingThere
  <1>3. DeletedFirst(d)'
    <2> SUFFICES ASSUME NEW i \in Positions(d)', NEW j \in Positions(d)', i < j
                 PROVE  /\ ~Version(d, i)'.del /\ Version(d, j)'.del => px'[d].del
                        /\ Version(d, i)'.del /\ ~Version(d, j)'.del => ~px'[d].del
      BY DEF DeletedFirst
    <2>1. i \in Positions(d) /\ Version(d, i)' = Version(d, i)
      BY DEF Appended
    <2> QED BY <1>1, <2>1
  <1>4. FinalizerSeen(d)'
    BY <1>1 DEF FinalizerSeen
  <1>5. RunSeen(d)'
    BY <1>1, Disjoint DEF RunSeen
  <1> QED BY <1>2, <1>3, <1>4, <1>5 DEF Incarnation

(* The informer stores the next version: what was at Shift(d, i) is at i.    *)
Shift(d, i) == IF i # 0 THEN i + 1 ELSE IF watch[1].db = d THEN 1 ELSE 0

\* Delivery moves the versions of a database one place down, in their order.
LEMMA Delivered ==
    ASSUME ObjOK, WorkOK, Deliver, NEW d \in DB
    PROVE  /\ \A i \in Positions(d)' : /\ Shift(d, i) \in Positions(d)
                                       /\ Version(d, i)' = Version(d, Shift(d, i))
           /\ \A i, j \in Positions(d)' : i < j => Shift(d, i) < Shift(d, j)
  <1>1. /\ watch # << >> /\ watch' = Tail(watch) /\ watch \in Seq(Entries)
        /\ cache' = [cache EXCEPT ![Head(watch).db] = Head(watch).obj]
    BY DEF Deliver, ObjOK, Entries
  <1>2. /\ Len(watch) \in Nat \ {0} /\ Len(watch') = Len(watch) - 1 /\ Len(watch') \in Nat
        /\ \A i \in 1..Len(watch') : watch'[i] = watch[i + 1] /\ i + 1 \in 1..Len(watch)
        /\ Head(watch) = watch[1]
    BY <1>1, WatchTail
  <1>3. cache'[d] = IF watch[1].db = d THEN watch[1].obj ELSE cache[d]
    BY <1>1, <1>2 DEF WorkOK
  <1>4. ASSUME NEW i \in Positions(d)'
        PROVE  /\ i \in Nat /\ (i # 0 => i \in 1..Len(watch') /\ watch'[i].db = d)
    BY <1>2 DEF Positions
  <1>5. ASSUME NEW i \in Positions(d)'
        PROVE  Shift(d, i) \in Positions(d) /\ Version(d, i)' = Version(d, Shift(d, i))
    <2>1. CASE i # 0
      <3>1. Shift(d, i) = i + 1 /\ Version(d, i)' = watch'[i].obj
        BY <2>1 DEF Shift, Version
      <3>2. i + 1 \in 1..Len(watch) /\ watch[i + 1] = watch'[i] /\ i + 1 # 0
        BY <1>2, <1>4, <2>1
      <3>3. Version(d, i + 1) = watch[i + 1].obj /\ i + 1 \in Positions(d)
        BY <1>4, <2>1, <3>2 DEF Version, Positions
      <3> QED BY <3>1, <3>2, <3>3
    <2>2. CASE i = 0 /\ watch[1].db = d
      <3>1. 1 \in 1..Len(watch)
        BY <1>2
      <3>2. Shift(d, i) = 1 /\ Version(d, i)' = cache'[d] /\ Version(d, 1) = watch[1].obj
        BY <2>2 DEF Shift, Version
      <3>3. 1 \in Positions(d)
        BY <2>2, <3>1 DEF Positions
      <3> QED BY <1>3, <2>2, <3>2, <3>3
    <2>3. CASE i = 0 /\ watch[1].db # d
      BY <1>3, <2>3 DEF Shift, Version, Positions
    <2> QED BY <2>1, <2>2, <2>3
  <1>6. ASSUME NEW i \in Positions(d)', NEW j \in Positions(d)', i < j
        PROVE  Shift(d, i) < Shift(d, j)
    BY <1>4, <1>6 DEF Shift
  <1> QED BY <1>5, <1>6

\* Delivery drops a version and adds none.
LEMMA DeliverIncarnation ==
    ASSUME ObjOK, WorkOK, Deliver, NEW d \in DB, Incarnation(d)
    PROVE  Incarnation(d)'
  <1>1. /\ \A i \in Positions(d)' : /\ Shift(d, i) \in Positions(d)
                                    /\ Version(d, i)' = Version(d, Shift(d, i))
        /\ \A i, j \in Positions(d)' : i < j => Shift(d, i) < Shift(d, j)
    BY Delivered
  <1>2. px' = px /\ pc' = pc /\ my' = my
    BY DEF Deliver
  <1>3. NothingThere(d)'
    BY <1>2 DEF Incarnation, NothingThere
  <1>4. DeletedFirst(d)'
    BY <1>1, <1>2 DEF Incarnation, DeletedFirst
  <1>5. FinalizerSeen(d)'
    BY <1>1, <1>2 DEF Incarnation, FinalizerSeen
  <1>6. RunSeen(d)'
    BY <1>1, <1>2 DEF Incarnation, RunSeen
  <1> QED BY <1>3, <1>4, <1>5, <1>6 DEF Incarnation

(* A run begins with the version that the informer has.                      *)
LEMMA BeginIncarnation ==
    ASSUME ObjOK, NEW d \in DB, Incarnation(d), UNCHANGED <<px, watch, cache>>,
           \/ pc'[d] = "idle"
           \/ pc'[d] \in TermLocs /\ cache[d].del
           \/ pc'[d] = "addFinalizer" /\ my'[d] = cache[d] /\ ~cache[d].del
    PROVE  Incarnation(d)'
  <1>1. /\ Positions(d)' = Positions(d) /\ px'[d] = px[d]
        /\ \A i : Version(d, i)' = Version(d, i)
    BY DEF Positions, Version
  <1>2. 0 \in Positions(d) /\ Version(d, 0) = cache[d]
    BY DEF Positions, Version
  <1>3. \A i \in Positions(d) : i = 0 \/ 0 < i
    BY DEF Positions, ObjOK
  <1>4. NothingThere(d)' /\ DeletedFirst(d)' /\ FinalizerSeen(d)'
    BY <1>1 DEF Incarnation, NothingThere, DeletedFirst, FinalizerSeen
  <1>5. RunSeen(d)'
    <2>1. CASE pc'[d] = "idle"
      BY <2>1, Disjoint DEF RunSeen
    <2>2. CASE pc'[d] \in TermLocs /\ cache[d].del
      <3>1. px[d].del \/ ~px[d].fin
        BY <1>2, <2>2 DEF Incarnation, FinalizerSeen
      <3>2. \A i \in Positions(d) : ~Version(d, i).del => ~px[d].del
        BY <1>2, <1>3, <2>2 DEF Incarnation, DeletedFirst
      <3>3. \A i \in Positions(d) : ~Version(d, i).del => ~Version(d, i).fin
        BY <3>1, <3>2 DEF Incarnation, FinalizerSeen
      <3> QED BY <1>1, <2>2, <3>1, <3>2, <3>3, Disjoint DEF RunSeen
    <2>3. CASE pc'[d] = "addFinalizer" /\ my'[d] = cache[d] /\ ~cache[d].del
      <3>1. \A i \in Positions(d) : Version(d, i).del => px[d].del
        BY <1>2, <1>3, <2>3 DEF Incarnation, DeletedFirst
      <3>2. cache[d].fin => px[d].fin /\ px[d].uid = cache[d].uid
        BY <1>2, <2>3 DEF Incarnation, FinalizerSeen
      <3> QED BY <1>1, <2>3, <3>1, <3>2, Disjoint DEF RunSeen
    <2> QED BY <2>1, <2>2, <2>3
  <1> QED BY <1>4, <1>5 DEF Incarnation

\* After a restart the store has the live object and nothing is on the way.
LEMMA StartIncarnation ==
    ASSUME NEW d \in DB, Incarnation(d), StartOperator
    PROVE  Incarnation(d)'
  <1>1. cache' = px /\ watch' = << >> /\ pc'[d] = "idle" /\ px' = px
    BY DEF StartOperator
  <1>2. Positions(d)' = {0} /\ Version(d, 0)' = px[d]
    BY <1>1 DEF Positions, Version
  <1>3. NothingThere(d)' /\ DeletedFirst(d)' /\ FinalizerSeen(d)'
    BY <1>1, <1>2 DEF Incarnation, NothingThere, DeletedFirst, FinalizerSeen
  <1>4. RunSeen(d)'
    BY <1>1, Disjoint DEF RunSeen
  <1> QED BY <1>3, <1>4 DEF Incarnation

----------------------------------------------------------------------------
(* Steps of runs and users, by what they do to all objects. *)

(* A policy that was asked for remains asked for.                            *)
NowVouched(o) == o.del => o.uid \in 1..MaxUid /\ o.policy \in asked'[o.uid].policies

\* What the history knows, it goes on knowing.
LEMMA VouchedKept ==
    ASSUME Grows
    PROVE  \A o : Vouched(o) => NowVouched(o)
  BY DEF Grows, Vouched, NowVouched

\* What is not there is not being deleted.
LEMMA NoPxVouched == Vouched(NoPx) /\ NowVouched(NoPx)
  BY NoPxFacts DEF Vouched, NowVouched

(* The copy of the run on d, where the object may have become o.             *)
Copies(d, o) ==
    /\ \A e \in DB \ {d} : pc'[e] = pc[e] /\ my'[e] = my[e]
    /\ \/ my'[d] = my[d] \/ my'[d] = NoPx \/ my'[d] = o
       \/ Same(my'[d], my[d]) /\ my'[d].policy = my[d].policy

\* A run that takes over a vouched copy keeps all copies vouched.
LEMMA CopyVouched ==
    ASSUME Asked, Grows, NEW d \in DB, NEW o, NowVouched(o), Copies(d, o)
    PROVE  \A e \in DB : NowVouched(my'[e])
  <1>1. ASSUME NEW e \in DB \ {d}
        PROVE  NowVouched(my'[e])
    BY VouchedKept DEF Asked, Copies
  <1>2. NowVouched(my'[d])
    <2>1. CASE my'[d] = my[d]
      BY <2>1, VouchedKept DEF Asked
    <2>2. CASE my'[d] = NoPx
      BY <2>2, NoPxVouched
    <2>3. CASE my'[d] = o
      BY <2>3
    <2>4. CASE Same(my'[d], my[d]) /\ my'[d].policy = my[d].policy
      <3>1. NowVouched(my[d])
        BY VouchedKept DEF Asked
      <3> QED BY <2>4, <3>1 DEF NowVouched, Same
    <2> QED BY <2>1, <2>2, <2>3, <2>4 DEF Copies
  <1> QED BY <1>1, <1>2

\* Asked, put together again from its parts after a step.
LEMMA AskedNow ==
    ASSUME \A e \in DB : NowVouched(px'[e]) /\ NowVouched(cache'[e]) /\ NowVouched(my'[e]),
           \A i \in 1..Len(watch') : NowVouched(watch'[i].obj)
    PROVE  Asked'
  BY DEF Asked, Vouched, NowVouched

(* The object of d becomes o.                                                *)
LEMMA SetStep ==
    ASSUME Reconciling, NEW d \in DB, NEW o \in Px, o.del => o.uid \in 1..MaxUid,
           SetPx(d, o), cache' = cache, Copies(d, o)
    PROVE  /\ ObjOK' /\ Grows /\ Asked'
           /\ Appended(d, o) /\ \A e \in DB \ {d} : Incarnation(e)'
  <1> USE DEF Reconciling
  <1>1. /\ ObjOK' /\ Grows
        /\ o.del => o.policy \in asked'[o.uid].policies
        /\ px'[d] = o /\ \A e \in DB \ {d} : px'[e] = px[e]
        /\ \A i \in 1..Len(watch') : \/ i \in 1..Len(watch) /\ watch'[i] = watch[i]
                                     \/ i = Len(watch) + 1 /\ watch'[i] = [db |-> d, obj |-> o]
    BY SetPxFacts
  <1>2. \A e \in DB :
          /\ \A i \in Positions(e)' : \/ i \in Positions(e) /\ Version(e, i)' = Version(e, i)
                                      \/ e = d /\ i = Len(watch) + 1 /\ Version(e, i)' = o
          /\ \A i \in Positions(e) : i \in Int /\ i < Len(watch) + 1
    BY NewVersion
  <1>3. Appended(d, o)
    <2>1. Len(watch) \in Nat
      BY DEF ObjOK
    <2> QED BY <1>1, <1>2, <2>1 DEF Appended
  <1>4. ASSUME NEW e \in DB \ {d}
        PROVE  Incarnation(e)'
    <2>1. /\ px'[e] = px[e] /\ pc'[e] = pc[e] /\ my'[e] = my[e] /\ Incarnation(e)
          /\ \A i \in Positions(e)' : i \in Positions(e) /\ Version(e, i)' = Version(e, i)
      BY <1>1, <1>2 DEF Copies, Incarnations
    <2> QED BY <2>1, QuietIncarnation
  <1>5. NowVouched(o)
    BY <1>1 DEF NowVouched
  <1>6. Asked'
    <2>1. \A e \in DB : NowVouched(my'[e])
      BY <1>1, <1>5, CopyVouched
    <2>2. \A e \in DB : NowVouched(px'[e]) /\ NowVouched(cache'[e])
      BY <1>1, <1>5, VouchedKept DEF Asked
    <2>3. ASSUME NEW i \in 1..Len(watch')
          PROVE  NowVouched(watch'[i].obj)
      <3>1. CASE i \in 1..Len(watch) /\ watch'[i] = watch[i]
        BY <1>1, <3>1, VouchedKept DEF Asked
      <3>2. CASE watch'[i] = [db |-> d, obj |-> o]
        <4>1. watch'[i].obj = o
          BY <3>2
        <4> QED BY <1>5, <4>1
      <3> QED BY <1>1, <3>1, <3>2
    <2> QED BY <2>1, <2>2, <2>3, AskedNow
  <1> QED BY <1>1, <1>3, <1>4, <1>6

(* No object changes.                                                        *)
LEMMA QuietStep ==
    ASSUME Reconciling, NEW d \in DB, UNCHANGED <<objVars, cache>>, Copies(d, cache[d])
    PROVE  /\ ObjOK' /\ Grows /\ Asked' /\ px'[d] = px[d]
           /\ \A i \in Positions(d)' : i \in Positions(d) /\ Version(d, i)' = Version(d, i)
           /\ \A e \in DB \ {d} : Incarnation(e)'
  <1> USE DEF Reconciling
  <1>1. px' = px /\ watch' = watch /\ asked' = asked /\ cache' = cache
    BY DEF objVars
  <1>2. ObjOK' /\ Grows
    BY <1>1 DEF ObjOK, Grows
  <1>3. \A e \in DB : Positions(e)' = Positions(e) /\ \A i : Version(e, i)' = Version(e, i)
    BY <1>1 DEF Positions, Version
  <1>4. ASSUME NEW e \in DB \ {d}
        PROVE  Incarnation(e)'
    <2>1. /\ px'[e] = px[e] /\ pc'[e] = pc[e] /\ my'[e] = my[e] /\ Incarnation(e)
          /\ \A i \in Positions(e)' : i \in Positions(e) /\ Version(e, i)' = Version(e, i)
      BY <1>1, <1>3 DEF Copies, Incarnations
    <2> QED BY <2>1, QuietIncarnation
  <1>5. NowVouched(cache[d])
    BY <1>2, VouchedKept DEF Asked
  <1>6. Asked'
    <2>1. \A e \in DB : NowVouched(my'[e])
      BY <1>2, <1>5, CopyVouched
    <2>2. \A e \in DB : NowVouched(px'[e]) /\ NowVouched(cache'[e])
      BY <1>1, <1>2, VouchedKept DEF Asked
    <2>3. \A i \in 1..Len(watch') : NowVouched(watch'[i].obj)
      BY <1>1, <1>2, VouchedKept DEF Asked
    <2> QED BY <2>1, <2>2, <2>3, AskedNow
  <1> QED BY <1>1, <1>2, <1>3, <1>4, <1>6

(* Runs that go on as they should.                                           *)
LEMMA MovesFacts ==
    ASSUME Reconciling, NEW d \in DB, Moves(d)
    PROVE  /\ \A o : Copies(d, o)
           /\ Terminating' /\ SecretPicked'
           /\ \/ pc'[d] = pc[d] /\ my'[d] = my[d]
              \/ pc'[d] = "idle"
              \/ pc[d] \in Held /\ pc'[d] \in Held /\ my'[d].uid = my[d].uid
              \/ pc[d] \in TermLocs /\ pc'[d] \in TermLocs
  <1> USE DEF Reconciling
  <1>1. \A o : Copies(d, o)
    BY DEF Moves, Copies
  <1>2. Terminating'
    <2> SUFFICES ASSUME NEW e \in DB
                 PROVE  /\ pc'[e] \in TermLocs => my'[e].del
                        /\ pc'[e] = "wipeOut" => my'[e].policy = "WipeOut"
                        /\ pc'[e] = "ownPvc" => my'[e].policy # "Halt"
      BY DEF Terminating
    <2>1. "wipeOut" \in TermLocs /\ "ownPvc" \in TermLocs
      BY DEF TermLocs
    <2>2. CASE pc'[e] = pc[e] /\ my'[e] = my[e]
      BY <2>2 DEF Terminating
    <2>3. CASE pc'[e] = "idle" \/ pc'[e] \in Held
      BY <2>1, <2>3, Disjoint
    <2>4. CASE /\ pc[e] \in TermLocs /\ pc'[e] \in TermLocs /\ my'[e] = my[e]
               /\ pc'[e] # "wipeOut" /\ (pc'[e] = "ownPvc" => my[e].policy # "Halt")
      BY <2>4 DEF Terminating
    <2> QED BY <2>2, <2>3, <2>4 DEF Moves
  <1>3. SecretPicked'
    BY DEF SecretPicked, Moves
  <1>4. \/ pc'[d] = pc[d] /\ my'[d] = my[d]
        \/ pc'[d] = "idle"
        \/ pc[d] \in Held /\ pc'[d] \in Held /\ my'[d].uid = my[d].uid
        \/ pc[d] \in TermLocs /\ pc'[d] \in TermLocs
    BY DEF Moves, Same
  <1> QED BY <1>1, <1>2, <1>3, <1>4

\* A step of a run that writes no object keeps the first half of the invariant.
LEMMA RunQuiet ==
    ASSUME Reconciling, NEW d \in DB, Moves(d), WorkOK', UNCHANGED <<objVars, cache>>
    PROVE  Reconciling' /\ Grows
  <1>1. Incarnation(d)
    BY DEF Reconciling, Incarnations
  <1>2. /\ ObjOK' /\ Grows /\ Asked' /\ px'[d] = px[d]
        /\ \A i \in Positions(d)' : i \in Positions(d) /\ Version(d, i)' = Version(d, i)
        /\ \A e \in DB \ {d} : Incarnation(e)'
    BY MovesFacts, QuietStep
  <1>3. Incarnation(d)'
    BY <1>1, <1>2, MovesFacts, QuietIncarnation
  <1> QED BY <1>2, <1>3, MovesFacts DEF Reconciling, Incarnations

\* So does one that writes a new version of the same incarnation.
LEMMA RunSame ==
    ASSUME Reconciling, NEW d \in DB, Moves(d), WorkOK', cache' = cache, px[d].uid # 0,
           NEW o \in Px, Same(o, px[d]), SetPx(d, o)
    PROVE  Reconciling' /\ Grows
  <1>1. Incarnation(d)
    BY DEF Reconciling, Incarnations
  <1>2. o.uid \in 1..MaxUid
    <2>1. px[d].uid \in 0..MaxUid /\ o.uid = px[d].uid
      BY PxFields DEF Same, Reconciling, ObjOK
    <2> QED BY <2>1
  <1>3. /\ ObjOK' /\ Grows /\ Asked'
        /\ Appended(d, o) /\ \A e \in DB \ {d} : Incarnation(e)'
    BY <1>2, MovesFacts, SetStep
  <1>4. Incarnation(d)'
    BY <1>1, <1>3, MovesFacts, SameIncarnation
  <1> QED BY <1>3, <1>4, MovesFacts DEF Reconciling, Incarnations

----------------------------------------------------------------------------
(* How a run goes on, and what it leaves alone. *)

\* What Goto changes.
LEMMA Goes ==
    ASSUME WorkOK, NEW d \in DB, NEW l \in Locations, Goto(d, l),
           UNCHANGED <<cache, failures, dirty>>, my' \in [DB -> Px],
           governingService' \in DB \cup {NoSvc}
    PROVE  WorkOK' /\ pc'[d] = l /\ \A e \in DB \ {d} : pc'[e] = pc[e]
  BY DEF WorkOK, Goto

\* What Leave changes.
LEMMA Leaves ==
    ASSUME WorkOK, NEW d \in DB, Leave(d)
    PROVE  /\ pc' \in [DB -> Locations] /\ my' \in [DB -> Px]
           /\ pc'[d] = "idle" /\ my'[d] = NoPx
           /\ \A e \in DB \ {d} : pc'[e] = pc[e] /\ my'[e] = my[e]
           /\ Moves(d)
  <1>1. pc' = [pc EXCEPT ![d] = "idle"] /\ my' = [my EXCEPT ![d] = NoPx]
    BY DEF Leave, Goto
  <1>2. "idle" \in Locations /\ NoPx \in Px
    BY NoPxFacts DEF Locations
  <1>3. /\ pc' \in [DB -> Locations] /\ pc'[d] = "idle"
        /\ \A e \in DB \ {d} : pc'[e] = pc[e]
    BY <1>1, <1>2 DEF WorkOK
  <1>4. /\ my' \in [DB -> Px] /\ my'[d] = NoPx
        /\ \A e \in DB \ {d} : my'[e] = my[e]
    BY <1>1, <1>2 DEF WorkOK
  <1> QED BY <1>3, <1>4 DEF Moves

\* What the end of a run changes.
LEMMA Returns ==
    ASSUME WorkOK, NEW d \in DB, ReturnNil(d) \/ ReturnErr(d),
           UNCHANGED <<cache, governingService>>
    PROVE  WorkOK' /\ Moves(d) /\ pc'[d] = "idle"
  <1>1. Leave(d)
    BY DEF ReturnNil, ReturnErr
  <1>2. 0 \in 0..MaxRetries /\ failures[d] \in 0..MaxRetries
    BY ControllerAssumption DEF WorkOK, ControllerAssumption
  <1>3. failures' \in [DB -> 0..MaxRetries] /\ dirty' \in SUBSET DB
    <2>1. CASE failures' = [failures EXCEPT ![d] = 0] /\ dirty' = dirty
      BY <1>2, <2>1 DEF WorkOK
    <2>2. CASE /\ failures[d] < MaxRetries /\ failures' = [failures EXCEPT ![d] = @ + 1]
               /\ dirty' = dirty \cup {d}
      <3>1. failures[d] + 1 \in 0..MaxRetries
        BY <1>2, <2>2, ControllerAssumption DEF ControllerAssumption
      <3> QED BY <2>2, <3>1 DEF WorkOK
    <2> QED BY <2>1, <2>2 DEF ReturnNil, ReturnErr
  <1> QED BY <1>1, <1>3, Leaves DEF WorkOK

(* A run goes to another location with its copy as it was.                   *)
LEMMA GoesOn ==
    ASSUME WorkOK, NEW d \in DB, NEW l \in Locations, Goto(d, l),
           UNCHANGED <<cache, failures, dirty, my>>,
           governingService' \in DB \cup {NoSvc},
           \/ pc[d] \in Held /\ l \in Held /\ (l = "sts" => my[d].secret # NoSecret)
           \/ /\ pc[d] \in TermLocs /\ l \in TermLocs
              /\ l # "wipeOut" /\ (l = "ownPvc" => my[d].policy # "Halt")
    PROVE  WorkOK' /\ Moves(d) /\ pc'[d] = l
  <1>1. WorkOK' /\ pc'[d] = l /\ \A e \in DB \ {d} : pc'[e] = pc[e]
    BY Goes DEF WorkOK
  <1>2. "sts" \notin TermLocs
    BY DEF TermLocs
  <1> QED BY <1>1, <1>2 DEF Moves, Same

(* A run goes to another location of create or halt with another copy.       *)
LEMMA GoesWith ==
    ASSUME WorkOK, NEW d \in DB, NEW l \in Held, Goto(d, l), pc[d] \in Held,
           NEW o \in Px, Same(o, my[d]), o.policy = my[d].policy,
           my' = [my EXCEPT ![d] = o], l = "sts" => o.secret # NoSecret,
           UNCHANGED <<cache, failures, dirty, governingService>>
    PROVE  WorkOK' /\ Moves(d)
  <1>1. l \in Locations
    BY DEF Held, Locations
  <1>2. my' \in [DB -> Px] /\ my'[d] = o /\ \A e \in DB \ {d} : my'[e] = my[e]
    BY DEF WorkOK
  <1>3. WorkOK' /\ pc'[d] = l /\ \A e \in DB \ {d} : pc'[e] = pc[e]
    BY <1>1, <1>2, Goes DEF WorkOK
  <1> QED BY <1>2, <1>3 DEF Moves

(* The offshoots are left alone.                                             *)
LEMMA OwnersKept ==
    ASSUME Offshoots, ObjOK, Grows, secrets' = secrets, pvc' = pvc
    PROVE  OwnersAsked'
  BY DEF Offshoots, OwnersAsked, Grows

\* A step that leaves the offshoots alone keeps their half of the invariant.
LEMMA OffshootsKept ==
    ASSUME Offshoots, ObjOK, Grows, UNCHANGED <<shootVars, restore>>, CountOK'
    PROVE  Offshoots'
  <1>1. /\ res' = res /\ sts' = sts /\ pods' = pods /\ pvc' = pvc /\ secrets' = secrets
        /\ restore' = restore
    BY DEF shootVars
  <1>2. ShootOK' /\ SecretNamed'
    BY <1>1 DEF Offshoots, ShootOK, SecretNamed
  <1> QED BY <1>1, <1>2, OwnersKept DEF Offshoots

\* The counters stay in their bounds.
LEMMA CountsKept ==
    ASSUME Offshoots, UNCHANGED countVars
    PROVE  CountOK'
  BY DEF Offshoots, CountOK, countVars

(* Only the StatefulSet, the pods or the other offshoots of d change.        *)
LEMMA ResChanged ==
    ASSUME Offshoots, ObjOK, Grows, UNCHANGED <<sts, pods, pvc, secrets, restore>>, CountOK',
           res' \in [DB -> [Kinds -> Owner]]
    PROVE  Offshoots'
  BY OwnersKept DEF Offshoots, ShootOK, SecretNamed

\* Absent and Unowned are no uids.
LEMMA OwnerFacts ==
    /\ Absent \in Owner /\ Unowned \in Owner /\ 0..MaxUid \subseteq Owner
    /\ Absent \notin 0..MaxUid /\ Unowned \notin 1..MaxUid /\ Absent \notin 1..MaxUid
  BY ControllerAssumption DEF Absent, Unowned, Owner, ControllerAssumption

(* A step of a run that changes nothing else.                                *)
LEMMA RunOnly ==
    ASSUME IInv, NEW d \in DB, Moves(d), WorkOK',
           UNCHANGED <<objVars, cache, shootVars, restore>>, CountOK'
    PROVE  IInv'
  <1>1. Reconciling' /\ Grows
    BY RunQuiet DEF IInv
  <1>2. Offshoots'
    BY <1>1, OffshootsKept DEF IInv, Reconciling
  <1> QED BY <1>1, <1>2 DEF IInv

(* UpdatePerconaXtraDBStatus of a run.                                       *)
LEMMA RunStatus ==
    ASSUME IInv, NEW d \in DB, Moves(d), WorkOK', Exists(px[d]),
           NEW p \in Phases, NEW g \in Nat, SetPhase(d, p, g),
           UNCHANGED <<cache, shootVars, restore, countVars>>
    PROVE  IInv'
  <1> DEFINE o == [px[d] EXCEPT !.phase = p, !.obsGen = g]
  <1>1. o \in Px /\ Same(o, px[d])
    BY StatusEdits DEF IInv, Reconciling, ObjOK
  <1>2. SetPx(d, o) /\ px[d].uid # 0
    BY DEF SetPhase, Exists
  <1> HIDE DEF o
  <1>3. Reconciling' /\ Grows
    BY <1>1, <1>2, RunSame DEF IInv
  <1>4. Offshoots'
    BY <1>3, OffshootsKept, CountsKept DEF IInv, Reconciling
  <1> QED BY <1>3, <1>4 DEF IInv

----------------------------------------------------------------------------
(* create *)

\* The types of what a run on d works with.
LEMMA Copy ==
    ASSUME IInv, NEW d \in DB
    PROVE  /\ my[d] \in Px /\ px[d] \in Px /\ cache[d] \in Px
           /\ my[d].uid \in 0..MaxUid /\ my[d].gen \in Nat /\ px[d].obsGen \in Nat
           /\ my[d].secret \in SecretNames \cup {NoSecret} /\ my[d].rev \in Nat
           /\ pc[d] \in Locations
  <1>1. my[d] \in Px /\ px[d] \in Px /\ cache[d] \in Px /\ pc[d] \in Locations
    BY DEF IInv, Reconciling, ObjOK, WorkOK
  <1> QED BY <1>1, PxFields

\* Where create goes after the phase and after the AppBinding.
LEMMA AfterLocs ==
    ASSUME NEW o
    PROVE  /\ AfterPhase(o) \in {"return", "gvr"}
           /\ AfterApp(o) \in {"return", "ready"}
  BY DEF AfterPhase, AfterApp

(* Continue, between locations of create.                                    *)
LEMMA Continues ==
    ASSUME IInv, NEW d \in DB, pc[d] \in Held, NEW l, Continue(d, l),
           l = "return" \/ (l \in Held /\ l # "sts"),
           UNCHANGED <<cache, governingService>>
    PROVE  WorkOK' /\ Moves(d)
  <1>1. WorkOK
    BY DEF IInv, Reconciling
  <1>2. CASE l = "return"
    BY <1>1, <1>2, Returns DEF Continue
  <1>3. CASE l # "return"
    <2>1. /\ l \in Held /\ l \in Locations /\ Goto(d, l) /\ l # "sts"
          /\ UNCHANGED <<cache, failures, dirty, my>>
      BY <1>3 DEF Continue, Held, Locations
    <2>2. governingService' \in DB \cup {NoSvc}
      BY <1>1 DEF WorkOK
    <2> QED BY <1>1, <2>1, <2>2, GoesOn
  <1> QED BY <1>2, <1>3

(* Goto, between locations of create and halt.                               *)
LEMMA Advances ==
    ASSUME IInv, NEW d \in DB, pc[d] \in Held, NEW l \in Held, Goto(d, l),
           l = "sts" => my[d].secret # NoSecret,
           UNCHANGED <<cache, failures, dirty, my>>, governingService' \in DB \cup {NoSvc}
    PROVE  WorkOK' /\ Moves(d)
  <1>1. l \in Locations
    BY DEF Held, Locations
  <1> QED BY <1>1, GoesOn DEF IInv, Reconciling

\* The validation at the start of create.
LEMMA ValidateStep ==
    ASSUME IInv, NEW d \in DB, ValidatePerconaXtraDB(d)
    PROVE  IInv'
  <1>1. PICK l : /\ Continue(d, l)
                 /\ l \in {"return", "provisioning", "gvr"}
    BY AfterLocs DEF ValidatePerconaXtraDB
  <1>2. /\ pc[d] \in Held
        /\ UNCHANGED <<objVars, cache, governingService, shootVars, restore, countVars>>
    BY DEF ValidatePerconaXtraDB, Held, CreateLocs
  <1>3. l = "return" \/ (l \in Held /\ l # "sts")
    BY <1>1 DEF Held, CreateLocs
  <1>4. WorkOK' /\ Moves(d)
    BY <1>1, <1>2, <1>3, Continues
  <1> QED BY <1>2, <1>4, RunOnly, CountsKept DEF IInv

\* The phase Provisioning.
LEMMA ProvisioningStep ==
    ASSUME IInv, NEW d \in DB, SetProvisioning(d)
    PROVE  IInv'
  <1> DEFINE o == [my[d] EXCEPT !.phase = "Provisioning", !.obsGen = px[d].obsGen,
                                !.paused = px[d].paused, !.restored = px[d].restored,
                                !.provisioned = px[d].provisioned]
  <1>1. /\ pc[d] = "provisioning" /\ Exists(px[d])
        /\ SetPhase(d, "Provisioning", px[d].obsGen)
        /\ IF AfterPhase(o) = "return"
           THEN ReturnNil(d)
           ELSE /\ Goto(d, AfterPhase(o))
                /\ my' = [my EXCEPT ![d] = o]
                /\ UNCHANGED <<failures, dirty>>
        /\ UNCHANGED <<cache, governingService, shootVars, restore, countVars>>
    BY DEF SetProvisioning
  <1>2. "Provisioning" \in Phases /\ px[d].obsGen \in Nat /\ px[d].paused \in BOOLEAN
        /\ px[d].restored \in BOOLEAN /\ px[d].provisioned \in BOOLEAN
    BY Copy, PxFields DEF Phases
  <1>3. o \in Px /\ Same(o, my[d]) /\ o.policy = my[d].policy
    <2>1. my[d] \in Px
      BY Copy
    <2> QED BY <1>2, <2>1 DEF Px, Same
  <1> HIDE DEF o
  <1>4. WorkOK' /\ Moves(d)
    <2>1. CASE AfterPhase(o) = "return"
      BY <1>1, <2>1, Returns DEF IInv, Reconciling
    <2>2. CASE AfterPhase(o) = "gvr"
      <3>1. "gvr" \in Held /\ pc[d] \in Held
        BY <1>1 DEF Held, CreateLocs
      <3> QED BY <1>1, <1>3, <2>2, <3>1, GoesWith DEF IInv, Reconciling
    <2> QED BY <2>1, <2>2, AfterLocs
  <1> QED BY <1>1, <1>2, <1>4, RunStatus

\* The governing service.
LEMMA GoverningStep ==
    ASSUME IInv, NEW d \in DB, CreateGoverningService(d)
    PROVE  IInv'
  <1>1. /\ pc[d] = "gvr" /\ governingService' = d /\ Goto(d, "rbac")
        /\ res' = [res EXCEPT ![d]["gvr"] = IF @ = Absent THEN my[d].uid ELSE @]
        /\ UNCHANGED <<objVars, cache, dirty, failures, my, sts, pods, pvc, secrets,
                       restore, countVars>>
    BY DEF CreateGoverningService
  <1>2. pc[d] \in Held /\ "rbac" \in Held /\ "gvr" \in Kinds
    BY <1>1 DEF Held, CreateLocs, Kinds
  <1>3. WorkOK' /\ Moves(d)
    BY <1>1, <1>2, Advances
  <1>4. Reconciling' /\ Grows
    BY <1>1, <1>3, RunQuiet DEF IInv
  <1>5. res' \in [DB -> [Kinds -> Owner]]
    <2>1. my[d].uid \in Owner
      BY Copy, OwnerFacts
    <2> QED BY <1>1, <1>2, <2>1 DEF IInv, Offshoots, ShootOK
  <1> QED BY <1>1, <1>4, <1>5, ResChanged, CountsKept DEF IInv, Reconciling

\* Service, RBAC objects and AppBinding.
LEMMA OffshootStep ==
    ASSUME IInv, NEW d \in DB, EnsureOffshoot(d)
    PROVE  IInv'
  <1>1. /\ pc[d] \in {"rbac", "svc", "app"}
        /\ res' = [res EXCEPT ![d][pc[d]] = my[d].uid]
        /\ UNCHANGED <<objVars, cache, governingService, sts, pods, pvc, secrets,
                       restore, countVars>>
    BY DEF EnsureOffshoot
  <1> DEFINE n == CASE pc[d] = "rbac" -> "svc"
                    [] pc[d] = "svc"  -> "secret"
                    [] OTHER          -> AfterApp(my[d])
  <1>2. PICK l : Continue(d, l) /\ l \in {"svc", "secret", "return", "ready"}
    <2>1. Continue(d, n)
      BY DEF EnsureOffshoot
    <2>2. n \in {"svc", "secret", "return", "ready"}
      <3>1. AfterApp(my[d]) \in {"return", "ready"}
        BY AfterLocs
      <3>2. pc[d] = "rbac" \/ pc[d] = "svc" \/ (pc[d] # "rbac" /\ pc[d] # "svc")
        OBVIOUS
      <3> QED BY <3>1, <3>2
    <2> HIDE DEF n
    <2> QED BY <2>1, <2>2
  <1>3. l = "return" \/ (l \in Held /\ l # "sts")
    BY <1>2 DEF Held, CreateLocs
  <1>4. pc[d] \in Held /\ pc[d] \in Kinds
    BY <1>1 DEF Held, CreateLocs, Kinds
  <1>5. WorkOK' /\ Moves(d)
    BY <1>1, <1>2, <1>3, <1>4, Continues
  <1>6. Reconciling' /\ Grows
    BY <1>1, <1>5, RunQuiet DEF IInv
  <1>7. res' \in [DB -> [Kinds -> Owner]]
    <2>1. my[d].uid \in Owner
      BY Copy, OwnerFacts
    <2> QED BY <1>1, <1>4, <2>1 DEF IInv, Offshoots, ShootOK
  <1> QED BY <1>1, <1>6, <1>7, ResChanged, CountsKept DEF IInv, Reconciling

(* Secrets change; those that get an owner were to be wiped out.             *)
LEMMA SecretsChanged ==
    ASSUME Offshoots, ObjOK, Grows, secrets' \in [SecretNames -> Stored],
           \A s \in SecretNames : secrets'[s].owner \in 1..MaxUid =>
               \/ secrets'[s].owner = secrets[s].owner
               \/ "WipeOut" \in asked'[secrets'[s].owner].policies,
           UNCHANGED <<res, sts, pods, pvc, restore>>, CountOK'
    PROVE  Offshoots'
  <1>1. OwnersAsked'
    <2>1. ASSUME NEW t \in SecretNames, secrets'[t].owner \in 1..MaxUid
          PROVE  "WipeOut" \in asked'[secrets'[t].owner].policies
      BY <2>1 DEF Offshoots, OwnersAsked, Grows
    <2>2. ASSUME NEW e \in DB, pvc'[e].owner \in 1..MaxUid
          PROVE  \E p \in asked'[pvc'[e].owner].policies : p # "Halt"
      BY <2>2 DEF Offshoots, OwnersAsked, Grows
    <2> QED BY <2>1, <2>2 DEF OwnersAsked
  <1> QED BY <1>1 DEF Offshoots, ShootOK, SecretNamed

(* A secret is made or found: it has no owner, or the one it had.            *)
LEMMA SecretMade ==
    ASSUME Offshoots, ObjOK, Grows, NEW s \in SecretNames, NEW o \in Stored,
           secrets' = [secrets EXCEPT ![s] = o],
           o.owner \notin 1..MaxUid \/ o.owner = secrets[s].owner,
           UNCHANGED <<res, sts, pods, pvc, restore>>, CountOK'
    PROVE  Offshoots'
  <1>1. /\ secrets' \in [SecretNames -> Stored] /\ secrets'[s] = o
        /\ \A t \in SecretNames \ {s} : secrets'[t] = secrets[t]
    BY DEF Offshoots, ShootOK
  <1> QED BY <1>1, SecretsChanged

\* A secret for a spec that names none, ...
LEMMA SecretStep ==
    ASSUME IInv, NEW d \in DB, CreateDatabaseSecret(d)
    PROVE  IInv'
  <1>1. /\ pc[d] = "secret" /\ Goto(d, "secretPatch")
        /\ UNCHANGED <<objVars, cache, dirty, failures, my, governingService,
                       res, sts, pods, pvc, restore, uids, edits, faults, crashes>>
    BY DEF CreateDatabaseSecret
  <1>2. pc[d] \in Held /\ "secretPatch" \in Held
    BY <1>1 DEF Held, CreateLocs
  <1>3. WorkOK' /\ Moves(d)
    <2>1. governingService' \in DB \cup {NoSvc}
      BY <1>1 DEF IInv, Reconciling, WorkOK
    <2> QED BY <1>1, <1>2, <2>1, Advances
  <1>4. Reconciling' /\ Grows
    BY <1>1, <1>3, RunQuiet DEF IInv
  <1>5. CASE secrets[d].owner = Absent
    <2> DEFINE o == [owner |-> Unowned, pw |-> passwords + 1]
    <2>1. secrets' = [secrets EXCEPT ![d] = o] /\ passwords' = passwords + 1
      BY <1>5 DEF CreateDatabaseSecret
    <2>2. passwords + 1 \in Nat
      BY DEF IInv, Offshoots, CountOK
    <2>3. o \in Stored /\ o.owner \notin 1..MaxUid
      BY <2>2, OwnerFacts DEF Stored
    <2>4. CountOK'
      BY <1>1, <2>1, <2>2 DEF IInv, Offshoots, CountOK
    <2> HIDE DEF o
    <2>5. Offshoots'
      BY <1>1, <1>4, <2>1, <2>3, <2>4, SecretMade DEF IInv, Reconciling, SecretNames
    <2> QED BY <1>4, <2>5 DEF IInv
  <1>6. CASE secrets[d].owner # Absent
    <2>1. UNCHANGED <<shootVars, restore, countVars>>
      BY <1>1, <1>6 DEF CreateDatabaseSecret, shootVars, countVars
    <2> QED BY <1>4, <2>1, OffshootsKept, CountsKept DEF IInv, Reconciling
  <1> QED BY <1>5, <1>6

\* ... the one the spec names, made empty if it is missing, ...
LEMMA UpgradeStep ==
    ASSUME IInv, NEW d \in DB, UpgradeDatabaseSecret(d)
    PROVE  IInv'
  <1> DEFINE s == my[d].secret
             o == IF secrets[s].owner = Absent THEN [owner |-> Unowned, pw |-> 0] ELSE secrets[s]
  <1>1. /\ pc[d] = "secret" /\ Goto(d, "sts") /\ s # NoSecret
        /\ secrets' = [secrets EXCEPT ![s] = o]
        /\ UNCHANGED <<objVars, cache, dirty, failures, my, governingService,
                       res, sts, pods, pvc, restore, countVars>>
    BY DEF UpgradeDatabaseSecret
  <1>2. pc[d] \in Held /\ "sts" \in Held /\ s \in SecretNames
    BY <1>1, Copy DEF Held, CreateLocs
  <1>3. WorkOK' /\ Moves(d)
    <2>1. governingService' \in DB \cup {NoSvc}
      BY <1>1 DEF IInv, Reconciling, WorkOK
    <2> QED BY <1>1, <1>2, <2>1, Advances
  <1>4. Reconciling' /\ Grows
    BY <1>1, <1>3, RunQuiet DEF IInv
  <1>5. o \in Stored /\ (o.owner \notin 1..MaxUid \/ o.owner = secrets[s].owner)
    <2>1. secrets[s] \in Stored
      BY <1>2 DEF IInv, Offshoots, ShootOK
    <2> QED BY <2>1, OwnerFacts DEF Stored
  <1> HIDE DEF s, o
  <1>6. Offshoots'
    BY <1>1, <1>2, <1>4, <1>5, SecretMade, CountsKept DEF IInv, Reconciling
  <1> QED BY <1>4, <1>6 DEF IInv

\* ... and the name of the new one in the spec.
LEMMA SecretPatchStep ==
    ASSUME IInv, NEW d \in DB, PatchDatabaseSecret(d)
    PROVE  IInv'
  <1> DEFINE o == IF px[d].secret = d THEN px[d]
                  ELSE [px[d] EXCEPT !.secret = d, !.gen = @ + 1]
             n == [my[d] EXCEPT !.secret = d]
  <1>1. /\ pc[d] = "secretPatch" /\ px[d].uid # 0 /\ SetPx(d, o) /\ Goto(d, "sts")
        /\ my' = [my EXCEPT ![d] = n]
        /\ UNCHANGED <<cache, dirty, failures, governingService, shootVars, restore, countVars>>
    BY DEF PatchDatabaseSecret, Exists
  <1>2. d \in SecretNames /\ d # NoSecret /\ pc[d] \in Held /\ "sts" \in Held
    BY <1>1, ControllerAssumption DEF SecretNames, Held, CreateLocs, ControllerAssumption
  <1>3. o \in Px /\ Same(o, px[d])
    <2>1. CASE px[d].secret = d
      BY <2>1, Copy DEF Same
    <2>2. CASE px[d].secret # d
      BY <1>2, <2>2, Copy, SpecEdits
    <2> QED BY <2>1, <2>2
  <1>4. n \in Px /\ Same(n, my[d]) /\ n.policy = my[d].policy /\ n.secret # NoSecret
    BY <1>2, Copy, CopyEdits
  <1> HIDE DEF o, n
  <1>5. WorkOK' /\ Moves(d)
    BY <1>1, <1>2, <1>4, GoesWith DEF IInv, Reconciling
  <1>6. Reconciling' /\ Grows
    BY <1>1, <1>3, <1>5, RunSame DEF IInv
  <1> QED BY <1>1, <1>6, OffshootsKept, CountsKept DEF IInv, Reconciling

(* The StatefulSet and the pods of d change.                                 *)
LEMMA StsChanged ==
    ASSUME Offshoots, ObjOK, Grows, NEW d \in DB, NEW o \in Sts, CountOK',
           sts' = [sts EXCEPT ![d] = o], o.owner # Absent => o.secret # NoSecret,
           pods' \in [DB -> {"none", "starting", "running", "orphaned"}],
           \A e \in DB \ {d} : pods'[e] = pods[e],
           pods'[d] \in {"starting", "running"} => o.owner # Absent,
           UNCHANGED <<res, pvc, secrets, restore>>
    PROVE  Offshoots'
  <1>1. sts' \in [DB -> Sts] /\ sts'[d] = o /\ \A e \in DB \ {d} : sts'[e] = sts[e]
    BY DEF Offshoots, ShootOK
  <1>2. ShootOK'
    BY <1>1 DEF Offshoots, ShootOK
  <1>3. SecretNamed'
    BY <1>1 DEF Offshoots, SecretNamed
  <1> QED BY <1>2, <1>3, OwnersKept DEF Offshoots

\* The StatefulSet, which refers to the secret the copy names.
LEMMA StatefulSetStep ==
    ASSUME IInv, NEW d \in DB, EnsureStatefulSet(d)
    PROVE  IInv'
  <1>1. /\ pc[d] = "sts" /\ sts' = [sts EXCEPT ![d] = DesiredSts(d)]
        /\ Goto(d, "app") \/ Goto(d, "pods")
        /\ UNCHANGED <<objVars, cache, dirty, failures, my, governingService,
                       res, pods, pvc, secrets, restore, countVars>>
    BY DEF EnsureStatefulSet
  <1>2. pc[d] \in Held /\ "app" \in Held /\ "pods" \in Held
    BY <1>1 DEF Held, CreateLocs
  <1>3. WorkOK' /\ Moves(d)
    <2>1. governingService' \in DB \cup {NoSvc}
      BY <1>1 DEF IInv, Reconciling, WorkOK
    <2>2. CASE Goto(d, "app")
      BY <1>1, <1>2, <2>1, <2>2, Advances
    <2>3. CASE Goto(d, "pods")
      BY <1>1, <1>2, <2>1, <2>3, Advances
    <2> QED BY <1>1, <2>2, <2>3
  <1>4. Reconciling' /\ Grows
    BY <1>1, <1>3, RunQuiet DEF IInv
  <1>5. /\ DesiredSts(d) \in Sts
        /\ DesiredSts(d).owner # Absent /\ DesiredSts(d).secret # NoSecret
    <2>1. my[d].uid \in Owner /\ my[d].uid # Absent
      BY Copy, OwnerFacts
    <2>2. governingService \in DB \cup {NoSvc} /\ my[d].secret # NoSecret
      BY <1>1 DEF IInv, Reconciling, WorkOK, SecretPicked
    <2> QED BY <2>1, <2>2, Copy DEF DesiredSts, Sts
  <1>6. pods' = pods /\ pods \in [DB -> {"none", "starting", "running", "orphaned"}]
    BY <1>1 DEF IInv, Offshoots, ShootOK
  <1>7. Offshoots'
    BY <1>1, <1>4, <1>5, <1>6, StsChanged, CountsKept DEF IInv, Reconciling
  <1> QED BY <1>4, <1>7 DEF IInv

\* Without the StatefulSet there are fewer owners to account for.
LEMMA StsDropped ==
    ASSUME Offshoots, ObjOK, Grows, NEW d \in DB, DropSts(d), CountOK',
           UNCHANGED <<res, pvc, secrets, restore>>
    PROVE  Offshoots'
  <1>1. /\ sts' = [sts EXCEPT ![d] = NoSts]
        /\ pods' = [pods EXCEPT ![d] = IF @ = "none" THEN "none" ELSE "orphaned"]
    BY DEF DropSts
  <1>2. NoSts \in Sts /\ NoSts.owner = Absent
    BY OwnerFacts DEF NoSts, Sts
  <1>3. /\ pods' \in [DB -> {"none", "starting", "running", "orphaned"}]
        /\ \A e \in DB \ {d} : pods'[e] = pods[e]
        /\ pods'[d] \notin {"starting", "running"}
    BY <1>1 DEF Offshoots, ShootOK
  <1> QED BY <1>1, <1>2, <1>3, StsChanged

(* A step of create or halt from one location to the next one.               *)
LEMMA Advance ==
    ASSUME IInv, NEW d \in DB, pc[d] \in Held, NEW l \in Held, l # "sts", Goto(d, l),
           UNCHANGED <<objVars, cache, dirty, failures, my, governingService>>
    PROVE  Reconciling' /\ Grows
  <1>1. governingService' \in DB \cup {NoSvc}
    BY DEF IInv, Reconciling, WorkOK
  <1>2. WorkOK' /\ Moves(d)
    BY <1>1, Advances
  <1> QED BY <1>2, RunQuiet DEF IInv

\* A step that only moves the run from one location of create or halt to another.
LEMMA AdvanceOnly ==
    ASSUME IInv, NEW d \in DB, pc[d] \in Held, NEW l \in Held, l # "sts", Goto(d, l),
           UNCHANGED <<objVars, cache, dirty, failures, my, governingService,
                       shootVars, restore, countVars>>
    PROVE  IInv'
  BY Advance, OffshootsKept, CountsKept DEF IInv, Reconciling

\* The writes of the status at the end of a run.
LEMMA ReportStep ==
    ASSUME IInv, NEW d \in DB, SetReady(d) \/ SetHalted(d) \/ PushFailureEvent(d)
    PROVE  IInv'
  <1>1. WorkOK' /\ Moves(d)
    BY Returns DEF SetReady, SetHalted, PushFailureEvent, IInv, Reconciling
  <1>2. "Ready" \in Phases /\ "Halted" \in Phases /\ "NotReady" \in Phases /\ my[d].gen \in Nat
    BY Copy DEF Phases
  <1>3. CASE SetReady(d)
    BY <1>1, <1>2, <1>3, RunStatus DEF SetReady
  <1>4. CASE SetHalted(d)
    BY <1>1, <1>2, <1>4, RunStatus DEF SetHalted
  <1>5. CASE PushFailureEvent(d)
    BY <1>1, <1>2, <1>5, RunStatus DEF PushFailureEvent
  <1> QED BY <1>3, <1>4, <1>5

\* All of create.
LEMMA CreateSteps ==
    ASSUME IInv, NEW d \in DB, CreateStep(d)
    PROVE  IInv'
  <1>1. CASE CheckPodStatus(d)
    <2>1. /\ pc[d] \in Held /\ "app" \in Held /\ Goto(d, "app")
          /\ UNCHANGED <<objVars, cache, dirty, failures, my, governingService,
                         shootVars, restore, countVars>>
      BY <1>1 DEF CheckPodStatus, Held, CreateLocs
    <2> QED BY <2>1, AdvanceOnly
  <1>2. CASE CreateRejected(d)
    <2>1. /\ pc[d] \in Held /\ "fail" \in Held /\ Goto(d, "fail")
          /\ UNCHANGED <<objVars, cache, dirty, failures, my, governingService,
                         shootVars, restore, countVars>>
      BY <1>2 DEF CreateRejected, Rejected, Held, CreateLocs
    <2> QED BY <2>1, AdvanceOnly
  <1> QED BY <1>1, <1>2, ValidateStep, ProvisioningStep, GoverningStep, OffshootStep, SecretStep,
             UpgradeStep, SecretPatchStep, StatefulSetStep, ReportStep DEF CreateStep

----------------------------------------------------------------------------
(* halt *)

\* The deletions of haltDatabase.
LEMMA HaltDatabaseStep ==
    ASSUME IInv, NEW d \in DB, HaltDatabase(d)
    PROVE  IInv'
  <1>1. /\ pc[d] \in {"haltApp", "haltRbac", "haltSvcs"}
        /\ UNCHANGED <<objVars, cache, dirty, failures, my, governingService,
                       sts, pods, pvc, secrets, restore, countVars>>
    BY DEF HaltDatabase
  <1>2. PICK gone \in SUBSET Kinds :
          res' = [res EXCEPT ![d] = [k \in Kinds |-> IF k \in gone THEN Absent ELSE @[k]]]
    BY DEF HaltDatabase, Kinds
  <1>3. PICK l \in {"haltSts", "haltSvcs", "waitPaused"} : Goto(d, l)
    BY DEF HaltDatabase
  <1>4. pc[d] \in Held /\ l \in Held /\ l # "sts"
    BY <1>1 DEF Held, HaltLocs
  <1>5. Reconciling' /\ Grows
    BY <1>1, <1>3, <1>4, Advance
  <1>6. res' \in [DB -> [Kinds -> Owner]]
    <2>1. [k \in Kinds |-> IF k \in gone THEN Absent ELSE res[d][k]] \in [Kinds -> Owner]
      BY OwnerFacts DEF IInv, Offshoots, ShootOK
    <2> QED BY <1>2, <2>1 DEF IInv, Offshoots, ShootOK
  <1> QED BY <1>1, <1>5, <1>6, ResChanged, CountsKept DEF IInv, Reconciling

\* All of halt.
LEMMA HaltSteps ==
    ASSUME IInv, NEW d \in DB, HaltStep(d)
    PROVE  IInv'
  <1>1. CASE Halt(d)
    <2>1. /\ pc[d] \in Held
          /\ Goto(d, "haltApp") \/ Goto(d, "fail")
          /\ "haltApp" \in Held /\ "fail" \in Held
          /\ UNCHANGED <<objVars, cache, dirty, failures, my, governingService,
                         shootVars, restore, countVars>>
      BY <1>1 DEF Halt, Held, HaltLocs
    <2>2. CASE Goto(d, "haltApp")
      BY <2>1, <2>2, AdvanceOnly
    <2>3. CASE Goto(d, "fail")
      BY <2>1, <2>3, AdvanceOnly
    <2> QED BY <2>1, <2>2, <2>3
  <1>2. CASE HaltStatefulSet(d)
    <2>1. /\ pc[d] \in Held /\ "haltRbac" \in Held /\ Goto(d, "haltRbac") /\ DropSts(d)
          /\ UNCHANGED <<objVars, cache, dirty, failures, my, governingService,
                         res, pvc, secrets, restore, countVars>>
      BY <1>2 DEF HaltStatefulSet, Held, HaltLocs
    <2>2. Reconciling' /\ Grows
      BY <2>1, Advance
    <2> QED BY <2>1, <2>2, StsDropped, CountsKept DEF IInv, Reconciling
  <1>3. CASE WaitUntilPaused(d)
    <2>1. /\ pc[d] \in Held /\ "halted" \in Held /\ Goto(d, "halted")
          /\ UNCHANGED <<objVars, cache, dirty, failures, my, governingService,
                         shootVars, restore, countVars>>
      BY <1>3 DEF WaitUntilPaused, Held, HaltLocs
    <2> QED BY <2>1, AdvanceOnly
  <1> QED BY <1>1, <1>2, <1>3, HaltDatabaseStep, ReportStep DEF HaltStep

----------------------------------------------------------------------------
(* terminate *)

\* What the edits of owner references leave.
LEMMA OwnerEdits ==
    ASSUME NEW o \in Stored, NEW u \in 0..MaxUid
    PROVE  /\ Released(o, u) \in Stored
           /\ Released(o, u).owner = Unowned \/ Released(o, u).owner = o.owner
           /\ Owned(o, u) \in Stored
           /\ Owned(o, u).owner = u \/ Owned(o, u).owner = o.owner
  BY OwnerFacts DEF Released, Owned, Stored

(* The claims and the pods of d change.                                      *)
LEMMA ClaimsChanged ==
    ASSUME Offshoots, ObjOK, Grows, NEW d \in DB, NEW o \in Stored,
           pvc' = [pvc EXCEPT ![d] = o],
           o.owner \in 1..MaxUid => \/ o.owner = pvc[d].owner
                                    \/ \E p \in asked'[o.owner].policies : p # "Halt",
           pods' \in [DB -> {"none", "starting", "running", "orphaned"}], SecretNamed',
           UNCHANGED <<res, sts, secrets, restore>>, CountOK'
    PROVE  Offshoots'
  <1>1. /\ pvc' \in [DB -> Stored] /\ pvc'[d] = o
        /\ \A e \in DB \ {d} : pvc'[e] = pvc[e]
    BY DEF Offshoots, ShootOK
  <1>2. OwnersAsked'
    <2>1. ASSUME NEW t \in SecretNames, secrets'[t].owner \in 1..MaxUid
          PROVE  "WipeOut" \in asked'[secrets'[t].owner].policies
      BY <2>1 DEF Offshoots, OwnersAsked, Grows
    <2>2. ASSUME NEW e \in DB, pvc'[e].owner \in 1..MaxUid
          PROVE  \E p \in asked'[pvc'[e].owner].policies : p # "Halt"
      <3>1. CASE pvc'[e].owner = pvc[e].owner
        BY <2>2, <3>1 DEF Offshoots, OwnersAsked, Grows
      <3> QED BY <1>1, <2>2, <3>1
    <2> QED BY <2>1, <2>2 DEF OwnersAsked
  <1> QED BY <1>1, <1>2 DEF Offshoots, ShootOK

(* A step of terminate from one location to the next one.                    *)
LEMMA TermAdvance ==
    ASSUME IInv, NEW d \in DB, pc[d] \in TermLocs, NEW l \in TermLocs, Goto(d, l),
           l # "wipeOut", l = "ownPvc" => my[d].policy # "Halt",
           UNCHANGED <<objVars, cache, dirty, failures, my, governingService>>
    PROVE  Reconciling' /\ Grows
  <1>1. l \in Locations /\ WorkOK /\ governingService' \in DB \cup {NoSvc}
    BY DEF Locations, IInv, Reconciling, WorkOK
  <1>2. WorkOK' /\ Moves(d)
    BY <1>1, GoesOn
  <1> QED BY <1>2, RunQuiet DEF IInv

\* terminate with Halt: the claims are released.
LEMMA ReleasePvcStep ==
    ASSUME IInv, NEW d \in DB, ReleasePvc(d)
    PROVE  IInv'
  <1>1. /\ pc[d] = "releasePvc" /\ pvc' = [pvc EXCEPT ![d] = Released(pvc[d], my[d].uid)]
        /\ Goto(d, "releaseSecret")
        /\ UNCHANGED <<objVars, cache, dirty, failures, my, governingService,
                       res, sts, pods, secrets, restore, countVars>>
    BY DEF ReleasePvc
  <1>2. pc[d] \in TermLocs /\ "releaseSecret" \in TermLocs
    BY <1>1 DEF TermLocs
  <1>3. Reconciling' /\ Grows
    BY <1>1, <1>2, TermAdvance
  <1> DEFINE o == Released(pvc[d], my[d].uid)
  <1>4. /\ o \in Stored
        /\ o.owner \in 1..MaxUid => o.owner = pvc[d].owner
    <2>1. pvc[d] \in Stored /\ my[d].uid \in 0..MaxUid
      BY Copy DEF IInv, Offshoots, ShootOK
    <2> QED BY <2>1, OwnerEdits, OwnerFacts
  <1>5. /\ pods' \in [DB -> {"none", "starting", "running", "orphaned"}]
        /\ SecretNamed'
    BY <1>1 DEF IInv, Offshoots, ShootOK, SecretNamed
  <1> HIDE DEF o
  <1>6. pvc' = [pvc EXCEPT ![d] = o]
    BY <1>1 DEF o
  <1>7. Offshoots'
    BY <1>1, <1>3, <1>4, <1>5, <1>6, ClaimsChanged, CountsKept DEF IInv, Reconciling
  <1> QED BY <1>3, <1>7 DEF IInv

\* terminate with Delete or WipeOut: the claims are given to the object.
LEMMA OwnPvcStep ==
    ASSUME IInv, NEW d \in DB, OwnPvc(d)
    PROVE  IInv'
  <1> DEFINE o == Owned(pvc[d], my[d].uid)
  <1>1. /\ pc[d] = "ownPvc" /\ pvc' = [pvc EXCEPT ![d] = o]
        /\ Goto(d, "removeFinalizer")
        /\ UNCHANGED <<objVars, cache, dirty, failures, my, governingService,
                       res, sts, pods, secrets, restore, countVars>>
    BY DEF OwnPvc
  <1>2. pc[d] \in TermLocs /\ "removeFinalizer" \in TermLocs
    BY <1>1 DEF TermLocs
  <1>3. Reconciling' /\ Grows
    BY <1>1, <1>2, TermAdvance
  <1>4. \E p \in asked'[my[d].uid].policies : p # "Halt"
    <2>1. my[d].del /\ my[d].policy # "Halt"
      BY <1>1, <1>2 DEF IInv, Reconciling, Terminating
    <2>2. my[d].policy \in asked'[my[d].uid].policies
      BY <1>3, <2>1, VouchedKept DEF IInv, Reconciling, Asked, NowVouched
    <2> QED BY <2>1, <2>2
  <1>5. /\ o \in Stored
        /\ o.owner = pvc[d].owner \/ o.owner = my[d].uid
    <2>1. pvc[d] \in Stored /\ my[d].uid \in 0..MaxUid
      BY Copy DEF IInv, Offshoots, ShootOK
    <2> QED BY <2>1, OwnerEdits
  <1>6. /\ pods' \in [DB -> {"none", "starting", "running", "orphaned"}]
        /\ SecretNamed'
    BY <1>1 DEF IInv, Offshoots, ShootOK, SecretNamed
  <1> HIDE DEF o
  <1>7. Offshoots'
    BY <1>1, <1>3, <1>4, <1>5, <1>6, ClaimsChanged, CountsKept DEF IInv, Reconciling
  <1> QED BY <1>3, <1>7 DEF IInv

\* terminate with Halt or Delete: the secret is released.
LEMMA ReleaseSecretStep ==
    ASSUME IInv, NEW d \in DB, ReleaseSecret(d)
    PROVE  IInv'
  <1>1. /\ pc[d] = "releaseSecret"
        /\ secrets' = [s \in SecretNames |->
                         IF s = my[d].secret THEN Released(secrets[s], my[d].uid) ELSE secrets[s]]
        /\ UNCHANGED <<objVars, cache, dirty, failures, my, governingService,
                       res, sts, pods, pvc, restore, countVars>>
    BY DEF ReleaseSecret
  <1>2. PICK l \in {"removeFinalizer", "ownPvc"} :
          Goto(d, l) /\ (l = "ownPvc" => my[d].policy # "Halt")
    BY DEF ReleaseSecret
  <1>3. pc[d] \in TermLocs /\ l \in TermLocs /\ l # "wipeOut"
    BY <1>1 DEF TermLocs
  <1>4. Reconciling' /\ Grows
    BY <1>1, <1>2, <1>3, TermAdvance
  <1>5. \A s \in SecretNames : /\ secrets'[s] \in Stored
                               /\ secrets'[s].owner \in 1..MaxUid =>
                                    secrets'[s].owner = secrets[s].owner
    <2> TAKE s \in SecretNames
    <2>1. secrets[s] \in Stored /\ my[d].uid \in 0..MaxUid
      BY Copy DEF IInv, Offshoots, ShootOK
    <2>2. secrets'[s] = Released(secrets[s], my[d].uid) \/ secrets'[s] = secrets[s]
      BY <1>1
    <2> QED BY <2>1, <2>2, OwnerEdits, OwnerFacts
  <1>6. secrets' \in [SecretNames -> Stored]
    BY <1>1, <1>5
  <1>7. Offshoots'
    BY <1>1, <1>4, <1>5, <1>6, SecretsChanged, CountsKept DEF IInv, Reconciling
  <1> QED BY <1>4, <1>7 DEF IInv

\* terminate with WipeOut: the secret is given to the object unless a peer uses it.
LEMMA WipeOutStep ==
    ASSUME IInv, NEW d \in DB, WipeOutDatabase(d)
    PROVE  IInv'
  <1>1. /\ pc[d] = "wipeOut" /\ Goto(d, "ownPvc")
        /\ UNCHANGED <<objVars, cache, dirty, failures, my, governingService,
                       res, sts, pods, pvc, restore, countVars>>
    BY DEF WipeOutDatabase
  <1>2. PICK unused : secrets' = [s \in SecretNames |->
                        IF s \in unused THEN Owned(secrets[s], my[d].uid) ELSE secrets[s]]
    BY DEF WipeOutDatabase
  <1>3. /\ pc[d] \in TermLocs /\ "ownPvc" \in TermLocs
        /\ my[d].del /\ my[d].policy = "WipeOut"
    BY <1>1 DEF TermLocs, IInv, Reconciling, Terminating
  <1>4. Reconciling' /\ Grows
    BY <1>1, <1>3, TermAdvance
  <1>5. "WipeOut" \in asked'[my[d].uid].policies
    BY <1>3, <1>4, VouchedKept DEF IInv, Reconciling, Asked, NowVouched
  <1>6. \A s \in SecretNames : /\ secrets'[s] \in Stored
                               /\ \/ secrets'[s].owner = secrets[s].owner
                                  \/ "WipeOut" \in asked'[secrets'[s].owner].policies
    <2> TAKE s \in SecretNames
    <2>1. secrets[s] \in Stored /\ my[d].uid \in 0..MaxUid
      BY Copy DEF IInv, Offshoots, ShootOK
    <2>2. secrets'[s] = Owned(secrets[s], my[d].uid) \/ secrets'[s] = secrets[s]
      BY <1>2
    <2> QED BY <1>5, <2>1, <2>2, OwnerEdits
  <1>7. secrets' \in [SecretNames -> Stored]
    BY <1>2, <1>6
  <1>8. Offshoots'
    BY <1>1, <1>4, <1>6, <1>7, SecretsChanged, CountsKept DEF IInv, Reconciling
  <1> QED BY <1>4, <1>8 DEF IInv

\* The object goes with its finalizer.
LEMMA RemoveFinalizerStep ==
    ASSUME IInv, NEW d \in DB, RemoveFinalizer(d)
    PROVE  IInv'
  <1>1. /\ pc[d] = "removeFinalizer" /\ px[d].uid # 0
        /\ SetPx(d, IF px[d].del THEN NoPx ELSE [px[d] EXCEPT !.fin = FALSE])
        /\ ReturnNil(d)
        /\ UNCHANGED <<cache, governingService, shootVars, restore, countVars>>
    BY DEF RemoveFinalizer, Exists
  <1>2. WorkOK' /\ Moves(d) /\ pc'[d] = "idle"
    BY <1>1, Returns DEF IInv, Reconciling
  <1>3. pc[d] \in TermLocs /\ Incarnation(d) /\ Reconciling
    BY <1>1 DEF TermLocs, IInv, Reconciling, Incarnations
  <1>4. Reconciling' /\ Grows
    <2>1. CASE px[d].del
      <3>1. SetPx(d, NoPx)
        BY <1>1, <2>1
      <3>2. /\ ObjOK' /\ Grows /\ Asked'
            /\ Appended(d, NoPx) /\ \A e \in DB \ {d} : Incarnation(e)'
        BY <1>1, <1>2, <1>3, <3>1, MovesFacts, SetStep, NoPxFacts
      <3>3. Incarnation(d)'
        BY <1>2, <1>3, <2>1, <3>2, FinalizerDropped, NoPxFacts
      <3> QED BY <1>2, <1>3, <3>2, <3>3, MovesFacts DEF Reconciling, Incarnations
    <2>2. CASE ~px[d].del
      <3> DEFINE o == [px[d] EXCEPT !.fin = FALSE]
      <3>1. SetPx(d, o)
        BY <1>1, <2>2
      <3>2. ~px[d].fin
        BY <1>3, <2>2 DEF Incarnation, RunSeen
      <3>3. o \in Px /\ o.uid = px[d].uid /\ o.del = px[d].del /\ ~o.fin
        BY Copy, LifeEdits
      <3>4. px[d].fin \in BOOLEAN /\ o.fin \in BOOLEAN
        BY <3>3, Copy, PxFields
      <3> HIDE DEF o
      <3>5. Same(o, px[d])
        BY <3>2, <3>3, <3>4 DEF Same
      <3> QED BY <1>1, <1>2, <1>3, <3>1, <3>3, <3>5, RunSame
    <2> QED BY <2>1, <2>2
  <1> QED BY <1>1, <1>4, OffshootsKept, CountsKept DEF IInv, Reconciling

(* A run returns with nothing changed.                                       *)
LEMMA ReturnOnly ==
    ASSUME IInv, NEW d \in DB, ReturnNil(d) \/ ReturnErr(d),
           UNCHANGED <<objVars, cache, governingService, shootVars, restore>>, CountOK'
    PROVE  IInv'
  BY Returns, RunOnly DEF IInv, Reconciling

\* All of terminate.
LEMMA TerminateSteps ==
    ASSUME IInv, NEW d \in DB, TerminateStep(d)
    PROVE  IInv'
  <1>1. CASE TerminateRejected(d)
    <2>1. /\ ReturnErr(d)
          /\ UNCHANGED <<objVars, cache, governingService, shootVars, restore, countVars>>
      BY <1>1 DEF TerminateRejected
    <2> QED BY <2>1, ReturnOnly, CountsKept DEF IInv
  <1> QED BY <1>1, ReleasePvcStep, ReleaseSecretStep, WipeOutStep, OwnPvcStep,
             RemoveFinalizerStep DEF TerminateStep

----------------------------------------------------------------------------
(* The worker loop, errors and restarts *)

(* An error of create or halt is reported first, another one is returned.    *)
LEMMA ErrorStep ==
    ASSUME IInv, NEW d \in DB, Error(d), pc[d] # "idle", CountOK'
    PROVE  IInv'
  <1>1. UNCHANGED <<objVars, cache, governingService, shootVars, restore>>
    BY DEF Error
  <1>2. CASE pc[d] = "validate"
    <2>1. ReturnNil(d)
      BY <1>2 DEF Error, TermLocs
    <2> QED BY <1>1, <2>1, ReturnOnly
  <1>3. CASE pc[d] \in TermLocs \cup {"addFinalizer", "fail"}
    <2>1. ReturnErr(d)
      BY <1>3 DEF Error, TermLocs
    <2> QED BY <1>1, <2>1, ReturnOnly
  <1>4. CASE pc[d] # "validate" /\ pc[d] \notin TermLocs \cup {"addFinalizer", "fail"}
    <2>1. Goto(d, "fail") /\ UNCHANGED <<failures, dirty, my>>
      BY <1>4 DEF Error
    <2>2. pc[d] \in Held /\ "fail" \in Held
      BY <1>4, Copy DEF Held, Locations
    <2>3. Reconciling' /\ Grows
      BY <1>1, <2>1, <2>2, Advance
    <2> QED BY <1>1, <2>3, OffshootsKept DEF IInv, Reconciling
  <1> QED BY <1>2, <1>3, <1>4

\* A failing call ends the run or sends it to pushFailureEvent.
LEMMA CallFailsStep ==
    ASSUME IInv, NEW d \in DB, CallFails(d)
    PROVE  IInv'
  <1>1. CountOK'
    BY DEF CallFails, Error, IInv, Offshoots, CountOK
  <1> QED BY <1>1, ErrorStep DEF CallFails, Silent

\* So does an object that is gone.
LEMMA NotFoundStep ==
    ASSUME IInv, NEW d \in DB, NotFound(d)
    PROVE  IInv'
  <1>1. CountOK'
    BY DEF NotFound, Error, IInv, Offshoots, CountOK
  <1>2. pc[d] # "idle"
    BY DEF NotFound, ObjectLocs
  <1> QED BY <1>1, <1>2, ErrorStep DEF NotFound

(* A run that begins, and one that goes from its finalizer to create or halt. *)
LEMMA RunBegins ==
    ASSUME Reconciling, NEW d \in DB,
           \A e \in DB \ {d} : pc'[e] = pc[e] /\ my'[e] = my[e],
           pc'[d] \in TermLocs => my'[d].del,
           pc'[d] = "wipeOut" => my'[d].policy = "WipeOut",
           pc'[d] # "ownPvc", pc'[d] # "sts"
    PROVE  Terminating' /\ SecretPicked'
  BY DEF Reconciling, Terminating, SecretPicked

\* Where terminate begins under each policy.
LEMMA TerminateLocs ==
    ASSUME NEW p
    PROVE  /\ TerminateLoc(p) \in {"releasePvc", "wipeOut", "releaseSecret"}
           /\ TerminateLoc(p) = "wipeOut" => p = "WipeOut"
  <1>1. CASE p = "Halt"
    BY <1>1 DEF TerminateLoc
  <1>2. CASE p = "WipeOut"
    BY <1>2 DEF TerminateLoc
  <1>3. CASE p # "Halt" /\ p # "WipeOut"
    BY <1>3 DEF TerminateLoc
  <1> QED BY <1>1, <1>2, <1>3

\* A run begins with the copy in the store.
LEMMA BeginStep ==
    ASSUME IInv, NEW d \in DB, RunPerconaXtraDB(d)
    PROVE  IInv'
  <1> DEFINE o == cache[d]
             k == CASE ~Exists(o)       -> "idle"
                    [] o.del /\ ~o.fin  -> "idle"
                    [] o.del /\ o.fin   -> TerminateLoc(o.policy)
                    [] OTHER            -> "addFinalizer"
  <1>1. /\ dirty' = dirty \ {d} /\ Goto(d, k)
        /\ my' = [my EXCEPT ![d] = IF k = "idle" THEN NoPx ELSE o]
        /\ failures' = IF k = "idle" THEN [failures EXCEPT ![d] = 0] ELSE failures
        /\ UNCHANGED <<objVars, cache, governingService, shootVars, restore, countVars>>
    BY DEF RunPerconaXtraDB
  <1>2. \/ k = "idle"
        \/ k = TerminateLoc(o.policy) /\ o.del
        \/ k = "addFinalizer" /\ ~o.del
    <2>1. o.del \in BOOLEAN /\ o.fin \in BOOLEAN
      BY Copy, PxFields
    <2>2. CASE ~Exists(o)
      BY <2>2
    <2>3. CASE Exists(o) /\ o.del /\ ~o.fin
      BY <2>3
    <2>4. CASE Exists(o) /\ o.del /\ o.fin
      BY <2>4
    <2>5. CASE Exists(o) /\ ~o.del
      BY <2>5
    <2> QED BY <2>1, <2>2, <2>3, <2>4, <2>5
  <1>3. PICK l : l = k
    OBVIOUS
  <1> HIDE DEF k
  <1>4. /\ l \in Locations /\ l # "ownPvc" /\ l # "sts"
        /\ l \in TermLocs => l = TerminateLoc(o.policy) /\ o.del
        /\ l = "idle" \/ (l \in TermLocs /\ o.del) \/ (l = "addFinalizer" /\ ~o.del)
    BY <1>2, <1>3, TerminateLocs DEF Locations, TermLocs
  <1>5. o \in Px /\ NoPx \in Px
    BY Copy, NoPxFacts
  <1>6. /\ my' \in [DB -> Px] /\ my'[d] = (IF l = "idle" THEN NoPx ELSE o)
        /\ \A e \in DB \ {d} : my'[e] = my[e]
    BY <1>1, <1>3, <1>5 DEF IInv, Reconciling, WorkOK
  <1>7. /\ pc' \in [DB -> Locations] /\ pc'[d] = l
        /\ \A e \in DB \ {d} : pc'[e] = pc[e]
    BY <1>1, <1>3, <1>4 DEF Goto, IInv, Reconciling, WorkOK
  <1>8. WorkOK'
    <2>1. 0 \in 0..MaxRetries
      BY ControllerAssumption DEF ControllerAssumption
    <2>2. failures' \in [DB -> 0..MaxRetries] /\ dirty' \in SUBSET DB
      BY <1>1, <2>1 DEF IInv, Reconciling, WorkOK
    <2> QED BY <1>1, <1>6, <1>7, <2>2 DEF IInv, Reconciling, WorkOK
  <1>9. Terminating' /\ SecretPicked'
    BY <1>4, <1>6, <1>7, RunBegins, TerminateLocs, Disjoint DEF IInv
  <1>10. /\ ObjOK' /\ Grows /\ Asked'
         /\ \A e \in DB \ {d} : Incarnation(e)'
    BY <1>1, <1>6, <1>7, QuietStep DEF IInv, Copies
  <1>11. Incarnation(d)'
    BY <1>1, <1>4, <1>6, <1>7, BeginIncarnation DEF IInv, Reconciling, Incarnations, objVars
  <1>12. Reconciling'
    BY <1>8, <1>9, <1>10, <1>11 DEF Reconciling, Incarnations
  <1> QED BY <1>1, <1>10, <1>12, OffshootsKept, CountsKept DEF IInv, Reconciling

(* The copy has the finalizer: it is the live object's.                      *)
LEMMA FinalizerThere ==
    ASSUME NEW d \in DB, Incarnation(d), px'[d] = px[d],
           \A i \in Positions(d)' : i \in Positions(d) /\ Version(d, i)' = Version(d, i),
           pc[d] = "addFinalizer", my[d].fin, pc'[d] \in Held, my'[d] = my[d]
    PROVE  Incarnation(d)'
  <1>1. NothingThere(d)' /\ DeletedFirst(d)' /\ FinalizerSeen(d)'
    BY DEF Incarnation, NothingThere, DeletedFirst, FinalizerSeen
  <1>2. RunSeen(d)'
    BY Disjoint DEF Incarnation, RunSeen
  <1> QED BY <1>1, <1>2 DEF Incarnation

\* The finalizer patch and where it leads.
LEMMA FinalizerStep ==
    ASSUME IInv, NEW d \in DB, AddFinalizer(d)
    PROVE  IInv'
  <1> DEFINE o == IF my[d].fin THEN my[d] ELSE [px[d] EXCEPT !.fin = TRUE]
  <1>1. /\ pc[d] = "addFinalizer" /\ (my[d].fin \/ px[d].uid # 0)
        /\ IF my[d].fin THEN UNCHANGED objVars ELSE SetPx(d, o)
        /\ IF o.paused
           THEN ReturnNil(d)
           ELSE /\ Goto(d, IF o.halted THEN "halt" ELSE "validate")
                /\ my' = [my EXCEPT ![d] = o]
                /\ UNCHANGED <<failures, dirty>>
        /\ UNCHANGED <<cache, governingService, shootVars, restore, countVars>>
    BY DEF AddFinalizer, Exists
  <1>2. /\ o \in Px
        /\ ~my[d].fin => o.uid = px[d].uid /\ o.del = px[d].del /\ o.fin
    BY Copy, LifeEdits
  <1>3. my[d].fin => o = my[d]
    OBVIOUS
  <1> HIDE DEF o
  <1>4. /\ WorkOK' /\ pc'[d] # "sts"
        /\ \A e \in DB \ {d} : pc'[e] = pc[e] /\ my'[e] = my[e]
        /\ \/ pc'[d] = "idle" /\ my'[d] = NoPx
           \/ pc'[d] \in Held /\ my'[d] = o
    <2>1. CASE o.paused
      <3>1. ReturnNil(d) /\ Leave(d)
        BY <1>1, <2>1 DEF ReturnNil
      <3> QED BY <1>1, <3>1, Returns, Leaves DEF IInv, Reconciling
    <2>2. CASE ~o.paused
      <3>1. PICK l \in {"halt", "validate"} : Goto(d, l)
        BY <1>1, <2>2
      <3>2. my' = [my EXCEPT ![d] = o] /\ UNCHANGED <<failures, dirty, cache, governingService>>
        BY <1>1, <2>2
      <3>3. my' \in [DB -> Px] /\ my'[d] = o /\ \A e \in DB \ {d} : my'[e] = my[e]
        BY <1>2, <3>2 DEF IInv, Reconciling, WorkOK
      <3>4. l \in Held /\ l \in Locations /\ l # "sts"
        BY DEF Held, CreateLocs, HaltLocs, Locations
      <3>5. WorkOK /\ governingService' \in DB \cup {NoSvc}
        BY <3>2 DEF IInv, Reconciling, WorkOK
      <3> QED BY <3>1, <3>2, <3>3, <3>4, <3>5, Goes
    <2> QED BY <2>1, <2>2
  <1>5. Terminating' /\ SecretPicked'
    <2>1. "wipeOut" \in TermLocs /\ "ownPvc" \in TermLocs
      BY DEF TermLocs
    <2> QED BY <1>4, <2>1, RunBegins, Disjoint DEF IInv
  <1>6. Incarnation(d) /\ Reconciling
    BY DEF IInv, Reconciling, Incarnations
  <1>7. ObjOK' /\ Grows /\ Asked' /\ \A e \in DB : Incarnation(e)'
    <2>1. CASE my[d].fin
      <3>1. Copies(d, cache[d]) /\ UNCHANGED <<objVars, cache>>
        BY <1>1, <1>3, <1>4, <2>1 DEF Copies
      <3>2. /\ ObjOK' /\ Grows /\ Asked' /\ px'[d] = px[d]
            /\ \A i \in Positions(d)' : i \in Positions(d) /\ Version(d, i)' = Version(d, i)
            /\ \A e \in DB \ {d} : Incarnation(e)'
        BY <1>6, <3>1, QuietStep
      <3>3. CASE pc'[d] = "idle"
        BY <1>6, <3>2, <3>3, QuietIncarnation
      <3>4. CASE pc'[d] \in Held /\ my'[d] = my[d]
        BY <1>1, <1>6, <2>1, <3>2, <3>4, FinalizerThere
      <3> QED BY <1>3, <1>4, <2>1, <3>2, <3>3, <3>4
    <2>2. CASE ~my[d].fin
      <3>1. SetPx(d, o) /\ px[d].uid # 0 /\ cache' = cache
        BY <1>1, <2>2
      <3>2. o.uid \in 1..MaxUid
        <4>1. px[d].uid \in 0..MaxUid
          BY Copy, PxFields
        <4> QED BY <1>2, <2>2, <3>1, <4>1
      <3>3. Copies(d, o)
        BY <1>4 DEF Copies
      <3>4. /\ ObjOK' /\ Grows /\ Asked'
            /\ Appended(d, o) /\ \A e \in DB \ {d} : Incarnation(e)'
        BY <1>2, <1>6, <3>1, <3>2, <3>3, SetStep
      <3>5. Incarnation(d)'
        BY <1>1, <1>2, <1>4, <1>6, <2>2, <3>1, <3>4, FinalizerSet
      <3> QED BY <3>4, <3>5
    <2> QED BY <2>1, <2>2
  <1>8. Reconciling'
    BY <1>4, <1>5, <1>7 DEF Reconciling, Incarnations
  <1> QED BY <1>1, <1>7, <1>8, OffshootsKept, CountsKept DEF IInv, Reconciling

(* The informer, and the start of the operator.                              *)
LEMMA DeliverStep ==
    ASSUME IInv, Deliver
    PROVE  IInv'
  <1>1. /\ watch # << >> /\ watch' = Tail(watch) /\ watch \in Seq(Entries)
        /\ cache' = [cache EXCEPT ![Head(watch).db] = Head(watch).obj]
        /\ dirty' = dirty \/ dirty' = dirty \cup {Head(watch).db}
        /\ UNCHANGED <<px, asked, failures, pc, my, governingService, shootVars, restore,
                       countVars>>
    BY DEF Deliver, IInv, Reconciling, ObjOK, Entries
  <1>2. /\ watch' \in Seq(Entries) /\ Len(watch) \in Nat \ {0} /\ Len(watch') = Len(watch) - 1
        /\ \A i \in 1..Len(watch') : watch'[i] = watch[i + 1] /\ i + 1 \in 1..Len(watch)
        /\ Head(watch) = watch[1] /\ watch[1] \in Entries
    BY <1>1, WatchTail
  <1>3. watch[1].db \in DB /\ watch[1].obj \in Px
    BY <1>2 DEF Entries
  <1>4. ObjOK' /\ Grows
    BY <1>1, <1>2 DEF IInv, Reconciling, ObjOK, Entries, Grows
  <1>5. cache' \in [DB -> Px] /\ \A d \in DB : cache'[d] = cache[d] \/ cache'[d] = watch[1].obj
    BY <1>1, <1>2, <1>3 DEF IInv, Reconciling, WorkOK
  <1>6. WorkOK'
    <2>1. dirty' \in SUBSET DB
      BY <1>1, <1>2, <1>3 DEF IInv, Reconciling, WorkOK
    <2> QED BY <1>1, <1>5, <2>1 DEF IInv, Reconciling, WorkOK
  <1>7. Incarnations'
    BY DeliverIncarnation DEF IInv, Reconciling, Incarnations
  <1>8. Asked'
    <2>1. \A i \in 1..Len(watch) : NowVouched(watch[i].obj)
      BY <1>4, VouchedKept DEF IInv, Reconciling, Asked
    <2>2. 1 \in 1..Len(watch)
      BY <1>2
    <2>3. \A d \in DB : NowVouched(px[d]) /\ NowVouched(cache[d]) /\ NowVouched(my[d])
      BY <1>4, VouchedKept DEF IInv, Reconciling, Asked
    <2>4. \A d \in DB : NowVouched(px'[d]) /\ NowVouched(cache'[d]) /\ NowVouched(my'[d])
      BY <1>1, <1>5, <2>1, <2>2, <2>3
    <2>5. \A i \in 1..Len(watch') : NowVouched(watch'[i].obj)
      BY <1>2, <2>1
    <2> QED BY <2>4, <2>5, AskedNow
  <1>9. Terminating' /\ SecretPicked'
    BY <1>1 DEF IInv, Reconciling, Terminating, SecretPicked
  <1>10. Reconciling'
    BY <1>4, <1>6, <1>7, <1>8, <1>9 DEF Reconciling
  <1> QED BY <1>1, <1>4, <1>10, OffshootsKept, CountsKept DEF IInv, Reconciling

\* The resync only enqueues.
LEMMA ResyncStep ==
    ASSUME IInv, NEW d \in DB, Resync(d)
    PROVE  IInv'
  <1>1. /\ dirty' = dirty \cup {d}
        /\ UNCHANGED <<objVars, cache, failures, pc, my, governingService,
                       shootVars, restore, countVars>>
    BY DEF Resync
  <1>2. WorkOK'
    BY <1>1 DEF IInv, Reconciling, WorkOK
  <1>3. Moves(d)
    BY <1>1 DEF Moves, IInv, Reconciling, SecretPicked
  <1> QED BY <1>1, <1>2, <1>3, RunOnly, CountsKept DEF IInv

\* A restart reads the live objects.
LEMMA StartStep ==
    ASSUME IInv, StartOperator, CountOK'
    PROVE  IInv'
  <1>1. /\ cache' = px /\ watch' = << >> /\ dirty' = {d \in DB : Exists(px[d])}
        /\ failures' = [d \in DB |-> 0] /\ pc' = [d \in DB |-> "idle"]
        /\ my' = [d \in DB |-> NoPx] /\ governingService' = NoSvc
        /\ UNCHANGED <<px, asked, shootVars, restore>>
    BY DEF StartOperator
  <1>2. ObjOK' /\ Grows
    BY <1>1 DEF IInv, Reconciling, ObjOK, Grows
  <1>3. WorkOK'
    <2>1. 0 \in 0..MaxRetries /\ "idle" \in Locations
      BY ControllerAssumption DEF ControllerAssumption, Locations
    <2> QED BY <1>1, <2>1, NoPxFacts DEF IInv, Reconciling, ObjOK, WorkOK
  <1>4. Incarnations'
    BY StartIncarnation DEF IInv, Reconciling, Incarnations
  <1>5. Asked'
    <2>1. \A d \in DB : NowVouched(px'[d]) /\ NowVouched(cache'[d]) /\ NowVouched(my'[d])
      BY <1>1, <1>2, VouchedKept, NoPxVouched DEF IInv, Reconciling, Asked
    <2>2. \A i \in 1..Len(watch') : NowVouched(watch'[i].obj)
      BY <1>1
    <2> QED BY <2>1, <2>2, AskedNow
  <1>6. Terminating' /\ SecretPicked'
    BY <1>1 DEF Terminating, SecretPicked, TermLocs
  <1>7. Reconciling'
    BY <1>2, <1>3, <1>4, <1>5, <1>6 DEF Reconciling
  <1> QED BY <1>1, <1>2, <1>7, OffshootsKept DEF IInv, Reconciling

\* The process ends, by itself or in pushFailureEvent.
LEMMA CrashStep ==
    ASSUME IInv, Crash \/ \E d \in DB : PushFailurePanics(d)
    PROVE  IInv'
  <1>1. StartOperator /\ UNCHANGED <<uids, passwords, edits, faults>>
        /\ (crashes' = crashes \/ crashes' = crashes + 1)
    BY DEF Crash, PushFailurePanics
  <1>2. CountOK'
    BY <1>1 DEF IInv, Offshoots, CountOK
  <1> QED BY <1>1, <1>2, StartStep

----------------------------------------------------------------------------
(* Users and Stash *)

(* No run moves.                                                             *)
LEMMA RunsStay ==
    ASSUME IInv, UNCHANGED workVars
    PROVE  /\ WorkOK' /\ cache' = cache /\ pc' = pc /\ my' = my
           /\ Terminating' /\ SecretPicked'
           /\ \A d \in DB : Moves(d) /\ \A o : Copies(d, o)
  <1>1. /\ cache' = cache /\ dirty' = dirty /\ failures' = failures /\ pc' = pc /\ my' = my
        /\ governingService' = governingService
    BY DEF workVars
  <1>2. WorkOK' /\ Terminating' /\ SecretPicked'
    BY <1>1 DEF IInv, Reconciling, WorkOK, Terminating, SecretPicked
  <1>3. \A d \in DB : Moves(d) /\ \A o : Copies(d, o)
    BY <1>1 DEF IInv, Reconciling, SecretPicked, Moves, Copies
  <1> QED BY <1>1, <1>2, <1>3

(* Another version of the same object.                                       *)
LEMMA EditStep ==
    ASSUME IInv, NEW d \in DB, px[d].uid # 0, NEW o \in Px, Same(o, px[d]), SetPx(d, o),
           UNCHANGED <<workVars, shootVars, restore>>, CountOK'
    PROVE  IInv'
  <1>1. Reconciling' /\ Grows
    BY RunsStay, RunSame DEF IInv
  <1> QED BY <1>1, OffshootsKept DEF IInv, Reconciling

\* Edits of the spec and of the conditions.
LEMMA EditSteps ==
    ASSUME IInv, NEW d \in DB,
           \/ EditHalt(d) \/ EditResume(d) \/ EditPolicy(d) \/ EditSpec(d)
           \/ EditPaused(d) \/ EditProvisioned(d)
    PROVE  IInv'
  <1>1. PICK op : Edit(d, op)
    BY DEF EditHalt, EditResume, EditPolicy, EditSpec, EditPaused, EditProvisioned
  <1>2. px[d].uid # 0 /\ UNCHANGED <<workVars, shootVars, restore>> /\ px[d] \in Px
    BY <1>1, Copy DEF Edit, Exists
  <1>3. CountOK'
    BY <1>1 DEF Edit, IInv, Offshoots, CountOK
  <1>4. PICK o \in Px : Same(o, px[d]) /\ SetPx(d, o)
    <2>1. CASE EditHalt(d)
      BY <1>2, <2>1, SpecEdits DEF EditHalt
    <2>2. CASE EditResume(d)
      BY <1>2, <2>2, SpecEdits DEF EditResume
    <2>3. CASE EditPolicy(d)
      <3>1. PICK p \in Policies : SetPx(d, [px[d] EXCEPT !.policy = p, !.gen = @ + 1])
        BY <2>3 DEF EditPolicy
      <3>2. p \in AllPolicies
        BY ControllerAssumption DEF ControllerAssumption
      <3> QED BY <1>2, <3>1, <3>2, SpecEdits
    <2>4. CASE EditSpec(d)
      BY <1>2, <2>4, SpecEdits DEF EditSpec
    <2>5. CASE EditPaused(d)
      BY <1>2, <2>5, StatusEdits DEF EditPaused
    <2>6. CASE EditProvisioned(d)
      BY <1>2, <2>6, StatusEdits DEF EditProvisioned
    <2> QED BY <2>1, <2>2, <2>3, <2>4, <2>5, <2>6
  <1> QED BY <1>2, <1>3, <1>4, EditStep

\* A new object, with a uid nobody has had.
LEMMA CreatePxStep ==
    ASSUME IInv, NEW d \in DB, CreatePx(d)
    PROVE  IInv'
  <1>1. /\ px[d].uid = 0 /\ uids < MaxUid /\ uids' = uids + 1
        /\ UNCHANGED <<workVars, shootVars, restore, passwords, edits, faults, crashes>>
    BY DEF CreatePx, Exists
  <1>2. CountOK' /\ uids' \in 1..MaxUid
    BY <1>1, ControllerAssumption DEF IInv, Offshoots, CountOK, ControllerAssumption
  <1>3. PICK o \in Px : o.uid = uids' /\ ~o.del /\ ~o.fin /\ SetPx(d, o)
    <2>1. PICK p \in Policies, s \in UserSecrets \cup {NoSecret} :
            SetPx(d, [NoPx EXCEPT !.uid = uids', !.gen = 1, !.policy = p, !.secret = s])
      BY DEF CreatePx
    <2>2. p \in AllPolicies /\ s \in SecretNames \cup {NoSecret}
      BY ControllerAssumption DEF ControllerAssumption, SecretNames
    <2> DEFINE n == [NoPx EXCEPT !.uid = uids', !.gen = 1, !.policy = p, !.secret = s]
    <2>3. n \in Px /\ n.uid = uids' /\ ~n.del /\ ~n.fin
      BY <1>2, <2>2, NewPx
    <2> HIDE DEF n
    <2>4. SetPx(d, n)
      BY <2>1 DEF n
    <2> QED BY <2>3, <2>4
  <1>4. Incarnation(d) /\ ~px[d].fin /\ ~px[d].del
    BY <1>1 DEF IInv, Reconciling, Incarnations, Incarnation, NothingThere
  <1>5. /\ ObjOK' /\ Grows /\ Asked'
        /\ Appended(d, o) /\ \A e \in DB \ {d} : Incarnation(e)'
    BY <1>1, <1>3, RunsStay, SetStep DEF IInv
  <1>6. Incarnation(d)'
    BY <1>1, <1>3, <1>4, <1>5, RunsStay, UnheldReplaced
  <1>7. Reconciling'
    BY <1>1, <1>5, <1>6, RunsStay DEF Reconciling, Incarnations
  <1> QED BY <1>1, <1>2, <1>5, <1>7, OffshootsKept DEF IInv, Reconciling

\* A deletion enters the history with its policy.
LEMMA DeletePxStep ==
    ASSUME IInv, NEW d \in DB, DeletePx(d)
    PROVE  IInv'
  <1> DEFINE o == IF px[d].fin THEN [px[d] EXCEPT !.del = TRUE, !.gen = @ + 1] ELSE NoPx
  <1>1. /\ px[d].uid # 0 /\ ~px[d].del /\ SetPx(d, o)
        /\ UNCHANGED <<workVars, shootVars, restore, countVars>>
    BY DEF DeletePx, Exists
  <1>2. /\ o \in Px
        /\ px[d].fin => o.uid = px[d].uid /\ o.del /\ o.fin
        /\ ~px[d].fin => ~o.fin /\ ~o.del
    <2>1. CASE px[d].fin
      BY <2>1, Copy, LifeEdits
    <2>2. CASE ~px[d].fin
      BY <2>2, NoPxFacts
    <2> QED BY <2>1, <2>2
  <1> HIDE DEF o
  <1>3. o.del => o.uid \in 1..MaxUid
    <2>1. px[d].uid \in 0..MaxUid
      BY Copy, PxFields
    <2> QED BY <1>1, <1>2, <2>1
  <1>4. /\ ObjOK' /\ Grows /\ Asked'
        /\ Appended(d, o) /\ \A e \in DB \ {d} : Incarnation(e)'
    BY <1>1, <1>2, <1>3, RunsStay, SetStep DEF IInv
  <1>5. Incarnation(d)
    BY DEF IInv, Reconciling, Incarnations
  <1>6. Incarnation(d)'
    <2>1. CASE px[d].fin
      BY <1>1, <1>2, <1>4, <1>5, <2>1, RunsStay, DeletionSet
    <2>2. CASE ~px[d].fin
      BY <1>1, <1>2, <1>4, <1>5, <2>2, RunsStay, UnheldReplaced
    <2> QED BY <2>1, <2>2
  <1>7. Reconciling'
    BY <1>1, <1>4, <1>6, RunsStay DEF Reconciling, Incarnations
  <1> QED BY <1>1, <1>4, <1>7, OffshootsKept, CountsKept DEF IInv, Reconciling

(* Neither runs nor objects change.                                          *)
LEMMA ObjectsStay ==
    ASSUME IInv, UNCHANGED <<objVars, workVars>>
    PROVE  Reconciling' /\ Grows
  <1>1. px' = px /\ watch' = watch /\ asked' = asked /\ cache' = cache /\ pc' = pc /\ my' = my
    BY DEF objVars, workVars
  <1>2. ObjOK' /\ Grows
    BY <1>1 DEF IInv, Reconciling, ObjOK, Grows
  <1>3. Asked'
    BY <1>1 DEF IInv, Reconciling, Asked, Vouched
  <1>4. \A d \in DB : Positions(d)' = Positions(d) /\ \A i : Version(d, i)' = Version(d, i)
    BY <1>1 DEF Positions, Version
  <1>5. Incarnations'
    BY <1>1, <1>4, QuietIncarnation DEF IInv, Reconciling, Incarnations
  <1> QED BY <1>2, <1>3, <1>5, RunsStay DEF Reconciling

\* Restore sessions change at most a condition.
LEMMA RestoreSteps ==
    ASSUME IInv, NEW d \in DB, CreateRestoreSession(d) \/ StashStep(d)
    PROVE  IInv'
  <1>1. CASE CreateRestoreSession(d) \/ RunRestore(d) \/ RetryRestore(d)
    <2>1. /\ UNCHANGED <<objVars, workVars, shootVars, countVars>>
          /\ \/ restore' = [restore EXCEPT ![d] = "Running"]
             \/ restore' = [restore EXCEPT ![d] = "Succeeded"]
             \/ restore' = [restore EXCEPT ![d] = "Failed"]
      BY <1>1 DEF CreateRestoreSession, RunRestore, RetryRestore
    <2>2. Reconciling' /\ Grows
      BY <2>1, ObjectsStay
    <2>3. restore' \in [DB -> {"none", "Running", "Succeeded", "Failed"}]
      BY <2>1 DEF IInv, Offshoots, ShootOK
    <2>4. res' = res /\ sts' = sts /\ pods' = pods /\ pvc' = pvc /\ secrets' = secrets
      BY <2>1 DEF shootVars
    <2>5. ShootOK' /\ SecretNamed'
      BY <2>3, <2>4 DEF IInv, Offshoots, ShootOK, SecretNamed
    <2> QED BY <2>1, <2>2, <2>4, <2>5, OwnersKept, CountsKept DEF IInv, Reconciling, Offshoots
  <1>2. CASE ProcessRestoreSession(d)
    <2> DEFINE b == restore[d] = "Succeeded"
               o == [px[d] EXCEPT !.restored = b]
    <2>1. /\ px[d].uid # 0 /\ SetPx(d, o)
          /\ UNCHANGED <<workVars, shootVars, restore, countVars>>
      BY <1>2 DEF ProcessRestoreSession, Exists
    <2>2. b \in BOOLEAN
      OBVIOUS
    <2> HIDE DEF b
    <2>3. o \in Px /\ Same(o, px[d])
      BY <2>2, Copy, StatusEdits
    <2> HIDE DEF o
    <2> QED BY <2>1, <2>3, EditStep, CountsKept DEF IInv
  <1> QED BY <1>1, <1>2 DEF StashStep

\* Everything users do.
LEMMA UserSteps ==
    ASSUME IInv, NEW d \in DB, UserStep(d)
    PROVE  IInv'
  BY CreatePxStep, EditSteps, DeletePxStep, RestoreSteps DEF UserStep

----------------------------------------------------------------------------
(* Kubernetes *)

\* Pods and the claims they come with.
LEMMA PodSteps ==
    ASSUME IInv, NEW d \in DB, CreatePods(d) \/ StartPods(d)
    PROVE  IInv'
  <1>1. Reconciling' /\ Grows
    BY ObjectsStay DEF CreatePods, StartPods
  <1>2. UNCHANGED <<res, sts, secrets, restore, countVars>>
    BY DEF CreatePods, StartPods
  <1>3. pvc[d] \in Stored /\ pods \in [DB -> {"none", "starting", "running", "orphaned"}]
    BY DEF IInv, Offshoots, ShootOK
  <1>4. PICK p \in {"starting", "running"} :
          pods' = [pods EXCEPT ![d] = p] /\ sts[d].owner # Absent
    BY DEF CreatePods, StartPods, IInv, Offshoots, SecretNamed
  <1>5. pods' \in [DB -> {"none", "starting", "running", "orphaned"}] /\ SecretNamed'
    BY <1>2, <1>3, <1>4 DEF IInv, Offshoots, SecretNamed
  <1>6. PICK o \in Stored : /\ pvc' = [pvc EXCEPT ![d] = o]
                            /\ o.owner \in 1..MaxUid => o.owner = pvc[d].owner
    <2>1. CASE CreatePods(d)
      <3> DEFINE o == IF pvc[d].owner = Absent THEN [owner |-> Unowned, pw |-> 0] ELSE pvc[d]
      <3>1. pvc' = [pvc EXCEPT ![d] = o]
        BY <2>1 DEF CreatePods
      <3>2. o \in Stored /\ (o.owner \in 1..MaxUid => o.owner = pvc[d].owner)
        BY <1>3, OwnerFacts DEF Stored
      <3> HIDE DEF o
      <3> QED BY <3>1, <3>2
    <2>2. CASE StartPods(d)
      <3> DEFINE w == IF pvc[d].pw = 0 THEN secrets[sts[d].secret].pw ELSE pvc[d].pw
                 o == [pvc[d] EXCEPT !.pw = w]
      <3>1. pvc' = [pvc EXCEPT ![d] = o]
        BY <2>2 DEF StartPods, IInv, Offshoots, ShootOK
      <3>2. secrets[sts[d].secret] \in Stored
        <4>1. sts[d] \in Sts /\ sts[d].secret # NoSecret
          BY <1>4 DEF IInv, Offshoots, ShootOK, SecretNamed
        <4>2. sts[d].secret \in SecretNames
          BY <4>1 DEF Sts
        <4> QED BY <4>2 DEF IInv, Offshoots, ShootOK
      <3>3. w \in Nat
        BY <1>3, <3>2 DEF Stored
      <3> HIDE DEF w
      <3>4. o \in Stored /\ o.owner = pvc[d].owner
        BY <1>3, <3>3 DEF Stored
      <3> HIDE DEF o
      <3> QED BY <3>1, <3>4
    <2> QED BY <2>1, <2>2
  <1>7. Offshoots'
    BY <1>1, <1>2, <1>5, <1>6, ClaimsChanged, CountsKept DEF IInv, Reconciling
  <1> QED BY <1>1, <1>7 DEF IInv

\* What is not stored has no owner.
LEMMA NoStoredFacts == NoStored \in Stored /\ NoStored.owner \notin 1..MaxUid
  BY OwnerFacts DEF NoStored, Stored

\* The StatefulSet controller and the garbage collector.
LEMMA KubernetesSteps ==
    ASSUME IInv, NEW d \in DB, KubernetesStep(d)
    PROVE  IInv'
  <1>1. CASE CreatePods(d) \/ StartPods(d)
    BY <1>1, PodSteps
  <1>2. CASE DeletePods(d)
    <2>1. /\ pods' = [pods EXCEPT ![d] = "none"]
          /\ UNCHANGED <<objVars, workVars, res, sts, pvc, secrets, restore, countVars>>
      BY <1>2 DEF DeletePods
    <2>2. Reconciling' /\ Grows
      BY <2>1, ObjectsStay
    <2>3. ShootOK' /\ SecretNamed'
      BY <2>1 DEF IInv, Offshoots, ShootOK, SecretNamed
    <2> QED BY <2>1, <2>2, <2>3, OwnersKept, CountsKept DEF IInv, Reconciling, Offshoots
  <1>3. ASSUME NEW k \in Kinds, CollectOffshoot(d, k)
        PROVE  IInv'
    <2>1. /\ res' = [res EXCEPT ![d][k] = Absent]
          /\ UNCHANGED <<objVars, workVars, sts, pods, pvc, secrets, restore, countVars>>
      BY <1>3 DEF CollectOffshoot
    <2>2. Reconciling' /\ Grows
      BY <2>1, ObjectsStay
    <2>3. res' \in [DB -> [Kinds -> Owner]]
      BY <2>1, OwnerFacts DEF IInv, Offshoots, ShootOK
    <2> QED BY <2>1, <2>2, <2>3, ResChanged, CountsKept DEF IInv, Reconciling
  <1>4. CASE CollectSts(d)
    <2>1. /\ DropSts(d)
          /\ UNCHANGED <<objVars, workVars, res, pvc, secrets, restore, countVars>>
      BY <1>4 DEF CollectSts
    <2>2. Reconciling' /\ Grows
      BY <2>1, ObjectsStay
    <2> QED BY <2>1, <2>2, StsDropped, CountsKept DEF IInv, Reconciling
  <1>5. CASE CollectPvc(d)
    <2>1. /\ pvc' = [pvc EXCEPT ![d] = NoStored]
          /\ UNCHANGED <<objVars, workVars, res, sts, pods, secrets, restore, countVars>>
      BY <1>5 DEF CollectPvc
    <2>2. Reconciling' /\ Grows
      BY <2>1, ObjectsStay
    <2>3. pods' \in [DB -> {"none", "starting", "running", "orphaned"}] /\ SecretNamed'
      BY <2>1 DEF IInv, Offshoots, ShootOK, SecretNamed
    <2> QED BY <2>1, <2>2, <2>3, ClaimsChanged, CountsKept, NoStoredFacts DEF IInv, Reconciling
  <1> QED BY <1>1, <1>2, <1>3, <1>4, <1>5 DEF KubernetesStep

\* The garbage collector on secrets.
LEMMA CollectSecretStep ==
    ASSUME IInv, NEW s \in SecretNames, CollectSecret(s)
    PROVE  IInv'
  <1>1. /\ secrets' = [secrets EXCEPT ![s] = NoStored]
        /\ UNCHANGED <<objVars, workVars, res, sts, pods, pvc, restore, countVars>>
    BY DEF CollectSecret
  <1>2. Reconciling' /\ Grows
    BY <1>1, ObjectsStay
  <1> QED BY <1>1, <1>2, SecretMade, CountsKept, NoStoredFacts DEF IInv, Reconciling

----------------------------------------------------------------------------
(* The invariant *)

\* The invariant holds at the start, ...
LEMMA Initial == Init => IInv
  <1> SUFFICES ASSUME Init PROVE IInv
    OBVIOUS
  <1>1. /\ px = [d \in DB |-> NoPx] /\ cache = px /\ my = px /\ watch = << >>
        /\ pc = [d \in DB |-> "idle"]
    BY DEF Init
  <1>2. ObjOK
    <2>1. asked \in [1..MaxUid -> [policies: SUBSET AllPolicies, peers: SUBSET (0..MaxUid)]]
      BY DEF Init
    <2> QED BY <1>1, <2>1, NoPxFacts DEF ObjOK
  <1>3. WorkOK
    <2>1. 0 \in 0..MaxRetries /\ "idle" \in Locations
      BY ControllerAssumption DEF ControllerAssumption, Locations
    <2> QED BY <1>1, <2>1, NoPxFacts DEF Init, WorkOK
  <1>4. Incarnations
    <2> SUFFICES ASSUME NEW d \in DB PROVE Incarnation(d)
      BY DEF Incarnations
    <2>1. Positions(d) = {0} /\ Version(d, 0) = NoPx /\ px[d] = NoPx /\ pc[d] = "idle"
      BY <1>1 DEF Positions, Version
    <2>2. NothingThere(d) /\ DeletedFirst(d) /\ FinalizerSeen(d)
      BY <2>1, NoPxFacts DEF NothingThere, DeletedFirst, FinalizerSeen
    <2>3. RunSeen(d)
      BY <2>1, Disjoint DEF RunSeen
    <2> QED BY <2>2, <2>3 DEF Incarnation
  <1>5. Asked
    BY <1>1, NoPxVouched DEF Asked
  <1>6. Terminating /\ SecretPicked
    BY <1>1 DEF Terminating, SecretPicked, TermLocs
  <1>7. ShootOK
    <2>1. NoSts \in Sts
      BY OwnerFacts DEF NoSts, Sts
    <2>2. secrets \in [SecretNames -> Stored]
      <3>1. NoStored \in Stored /\ [owner |-> Unowned, pw |-> 1] \in Stored
        BY NoStoredFacts, OwnerFacts DEF Stored
      <3> QED BY <3>1 DEF Init
    <2>3. res \in [DB -> [Kinds -> Owner]]
      BY OwnerFacts DEF Init
    <2> QED BY <2>1, <2>2, <2>3, NoStoredFacts DEF Init, ShootOK
  <1>8. CountOK
    BY ControllerAssumption DEF Init, CountOK, ControllerAssumption
  <1>9. OwnersAsked
    <2>1. \A s \in SecretNames : secrets[s].owner \notin 1..MaxUid
      <3> TAKE s \in SecretNames
      <3>1. secrets[s] = NoStored \/ secrets[s] = [owner |-> Unowned, pw |-> 1]
        BY DEF Init
      <3> QED BY <3>1, NoStoredFacts, OwnerFacts
    <2>2. \A d \in DB : pvc[d].owner \notin 1..MaxUid
      BY NoStoredFacts DEF Init
    <2> QED BY <2>1, <2>2 DEF OwnersAsked
  <1>10. SecretNamed
    <2>1. \A d \in DB : sts[d].owner = Absent /\ pods[d] = "none"
      BY DEF Init, NoSts
    <2> QED BY <2>1 DEF SecretNamed
  <1> QED BY <1>2, <1>3, <1>4, <1>5, <1>6, <1>7, <1>8, <1>9, <1>10
         DEF IInv, Reconciling, Offshoots

\* ... and every step keeps it.
LEMMA Inductive == IInv /\ [Next]_vars => IInv'
  <1> SUFFICES ASSUME IInv, [Next]_vars PROVE IInv'
    OBVIOUS
  <1>1. CASE Deliver
    BY <1>1, DeliverStep
  <1>2. ASSUME NEW d \in DB, Resync(d) \/ RunPerconaXtraDB(d)
        PROVE  IInv'
    BY <1>2, ResyncStep, BeginStep
  <1>3. ASSUME NEW d \in DB, WorkerStep(d)
        PROVE  IInv'
    BY <1>3, FinalizerStep, CreateSteps, HaltSteps, TerminateSteps, ReportStep, NotFoundStep
       DEF WorkerStep
  <1>4. ASSUME NEW d \in DB, FaultStep(d)
        PROVE  IInv'
    BY <1>4, CallFailsStep, CrashStep DEF FaultStep
  <1>5. ASSUME NEW d \in DB, UserStep(d) \/ KubernetesStep(d) \/ StashStep(d)
        PROVE  IInv'
    BY <1>5, UserSteps, KubernetesSteps, RestoreSteps
  <1>6. ASSUME NEW s \in SecretNames, CollectSecret(s)
        PROVE  IInv'
    BY <1>6, CollectSecretStep
  <1>7. CASE Crash
    BY <1>7, CrashStep
  <1>8. CASE UNCHANGED vars
    <2>1. UNCHANGED <<objVars, workVars, shootVars, restore, countVars>>
      BY <1>8 DEF vars
    <2> QED BY <2>1, ObjectsStay, OffshootsKept, CountsKept DEF IInv, Reconciling
  <1> QED BY <1>1, <1>2, <1>3, <1>4, <1>5, <1>6, <1>7, <1>8 DEF Next

(* The inductive invariant holds in every reachable state.                   *)
LEMMA Invariance == Spec => []IInv
  BY Initial, Inductive, PTL DEF Spec

----------------------------------------------------------------------------
(* Theorems, for any number of databases, secrets, goroutines, retries and   *)
(* users' operations, whatever fails and however far the informer is behind. *)

(* Every variable keeps its type: no goroutine is ever at a location the     *)
(* code does not have, no retry counter passes MaxNumRequeues, and no        *)
(* offshoot gets an owner that was never created.                            *)
THEOREM TypeCorrect == Spec => []TypeOK
  <1>1. IInv => TypeOK
    BY DEF IInv, Reconciling, Offshoots, TypeOK
  <1> QED BY <1>1, Invariance, PTL

(* What create and halt work on cannot be deleted under them: from the       *)
(* finalizer patch of workqueue.go:67 on, the live object is the incarnation *)
(* of the run's copy and has its finalizer, although the copy comes from an  *)
(* informer that may be any number of versions and incarnations behind.      *)
THEOREM FinalizerIsHeld == Spec => []FinalizerHeld
  <1>1. IInv => FinalizerHeld
    BY DEF IInv, Reconciling, Incarnations, Incarnation, RunSeen, FinalizerHeld, Held
  <1> QED BY <1>1, Invariance, PTL

(* Only a wipe-out costs a secret (percona_xtradb.go:220-231): a secret that *)
(* the garbage collector may take belongs to an incarnation that was under   *)
(* WipeOut at some time after its deletion was asked for.                    *)
THEOREM SecretsAreKept == Spec => []SecretKeptUnlessWipeOut
  <1>1. IInv => SecretKeptUnlessWipeOut
    BY DEF IInv, Offshoots, OwnersAsked, SecretKeptUnlessWipeOut, Dangling
  <1> QED BY <1>1, Invariance, PTL

(* Halt keeps the volume claims (percona_xtradb.go:212-219): one that the    *)
(* garbage collector may take belongs to an incarnation that was under       *)
(* another policy at some time after its deletion was asked for.             *)
THEOREM ClaimsAreKept == Spec => []PvcKeptUnderHalt
  <1>1. IInv => PvcKeptUnderHalt
    BY DEF IInv, Offshoots, OwnersAsked, PvcKeptUnderHalt, Dangling
  <1> QED BY <1>1, Invariance, PTL

=============================================================================
