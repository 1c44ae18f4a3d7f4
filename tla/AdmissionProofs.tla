--------------------------- MODULE AdmissionProofs ---------------------------
(***************************************************************************)
(* Proofs about Admission for any databases, users, specs, edits and number *)
(* of requests and restarts: what the two webhooks guarantee together about *)
(* the objects the API server stores.                                       *)
(***************************************************************************)
EXTENDS Admission, TLAPS

\* What the mutating webhook has prepared: the object after a create or an
\* update is the one that was read, patched and with its defaults.
Prepared(r) ==
    /\ r.new.exists /\ r.new.del = r.old.del
    /\ r.new.provisioned = r.old.provisioned
    /\ r.old.exists # (r.op = "create")
    /\ r.op = "delete" => r.new = r.old
    /\ r.op # "delete" => (r.new.spec.halted => r.new.spec.policy = "Halt")

\* What the validating webhook has let pass.
Admitted(r) ==
    /\ r.op # "delete" => WellFormed(r.new.spec)
    /\ r.op = "update" => Preserved(r.old, r.new)
    /\ r.op = "delete" /\ r.named /\ r.fresh => r.old.spec.policy # "DoNotTerminate"

\* A request on its way: what was read is the stored object as long as the
\* resourceVersion is that one, and spec.init is among the immutable fields
\* when the fields of a provisioned database are compared.
Course(c) ==
    /\ req[c].fresh => px[req[c].db] = req[c].old
    /\ pc[c] \in {"validate", "insert", "list", "commit"} => Prepared(req[c])
    /\ pc[c] \in {"insert", "list"} => req[c].op = "update"
    /\ pc[c] = "list" /\ req[c].new.provisioned => "init" \in preconditionSpecFields
    /\ pc[c] = "commit" => Admitted(req[c])

(* The inductive invariant: what is stored is well formed because what is    *)
(* committed was admitted, and it was admitted against the object that it    *)
(* replaces.                                                                 *)
IInv ==
    /\ TypeOK
    /\ \A c \in Clients : Course(c)
    /\ FinalizedIsWellFormed

-----------------------------------------------------------------------------
(* Specs and objects. *)

(* The bounds are numbers, and counters stay within them.                    *)
LEMMA Counters ==
    /\ 0 \in 0..MaxRequests /\ 0 \in 0..MaxRestarts
    /\ \A i \in 0..MaxRequests : i < MaxRequests => i + 1 \in 0..MaxRequests
    /\ \A i \in 0..MaxRestarts : i < MaxRestarts => i + 1 \in 0..MaxRestarts
  <1>1. MaxRequests \in Nat /\ MaxRestarts \in Nat
    BY AdmissionAssumption DEF AdmissionAssumption
  <1> QED BY <1>1

(* Every patch leads from a spec to a spec.                                  *)
LEMMA ApplyType ==
    ASSUME NEW s \in Specs, NEW p \in Patches
    PROVE  Apply(s, p) \in Specs
  <1>1. CASE p \in Creations
    <2>1. p \in Specs
      BY <1>1, AdmissionAssumption DEF AdmissionAssumption
    <2>2. Apply(s, p) = p
      BY <2>1 DEF Apply, Specs, Fields
    <2> QED BY <2>1, <2>2
  <1>2. CASE p \in Edits
    BY <1>2, AdmissionAssumption DEF AdmissionAssumption
  <1>3. CASE p = NoPatch
    <2>1. DOMAIN p = {}
      BY <1>3 DEF NoPatch
    <2>2. Apply(s, p) = [f \in Fields |-> s[f]]
      BY <2>1 DEF Apply
    <2> QED BY <2>2 DEF Specs, Fields
  <1>4. CASE p = [secret |-> OwnSecret]
    <2>1. OwnSecret \in Secrets
      BY AdmissionAssumption DEF AdmissionAssumption
    <2>2. Apply(s, p) = [f \in Fields |-> IF f = "secret" THEN OwnSecret ELSE s[f]]
      BY <1>4 DEF Apply
    <2>3. Apply(s, p) = [s EXCEPT !.secret = OwnSecret]
      BY <2>2 DEF Specs, Fields
    <2> QED BY <2>1, <2>3 DEF Specs
  <1> QED BY <1>1, <1>2, <1>3, <1>4 DEF Patches

(* SetDefaults fills in three fields and leaves the others.                  *)
LEMMA SetDefaultsFacts ==
    ASSUME NEW s \in Specs
    PROVE  /\ SetDefaults(s) \in Specs
           /\ SetDefaults(s).policy = IF s.policy = "" THEN "Delete" ELSE s.policy
           /\ SetDefaults(s).storageType = IF s.storageType = "" THEN "Durable" ELSE s.storageType
           /\ \A f \in Fields \ {"replicas", "storageType", "policy"} : SetDefaults(s)[f] = s[f]
  <1> DEFINE n == IF s.replicas = 0 THEN 1 ELSE s.replicas
             v == IF s.storageType = "" THEN "Durable" ELSE s.storageType
             p == IF s.policy = "" THEN "Delete" ELSE s.policy
  <1>1. /\ s.replicas \in 0..3 /\ v \in {"Durable", "Ephemeral"}
        /\ p \in {"Halt", "Delete", "WipeOut", "DoNotTerminate"}
    BY DEF Specs
  <1>2. SetDefaults(s) = [s EXCEPT !.replicas = n, !.storageType = v, !.policy = p]
    BY DEF SetDefaults
  <1>3. n \in 0..3
    <2>1. \A i \in 0..3 : (IF i = 0 THEN 1 ELSE i) \in 0..3
      OBVIOUS
    <2> QED BY <1>1, <2>1
  <1> HIDE DEF n, v, p
  <1>4. [s EXCEPT !.replicas = n, !.storageType = v, !.policy = p] \in Specs
    BY <1>1, <1>3 DEF Specs
  <1>5. SetDefaults(s).policy = p /\ SetDefaults(s).storageType = v
    BY <1>2 DEF Specs
  <1>6. \A f \in Fields \ {"replicas", "storageType", "policy"} : SetDefaults(s)[f] = s[f]
    BY <1>2 DEF Specs, Fields
  <1> QED BY <1>2, <1>4, <1>5, <1>6 DEF v, p

(* The mutating webhook keeps the volumes of a halted database.              *)
LEMMA SetDefaultValuesFacts ==
    ASSUME NEW s \in Specs
    PROVE  /\ setDefaultValues(s) \in Specs
           /\ setDefaultValues(s).halted => setDefaultValues(s).policy = "Halt"
  <1> DEFINE t == IF s.halted THEN [s EXCEPT !.policy = "Halt"] ELSE s
  <1>1. t \in Specs /\ (t.halted => t.policy = "Halt")
    BY DEF Specs
  <1>2. setDefaultValues(s) = SetDefaults(t)
    BY DEF setDefaultValues
  <1> HIDE DEF t
  <1>3. SetDefaults(t) \in Specs /\ SetDefaults(t).halted = t.halted
        /\ SetDefaults(t).policy = IF t.policy = "" THEN "Delete" ELSE t.policy
    BY <1>1, SetDefaultsFacts DEF Fields
  <1> QED BY <1>1, <1>2, <1>3

(* An object is a spec with four flags.                                      *)
LEMMA ObjectFacts ==
    /\ NoSpec \in Specs
    /\ \A o \in Px \cup {NoPx} : /\ o.spec \in Specs /\ o.exists \in BOOLEAN
                                /\ o.provisioned \in BOOLEAN /\ o.fin \in BOOLEAN
                                /\ o.del \in BOOLEAN /\ (o.exists <=> o \in Px)
    /\ ~NoPx.exists /\ ~NoPx.fin
    /\ \A s \in Specs : Stored(s) \in Px /\ ~Stored(s).fin
  <1>1. NoSpec \in Specs
    BY DEF NoSpec, Specs
  <1>2. ~NoPx.exists /\ ~NoPx.fin
    BY DEF NoPx
  <1>3. \A s \in Specs : Stored(s) \in Px /\ ~Stored(s).fin
    BY DEF Stored, NoPx, Px
  <1>4. \A o \in Px \cup {NoPx} : /\ o.spec \in Specs /\ o.exists \in BOOLEAN
                                 /\ o.provisioned \in BOOLEAN /\ o.fin \in BOOLEAN
                                 /\ o.del \in BOOLEAN /\ (o.exists <=> o \in Px)
    <2>1. ASSUME NEW o \in Px
          PROVE  /\ o.spec \in Specs /\ o.exists /\ o.provisioned \in BOOLEAN
                 /\ o.fin \in BOOLEAN /\ o.del \in BOOLEAN
      BY DEF Px
    <2>2. NoPx.spec \in Specs /\ NoPx.provisioned = FALSE /\ NoPx.del = FALSE
          /\ NoPx.exists = FALSE /\ NoPx.fin = FALSE
      BY <1>1 DEF NoPx
    <2>3. NoPx \notin Px
      BY <2>1, <2>2
    <2> QED BY <2>1, <2>2, <2>3
  <1> QED BY <1>1, <1>2, <1>3, <1>4

(* The API server applies the patch to spec and finalizer only.              *)
LEMMA PatchedFacts ==
    ASSUME NEW r \in Requests, NEW old \in Px \cup {NoPx}
    PROVE  LET new == Patched(r, old)
           IN  /\ new \in Px /\ new.del = old.del
               /\ new.provisioned = old.provisioned
  <1>1. old.spec \in Specs
    BY ObjectFacts
  <1>2. Apply(old.spec, r.patch) \in Specs
    BY <1>1, ApplyType DEF Requests
  <1> QED BY <1>2, ObjectFacts DEF Patched, Px, NoPx

-----------------------------------------------------------------------------
(* The course of a request. *)

(* A request that a step does not touch stays where it is in its course: the *)
(* object that it read and the set of immutable fields are the same.         *)
LEMMA CourseKept ==
    ASSUME NEW c \in Clients, Course(c),
           pc'[c] = pc[c], req'[c] = req[c], px' = px,
           preconditionSpecFields \subseteq preconditionSpecFields'
    PROVE  Course(c)'
  BY DEF Course

(* A client without request, and one whose request has just arrived, owe     *)
(* nothing.                                                                  *)
LEMMA CourseBegins ==
    ASSUME NEW c \in Clients, pc'[c] \in {"idle", "mutate"}, ~req'[c].fresh
    PROVE  Course(c)'
  BY DEF Course

(* The operator's and the users' requests arrive.                            *)
LEMMA SubmitStep ==
    ASSUME IInv, NEW c \in Clients, NEW r \in Requests, ~r.fresh, Submit(c, r),
           UNCHANGED <<px, catalog, preconditionSpecFields, initialized, restarts>>,
           requests' \in 0..MaxRequests
    PROVE  IInv'
  <1>1. r # NoReq
    BY DEF Requests, NoReq
  <1>2. TypeOK'
    BY <1>1 DEF IInv, TypeOK, Submit, Locations, InHook
  <1>3. ASSUME NEW x \in Clients
        PROVE  Course(x)'
    <2>1. CASE x = c
      BY <2>1, CourseBegins DEF Submit, IInv, TypeOK
    <2>2. CASE x # c
      BY <2>2, CourseKept DEF Submit, IInv, TypeOK
    <2> QED BY <2>1, <2>2
  <1>4. FinalizedIsWellFormed'
    BY DEF IInv, FinalizedIsWellFormed
  <1> QED BY <1>2, <1>3, <1>4 DEF IInv

(* A request is refused.                                                     *)
LEMMA AnswerStep ==
    ASSUME IInv, NEW c \in Clients, Answer(c),
           UNCHANGED <<px, catalog, preconditionSpecFields, initialized, requests, restarts>>
    PROVE  IInv'
  <1>1. TypeOK'
    BY DEF IInv, TypeOK, Answer, Locations
  <1>2. ASSUME NEW x \in Clients
        PROVE  Course(x)'
    <2>1. CASE x = c
      <3>1. pc'[x] = "idle" /\ req'[x] = NoReq
        BY <2>1 DEF Answer, IInv, TypeOK
      <3> QED BY <3>1, CourseBegins DEF NoReq
    <2>2. CASE x # c
      BY <2>2, CourseKept DEF Answer, IInv, TypeOK
    <2> QED BY <2>1, <2>2
  <1>3. FinalizedIsWellFormed'
    BY DEF IInv, FinalizedIsWellFormed
  <1> QED BY <1>1, <1>2, <1>3 DEF IInv

(* A webhook lets the request pass to location l.                            *)
LEMMA GotoStep ==
    ASSUME IInv, NEW c \in Clients, pc[c] # "idle",
           NEW l \in {"commit", "insert", "list"}, Goto(c, l),
           UNCHANGED <<px, catalog, initialized, requests, restarts>>,
           preconditionSpecFields \subseteq preconditionSpecFields',
           preconditionSpecFields' \subseteq preconditionSpecFields \cup {"init"},
           Course(c)'
    PROVE  IInv'
  <1>1. TypeOK'
    BY DEF IInv, TypeOK, Goto, Locations, InHook
  <1>2. ASSUME NEW x \in Clients, x # c
        PROVE  Course(x)'
    BY <1>2, CourseKept DEF Goto, IInv, TypeOK
  <1>3. FinalizedIsWellFormed'
    BY DEF IInv, FinalizedIsWellFormed
  <1> QED BY <1>1, <1>2, <1>3 DEF IInv

(* The mutating webhook: the object is read and prepared, or the request     *)
(* refused.                                                                  *)
LEMMA MutateStep ==
    ASSUME IInv, NEW c \in Clients, Mutate(c)
    PROVE  IInv'
  <1> DEFINE r   == req[c]
             old == px[r.db]
             new == Patched(r, old)
             res == IF r.op = "delete" THEN old ELSE [new EXCEPT !.spec = setDefaultValues(@)]
  <1>1. r \in Requests /\ r.db \in DB /\ old \in Px \cup {NoPx} /\ pc[c] = "mutate"
    BY DEF IInv, TypeOK, Mutate, Requests
  <1>2. CASE Answer(c)
    BY <1>2, AnswerStep DEF Mutate
  <1>3. CASE ~Answer(c)
    <2>1. /\ old.exists # (r.op = "create")
          /\ pc' = [pc EXCEPT ![c] = "validate"]
          /\ req' = [req EXCEPT ![c].old = old, ![c].fresh = TRUE, ![c].new = res]
          /\ UNCHANGED <<px, catalog, preconditionSpecFields, initialized, requests, restarts>>
      BY <1>3 DEF Mutate
    <2>2. new \in Px /\ new.del = old.del /\ new.provisioned = old.provisioned /\ new.exists
      BY <1>1, PatchedFacts, ObjectFacts
    <2>3. /\ res \in Px /\ res.exists /\ res.del = old.del /\ res.provisioned = old.provisioned
          /\ r.op = "delete" => res = old
          /\ r.op # "delete" => (res.spec.halted => res.spec.policy = "Halt")
      <3>1. CASE r.op = "delete"
        BY <1>1, <2>1, <3>1, ObjectFacts
      <3>2. CASE r.op # "delete"
        <4>1. new.spec \in Specs
          BY <2>2, ObjectFacts
        <4>2. /\ setDefaultValues(new.spec) \in Specs
              /\ setDefaultValues(new.spec).halted => setDefaultValues(new.spec).policy = "Halt"
          BY <4>1, SetDefaultValuesFacts
        <4>3. res = [new EXCEPT !.spec = setDefaultValues(new.spec)]
          BY <3>2
        <4> HIDE DEF new, res, old, r
        <4> QED BY <2>2, <3>2, <4>2, <4>3 DEF Px
      <3> QED BY <3>1, <3>2
    <2> HIDE DEF new, res
    <2>4. /\ req'[c] \in Requests /\ req'[c].old = old /\ req'[c].new = res /\ req'[c].fresh
          /\ req'[c].op = r.op /\ req'[c].db = r.db
      <3> DEFINE q == [r EXCEPT !.old = old, !.fresh = TRUE, !.new = res]
      <3>1. req'[c] = q
        BY <2>1 DEF IInv, TypeOK
      <3> HIDE DEF r, old
      <3>2. q \in Requests /\ q.old = old /\ q.new = res /\ q.fresh /\ q.op = r.op /\ q.db = r.db
        BY <1>1, <2>3 DEF Requests
      <3> QED BY <3>1, <3>2
    <2>5. \A x \in Clients : x # c => req'[x] = req[x] /\ pc'[x] = pc[x]
      BY <2>1 DEF IInv, TypeOK
    <2>6. DOMAIN req' = Clients /\ pc' \in [Clients -> Locations] /\ pc'[c] = "validate"
      BY <2>1 DEF IInv, TypeOK, Locations, InHook
    <2>7. req'[c] # NoReq
      BY <2>4 DEF Requests, NoReq
    <2>8. TypeOK'
      <3>1. \A x \in Clients : req'[x] \in Requests \cup {NoReq} /\ (pc'[x] = "idle" <=> req'[x] = NoReq)
        BY <2>4, <2>5, <2>6, <2>7 DEF IInv, TypeOK
      <3>2. req' = [x \in Clients |-> req'[x]]
        BY <2>1 DEF IInv, TypeOK
      <3> QED BY <2>1, <2>6, <3>1, <3>2 DEF IInv, TypeOK
    <2>9. Course(c)'
      BY <2>1, <2>3, <2>4, <2>6 DEF Course, Prepared
    <2>10. ASSUME NEW x \in Clients, x # c
           PROVE  Course(x)'
      BY <2>1, <2>5, <2>10, CourseKept DEF IInv
    <2>11. FinalizedIsWellFormed'
      BY <2>1 DEF IInv, FinalizedIsWellFormed
    <2> QED BY <2>8, <2>9, <2>10, <2>11 DEF IInv
  <1> QED BY <1>2, <1>3

(* What the validating webhook accepts for a prepared spec is well formed.   *)
LEMMA ValidIsWellFormed ==
    ASSUME NEW s \in Specs, s.halted => s.policy = "Halt", ValidatePerconaXtraDB(s)
    PROVE  WellFormed(s)
  BY AdmissionAssumption
  DEF ValidatePerconaXtraDB, validateCluster, WellFormed, Specs, AdmissionAssumption

(* The validating webhook up to the immutable fields.                        *)
LEMMA ValidateStep ==
    ASSUME IInv, NEW c \in Clients, Validate(c)
    PROVE  IInv'
  <1> DEFINE r == req[c]
  <1>1. /\ r \in Requests /\ pc[c] = "validate" /\ Course(c) /\ Prepared(r)
        /\ UNCHANGED <<px, catalog, preconditionSpecFields, initialized, requests, restarts>>
    BY DEF IInv, TypeOK, Validate, Course
  <1>2. r.new \in Px \cup {NoPx} /\ r.new.spec \in Specs
    BY <1>1, ObjectFacts DEF Requests
  <1>3. CASE Answer(c)
    BY <1>1, <1>3, AnswerStep
  <1>4. CASE r.op = "delete" /\ DeleteAllowed(r) /\ Goto(c, "commit")
    <2>1. req' = req /\ pc'[c] = "commit" /\ px' = px
      BY <1>1, <1>4 DEF Goto, IInv, TypeOK
    <2>2. Admitted(r)
      BY <1>1, <1>4 DEF Admitted, DeleteAllowed, Course
    <2>3. Course(c)'
      BY <1>1, <2>1, <2>2 DEF Course
    <2> QED BY <1>1, <1>4, <2>3, GotoStep
  <1>5. CASE r.op = "create" /\ ValidatePerconaXtraDB(r.new.spec) /\ Goto(c, "commit")
    <2>1. req' = req /\ pc'[c] = "commit" /\ px' = px
      BY <1>1, <1>5 DEF Goto, IInv, TypeOK
    <2>2. WellFormed(r.new.spec)
      BY <1>1, <1>2, <1>5, ValidIsWellFormed DEF Prepared
    <2>3. Admitted(r)
      BY <1>5, <2>2 DEF Admitted
    <2>4. Course(c)'
      BY <1>1, <2>1, <2>3 DEF Course
    <2> QED BY <1>1, <1>5, <2>4, GotoStep
  <1>6. CASE r.op = "update" /\ Goto(c, IF r.new.provisioned THEN "insert" ELSE "list")
    <2> DEFINE l == IF r.new.provisioned THEN "insert" ELSE "list"
    <2>1. req' = req /\ pc'[c] = l /\ px' = px
      BY <1>1, <1>6 DEF Goto, IInv, TypeOK
    <2>2. Course(c)'
      BY <1>1, <1>6, <2>1 DEF Course
    <2> QED BY <1>1, <1>6, <2>2, GotoStep
  <1> QED BY <1>1, <1>3, <1>4, <1>5, <1>6 DEF Validate

(* spec.init becomes immutable, for good.                                    *)
LEMMA InsertStep ==
    ASSUME IInv, NEW c \in Clients, Insert(c)
    PROVE  IInv'
  <1>1. /\ pc[c] = "insert" /\ Course(c) /\ req' = req /\ pc'[c] = "list" /\ px' = px
        /\ "init" \in preconditionSpecFields'
    BY DEF IInv, TypeOK, Insert, Goto
  <1>2. Course(c)'
    BY <1>1 DEF Course
  <1> QED BY <1>1, <1>2, GotoStep DEF Insert

(* An update that leaves the immutable fields alone keeps what was written   *)
(* once: the comparison is made against the defaults of the old object.      *)
LEMMA ValidUpdatePreserves ==
    ASSUME NEW old \in Px \cup {NoPx}, NEW new \in Px \cup {NoPx},
           BaseFields \subseteq preconditionSpecFields,
           old.provisioned => "init" \in preconditionSpecFields,
           validateUpdate(old.spec, new.spec)
    PROVE  Preserved(old, new)
  <1> DEFINE s == old.spec
             t == new.spec
             o == SetDefaults(s)
             b == Baseline(s, t)
  <1>1. s \in Specs /\ t \in Specs
    BY ObjectFacts
  <1>2. /\ o \in Specs /\ o.storageType # ""
        /\ \A f \in Fields \ {"replicas", "storageType", "policy"} : o[f] = s[f]
    BY <1>1, SetDefaultsFacts
  <1>3. /\ \A f \in Fields \ {"secret"} : b[f] = o[f]
        /\ s.secret # "" => b.secret = s.secret
    <2>1. o.secret = s.secret /\ b = IF o.secret = "" THEN [o EXCEPT !.secret = t.secret] ELSE o
      BY <1>2 DEF Baseline, Fields
    <2> HIDE DEF o, b
    <2> QED BY <1>2, <2>1 DEF Specs, Fields
  <1>4. \A f \in Fields \cap preconditionSpecFields : b[f] = t[f]
    BY DEF validateUpdate, Changed
  <1>5. /\ o.storageType = t.storageType /\ s.storage = t.storage
        /\ s.nodeSelector = t.nodeSelector /\ (s.secret # "" => t.secret = s.secret)
        /\ old.provisioned => t.init = s.init
    <2> HIDE DEF o, b
    <2> QED BY <1>2, <1>3, <1>4 DEF BaseFields, Fields
  <1>6. SetDefaults(t).storageType = t.storageType
    BY <1>1, <1>2, <1>5, SetDefaultsFacts
  <1> QED BY <1>5, <1>6 DEF Preserved

(* The immutable fields, and the rest of the validation.                     *)
LEMMA ListStep ==
    ASSUME IInv, NEW c \in Clients, List(c)
    PROVE  IInv'
  <1> DEFINE r == req[c]
  <1>1. /\ r \in Requests /\ pc[c] = "list" /\ Course(c) /\ Prepared(r) /\ r.op = "update"
        /\ r.new.provisioned => "init" \in preconditionSpecFields
        /\ UNCHANGED <<px, catalog, preconditionSpecFields, initialized, requests, restarts>>
    BY DEF IInv, TypeOK, List, Course
  <1>2. /\ r.new \in Px \cup {NoPx} /\ r.new.spec \in Specs /\ r.old \in Px \cup {NoPx}
        /\ BaseFields \subseteq preconditionSpecFields
    BY <1>1, ObjectFacts DEF Requests, IInv, TypeOK
  <1>3. CASE Answer(c)
    BY <1>1, <1>3, AnswerStep
  <1>4. CASE /\ validateUpdate(r.old.spec, r.new.spec) /\ ValidatePerconaXtraDB(r.new.spec)
             /\ Goto(c, "commit")
    <2>1. req' = req /\ pc'[c] = "commit" /\ px' = px
      BY <1>1, <1>4 DEF Goto, IInv, TypeOK
    <2>2. WellFormed(r.new.spec)
      BY <1>1, <1>2, <1>4, ValidIsWellFormed DEF Prepared
    <2>3. Preserved(r.old, r.new)
      BY <1>1, <1>2, <1>4, ValidUpdatePreserves DEF Prepared
    <2>4. Admitted(r)
      BY <1>1, <2>2, <2>3 DEF Admitted
    <2>5. Course(c)'
      BY <1>1, <2>1, <2>4 DEF Course
    <2> QED BY <1>1, <1>4, <2>5, GotoStep
  <1> QED BY <1>3, <1>4 DEF List

(* What is committed: the new object, perhaps marked as deleted, or nothing. *)
LEMMA CommittedFacts ==
    ASSUME NEW r \in Requests, Prepared(r)
    PROVE  \/ /\ Committed(r) = NoPx
              /\ r.op = "delete" \/ r.old.del
           \/ /\ Committed(r) \in Px
              /\ Committed(r).spec = r.new.spec /\ Committed(r).fin = r.new.fin
              /\ Committed(r).provisioned = r.new.provisioned
              /\ Committed(r).del <=> (r.op = "delete" \/ r.old.del)
  <1>1. r.new \in Px /\ r.old \in Px \cup {NoPx}
    BY ObjectFacts DEF Prepared, Requests
  <1>2. CASE (r.op = "delete" \/ r.old.del) /\ ~r.new.fin
    BY <1>2 DEF Committed
  <1>3. CASE ~((r.op = "delete" \/ r.old.del) /\ ~r.new.fin)
    <2> DEFINE del == r.op = "delete" \/ r.old.del
    <2>1. Committed(r) = [r.new EXCEPT !.del = del]
      BY <1>3 DEF Committed
    <2>2. del \in BOOLEAN
      OBVIOUS
    <2> HIDE DEF del
    <2>3. /\ Committed(r) \in Px /\ Committed(r).spec = r.new.spec /\ Committed(r).fin = r.new.fin
          /\ Committed(r).provisioned = r.new.provisioned /\ Committed(r).del = del
      BY <1>1, <2>1, <2>2 DEF Px
    <2> QED BY <2>3 DEF del
  <1> QED BY <1>2, <1>3

(* A change of the object of d leaves the requests as they are but for their *)
(* resourceVersion, so that each is still on its course.                     *)
LEMMA OutdatedStep ==
    ASSUME TypeOK, NEW c \in Clients, Course(c), NEW d \in DB,
           px' \in [DB -> Px \cup {NoPx}], \A e \in DB \ {d} : px'[e] = px[e],
           pc'[c] = pc[c], req'[c] = Outdated(d)[c], UNCHANGED preconditionSpecFields
    PROVE  /\ Course(c)'
           /\ req'[c] \in Requests \cup {NoReq} /\ (req'[c] = NoReq <=> req[c] = NoReq)
  <1> DEFINE r == req[c]
             q == [r EXCEPT !.fresh = FALSE]
  <1>1. CASE ~(r.fresh /\ r.db = d)
    <2>1. req'[c] = r
      BY <1>1 DEF Outdated
    <2>2. r.fresh => px'[r.db] = r.old
      <3>1. CASE r = NoReq
        BY <3>1 DEF NoReq
      <3>2. CASE r \in Requests
        BY <1>1, <3>2 DEF Course, Requests
      <3> QED BY <3>1, <3>2 DEF TypeOK
    <2> QED BY <2>1, <2>2 DEF Course, TypeOK
  <1>2. CASE r.fresh /\ r.db = d
    <2>1. req'[c] = q
      BY <1>2 DEF Outdated
    <2>2. r \in Requests
      <3>1. ~NoReq.fresh
        BY DEF NoReq
      <3> QED BY <1>2, <3>1 DEF TypeOK
    <2> HIDE DEF r
    <2>3. /\ q \in Requests /\ q.fresh = FALSE /\ q.op = r.op /\ q.old = r.old
          /\ q.new = r.new /\ q.named = r.named /\ q.db = r.db
      BY <2>2 DEF Requests
    <2> HIDE DEF q
    <2>4. q # NoReq /\ r # NoReq
      BY <2>2, <2>3 DEF Requests, NoReq
    <2>5. (Prepared(r) => Prepared(q)) /\ (Admitted(r) => Admitted(q))
      BY <2>3 DEF Prepared, Admitted
    <2>6. Course(c)'
      BY <2>1, <2>3, <2>5 DEF Course, r
    <2> QED BY <2>1, <2>3, <2>4, <2>6 DEF r
  <1> QED BY <1>1, <1>2

(* The API server commits the object the webhooks have seen.                 *)
LEMMA CommitStep ==
    ASSUME IInv, NEW c \in Clients, Commit(c)
    PROVE  IInv'
  <1> DEFINE r == req[c]
             o == Committed(r)
  <1>1. /\ r \in Requests /\ r.db \in DB /\ pc[c] = "commit" /\ Course(c)
        /\ Prepared(r) /\ Admitted(r)
        /\ UNCHANGED <<catalog, preconditionSpecFields, initialized, requests, restarts>>
    BY DEF IInv, TypeOK, Commit, Course, Requests
  <1>2. CASE r.fresh
    <2>1. /\ px' = [px EXCEPT ![r.db] = o] /\ pc' = [pc EXCEPT ![c] = "idle"]
          /\ req' = [(IF o = r.old THEN req ELSE Outdated(r.db)) EXCEPT ![c] = NoReq]
          /\ px[r.db] = r.old
      BY <1>1, <1>2 DEF Commit, Course
    <2>2. \/ o = NoPx
          \/ o \in Px /\ o.spec = r.new.spec /\ o.fin = r.new.fin
      BY <1>1, CommittedFacts
    <2> HIDE DEF o
    <2>3. px' \in [DB -> Px \cup {NoPx}] /\ px'[r.db] = o /\ \A e \in DB \ {r.db} : px'[e] = px[e]
      BY <1>1, <2>1, <2>2 DEF IInv, TypeOK
    <2>4. /\ pc' \in [Clients -> Locations] /\ pc'[c] = "idle"
          /\ \A x \in Clients \ {c} : pc'[x] = pc[x]
      BY <2>1 DEF IInv, TypeOK, Locations
    <2>5. DOMAIN req' = Clients /\ req'[c] = NoReq
      BY <2>1 DEF IInv, TypeOK, Outdated
    <2>6. ASSUME NEW x \in Clients \ {c}
          PROVE  /\ Course(x)' /\ req'[x] \in Requests \cup {NoReq}
                 /\ req'[x] = NoReq <=> req[x] = NoReq
      <3>1. CASE o = r.old
        <4>1. px' = px /\ req'[x] = req[x]
          BY <2>1, <3>1 DEF IInv, TypeOK
        <4> QED BY <1>1, <2>4, <4>1, CourseKept DEF IInv, TypeOK
      <3>2. CASE o # r.old
        <4>1. req'[x] = Outdated(r.db)[x]
          BY <2>1, <3>2 DEF Outdated
        <4> QED BY <1>1, <2>3, <2>4, <4>1, OutdatedStep DEF IInv
      <3> QED BY <3>1, <3>2
    <2>7. Course(c)'
      BY <2>4, <2>5, CourseBegins DEF NoReq
    <2>8. TypeOK'
      <3>1. \A x \in Clients : /\ req'[x] \in Requests \cup {NoReq}
                               /\ pc'[x] = "idle" <=> req'[x] = NoReq
        BY <2>4, <2>5, <2>6 DEF IInv, TypeOK
      <3>2. req' = [x \in Clients |-> req'[x]]
        BY <2>1, <2>5 DEF IInv, TypeOK, Outdated
      <3> QED BY <1>1, <2>3, <2>4, <3>1, <3>2 DEF IInv, TypeOK
    <2>9. FinalizedIsWellFormed'
      <3>1. o.fin => WellFormed(o.spec)
        <4>1. CASE o = NoPx
          BY <4>1, ObjectFacts
        <4>2. CASE o.spec = r.new.spec /\ o.fin = r.new.fin
          BY <1>1, <2>1, <4>2 DEF IInv, FinalizedIsWellFormed, Prepared, Admitted
        <4> QED BY <2>2, <4>1, <4>2
      <3> QED BY <1>1, <2>3, <3>1 DEF IInv, FinalizedIsWellFormed
    <2> QED BY <2>6, <2>7, <2>8, <2>9 DEF IInv
  <1>3. CASE ~r.fresh
    <2> DEFINE q == [r EXCEPT !.old = NoPx, !.new = NoPx]
    <2>1. /\ px' = px /\ pc' = [pc EXCEPT ![c] = "mutate"]
          /\ req' = [req EXCEPT ![c] = q]
      BY <1>1, <1>3 DEF Commit
    <2>2. q \in Requests /\ ~q.fresh
      <3> HIDE DEF r
      <3> QED BY <1>1, <1>3 DEF Requests
    <2> HIDE DEF q
    <2>3. q # NoReq
      BY <2>2 DEF Requests, NoReq
    <2>4. TypeOK'
      BY <1>1, <2>1, <2>2, <2>3 DEF IInv, TypeOK, Locations, InHook
    <2>5. Course(c)'
      BY <2>1, <2>2, CourseBegins DEF IInv, TypeOK
    <2>6. ASSUME NEW x \in Clients, x # c
          PROVE  Course(x)'
      BY <1>1, <2>1, <2>6, CourseKept DEF IInv, TypeOK
    <2>7. FinalizedIsWellFormed'
      BY <2>1 DEF IInv, FinalizedIsWellFormed
    <2> QED BY <2>4, <2>5, <2>6, <2>7 DEF IInv
  <1> QED BY <1>2, <1>3

-----------------------------------------------------------------------------
(* The operator process and its surroundings. *)

(* The condition Provisioned is written beside the webhooks.                 *)
LEMMA ProvisionStep ==
    ASSUME IInv, NEW d \in DB, Provision(d)
    PROVE  IInv'
  <1> DEFINE o == [px[d] EXCEPT !.provisioned = TRUE]
  <1>1. /\ px' = [px EXCEPT ![d] = o] /\ req' = Outdated(d) /\ px[d].exists
        /\ UNCHANGED <<catalog, preconditionSpecFields, initialized, pc, requests, restarts>>
    BY DEF Provision
  <1>2. px[d] \in Px
    BY <1>1, ObjectFacts DEF IInv, TypeOK
  <1>3. o \in Px /\ o.spec = px[d].spec /\ o.fin = px[d].fin
    BY <1>2 DEF Px
  <1> HIDE DEF o
  <1>4. px' \in [DB -> Px \cup {NoPx}] /\ px'[d] = o /\ \A e \in DB \ {d} : px'[e] = px[e]
    BY <1>1, <1>3 DEF IInv, TypeOK
  <1>5. ASSUME NEW x \in Clients
        PROVE  /\ Course(x)' /\ req'[x] \in Requests \cup {NoReq}
               /\ req'[x] = NoReq <=> req[x] = NoReq
    BY <1>1, <1>4, OutdatedStep DEF IInv
  <1>6. req' = [x \in Clients |-> req'[x]]
    BY <1>1 DEF Outdated
  <1>7. TypeOK'
    BY <1>1, <1>4, <1>5, <1>6 DEF IInv, TypeOK
  <1>8. FinalizedIsWellFormed'
    BY <1>3, <1>4 DEF IInv, FinalizedIsWellFormed
  <1> QED BY <1>5, <1>7, <1>8 DEF IInv

(* The process starts with its own immutable fields; no request that relied  *)
(* on more is still in a webhook.                                            *)
LEMMA EndOfProcessStep ==
    ASSUME IInv, EndOfProcess
    PROVE  IInv'
  <1>1. TypeOK'
    <2>1. restarts' \in 0..MaxRestarts
      BY Counters DEF IInv, TypeOK, EndOfProcess
    <2>2. /\ BaseFields \subseteq preconditionSpecFields'
          /\ preconditionSpecFields' \subseteq BaseFields \cup {"init"}
          /\ initialized' \subseteq {"mutator", "validator"}
          /\ UNCHANGED <<px, catalog, requests>>
      BY DEF EndOfProcess
    <2>3. pc' \in [Clients -> Locations] /\ req' \in [Clients -> Requests \cup {NoReq}]
      BY DEF IInv, TypeOK, EndOfProcess, Locations
    <2>4. \A c \in Clients : pc'[c] = "idle" <=> req'[c] = NoReq
      BY DEF IInv, TypeOK, EndOfProcess, InHook
    <2> QED BY <2>1, <2>2, <2>3, <2>4 DEF IInv, TypeOK
  <1>2. ASSUME NEW x \in Clients
        PROVE  Course(x)'
    <2>1. CASE pc[x] \in InHook
      <3>1. pc'[x] = "idle" /\ req'[x] = NoReq
        BY <2>1 DEF EndOfProcess
      <3> QED BY <3>1, CourseBegins DEF NoReq
    <2>2. CASE pc[x] \notin InHook
      <3>1. pc'[x] = pc[x] /\ req'[x] = req[x] /\ px' = px /\ Course(x)
        BY <2>2 DEF EndOfProcess, IInv
      <3> QED BY <2>2, <3>1 DEF Course, InHook
    <2> QED BY <2>1, <2>2
  <1>3. FinalizedIsWellFormed'
    BY DEF EndOfProcess, IInv, FinalizedIsWellFormed
  <1> QED BY <1>1, <1>2, <1>3 DEF IInv

(* Steps that touch no object and no request.                                *)
LEMMA SurroundingStep ==
    ASSUME IInv, UNCHANGED <<px, preconditionSpecFields, pc, req, restarts>>,
           catalog' \subseteq Versions, initialized' \subseteq {"mutator", "validator"},
           requests' \in 0..MaxRequests
    PROVE  IInv'
  <1>1. TypeOK'
    BY DEF IInv, TypeOK
  <1>2. \A x \in Clients : Course(x)'
    BY CourseKept DEF IInv
  <1>3. FinalizedIsWellFormed'
    BY DEF IInv, FinalizedIsWellFormed
  <1> QED BY <1>1, <1>2, <1>3 DEF IInv

(* The requests that are submitted are requests.                             *)
LEMMA SubmittedAreRequests ==
    /\ \A d \in DB, s \in Creations :
          LET r == [NoReq EXCEPT !.op = "create", !.db = d, !.patch = s]
          IN  r \in Requests /\ ~r.fresh
    /\ \A d \in DB, e \in Edits :
          LET r == [NoReq EXCEPT !.op = "update", !.db = d, !.patch = e]
          IN  r \in Requests /\ ~r.fresh
    /\ \A d \in DB, n \in BOOLEAN :
          LET r == [NoReq EXCEPT !.op = "delete", !.db = d, !.named = n]
          IN  r \in Requests /\ ~r.fresh
    /\ \A d \in DB, f \in {"add", "remove"} :
          LET r == [[NoReq EXCEPT !.fin = f] EXCEPT !.op = "update", !.db = d]
          IN  r \in Requests /\ ~r.fresh
    /\ \A d \in DB :
          LET r == [[NoReq EXCEPT !.patch = [secret |-> OwnSecret]] EXCEPT !.op = "update", !.db = d]
          IN  r \in Requests /\ ~r.fresh
  BY DEF NoReq, Requests, Patches

(* Every step keeps the inductive invariant.                                 *)
LEMMA Inductive ==
    ASSUME IInv, [Next]_vars
    PROVE  IInv'
  <1> USE DEF Clients
  <1>1. ASSUME NEW u \in Users, UserCreates(u) \/ UserEdits(u) \/ UserDeletes(u)
        PROVE  IInv'
    <2>1. PICK r \in Requests : ~r.fresh /\ UserSubmit(u, r)
      BY <1>1, SubmittedAreRequests DEF UserCreates, UserEdits, UserDeletes
    <2>2. requests' \in 0..MaxRequests
      BY <2>1, Counters DEF UserSubmit, IInv, TypeOK
    <2> QED BY <2>1, <2>2, SubmitStep DEF UserSubmit
  <1>2. ASSUME NEW d \in DB, AddFinalizer(d) \/ PatchDatabaseSecret(d) \/ RemoveFinalizer(d)
        PROVE  IInv'
    <2>1. PICK r \in Requests :
             /\ ~r.fresh /\ Submit(d, r)
             /\ UNCHANGED <<px, catalog, preconditionSpecFields, initialized, requests, restarts>>
      BY <1>2, SubmittedAreRequests
      DEF AddFinalizer, PatchDatabaseSecret, RemoveFinalizer, OperatorSubmit
    <2>2. requests' \in 0..MaxRequests
      BY <2>1 DEF IInv, TypeOK
    <2> QED BY <2>1, <2>2, SubmitStep
  <1>3. ASSUME NEW d \in DB, Provision(d)
        PROVE  IInv'
    BY <1>3, ProvisionStep
  <1>4. ASSUME NEW c \in Clients, HookStep(c)
        PROVE  IInv'
    BY <1>4, MutateStep, ValidateStep, InsertStep, ListStep, CommitStep DEF HookStep
  <1>5. ASSUME NEW h \in {"mutator", "validator"}, Initialize(h)
        PROVE  IInv'
    BY <1>5, SurroundingStep DEF Initialize, IInv, TypeOK
  <1>6. ASSUME EndOfProcess \/ ConcurrentMapAccess
        PROVE  IInv'
    BY <1>6, EndOfProcessStep DEF ConcurrentMapAccess
  <1>7. ASSUME RemoveVersion
        PROVE  IInv'
    <2>1. requests' \in 0..MaxRequests
      BY <1>7, Counters DEF RemoveVersion, IInv, TypeOK
    <2> QED BY <1>7, <2>1, SurroundingStep DEF RemoveVersion, IInv, TypeOK
  <1>8. ASSUME UNCHANGED vars
        PROVE  IInv'
    BY <1>8, SurroundingStep DEF vars, IInv, TypeOK
  <1> QED BY <1>1, <1>2, <1>3, <1>4, <1>5, <1>6, <1>7, <1>8 DEF Next

(* The inductive invariant holds in every reachable state.                   *)
LEMMA Invariance == Spec => []IInv
  <1>1. ASSUME Init
        PROVE  IInv
    <2>1. px \in [DB -> Px \cup {NoPx}] /\ \A d \in DB : ~px[d].fin
      <3>1. \A s \in Legacy : Stored(s) \in Px /\ ~Stored(s).fin
        BY AdmissionAssumption, ObjectFacts DEF AdmissionAssumption
      <3> QED BY <1>1, <3>1, ObjectFacts DEF Init
    <2>2. /\ requests \in 0..MaxRequests /\ restarts \in 0..MaxRestarts
      BY <1>1, Counters DEF Init
    <2>3. /\ pc \in [Clients -> Locations] /\ req \in [Clients -> Requests \cup {NoReq}]
          /\ \A c \in Clients : pc[c] = "idle" /\ req[c] = NoReq
      BY <1>1 DEF Init, Locations
    <2>4. /\ catalog \subseteq Versions /\ initialized \subseteq {"mutator", "validator"}
          /\ BaseFields \subseteq preconditionSpecFields
          /\ preconditionSpecFields \subseteq BaseFields \cup {"init"}
      BY <1>1 DEF Init
    <2>5. TypeOK
      BY <2>1, <2>2, <2>3, <2>4 DEF TypeOK
    <2>6. \A c \in Clients : Course(c)
      BY <2>3 DEF Course, NoReq
    <2> QED BY <2>1, <2>5, <2>6 DEF IInv, FinalizedIsWellFormed
  <1> QED BY <1>1, Inductive, PTL DEF Spec

-----------------------------------------------------------------------------
(* Requests, objects and the set of immutable fields keep their types: only  *)
(* spec.init ever joins that set (validator.go:265-291).                     *)
THEOREM TypeCorrect == Spec => []TypeOK
  BY Invariance, PTL DEF IInv

(* Whatever is stored without the webhooks and however requests overlap, an  *)
(* object that has the finalizer has its replicas, policy and storage type   *)
(* set, and keeps its volumes while it is halted (mutator.go:113-129,        *)
(* validator.go:167-251).                                                    *)
THEOREM FinalizedAreWellFormed == Spec => []FinalizedIsWellFormed
  BY Invariance, PTL DEF IInv

(* A step changes an object only by a commit, of a request whose old object  *)
(* is the stored one, or by setting the condition Provisioned.               *)
LEMMA StoredObjectStep ==
    ASSUME IInv, [Next]_vars, NEW d \in DB, px'[d] # px[d]
    PROVE  \/ \E c \in Clients :
                /\ pc[c] = "commit" /\ req[c] \in Requests /\ req[c].db = d
                /\ req[c].old = px[d] /\ px'[d] = Committed(req[c])
                /\ Prepared(req[c]) /\ Admitted(req[c]) /\ req[c].fresh
           \/ Provision(d)
  <1>1. ASSUME NEW c \in Clients, Commit(c)
        PROVE  /\ pc[c] = "commit" /\ req[c] \in Requests /\ req[c].db = d
               /\ req[c].old = px[d] /\ px'[d] = Committed(req[c])
               /\ Prepared(req[c]) /\ Admitted(req[c]) /\ req[c].fresh
    <2>1. pc[c] = "commit" /\ req[c] \in Requests /\ Course(c) /\ req[c].db \in DB
      BY <1>1 DEF Commit, IInv, TypeOK, Requests
    <2>2. req[c].fresh /\ px' = [px EXCEPT ![req[c].db] = Committed(req[c])]
      BY <1>1 DEF Commit
    <2>3. req[c].db = d
      BY <2>1, <2>2 DEF IInv, TypeOK
    <2> QED BY <2>1, <2>2, <2>3 DEF Course, IInv, TypeOK
  <1>2. ASSUME NEW e \in DB, Provision(e)
        PROVE  e = d
    BY <1>2 DEF Provision, IInv, TypeOK
  <1>3. \/ \E c \in Clients : Commit(c)
        \/ \E e \in DB : Provision(e)
        \/ px' = px
    BY DEF Next, vars, UserCreates, UserEdits, UserDeletes, UserSubmit, AddFinalizer,
       PatchDatabaseSecret, RemoveFinalizer, OperatorSubmit, HookStep, Mutate, Validate,
       Insert, List, Initialize, EndOfProcess, ConcurrentMapAccess, RemoveVersion
  <1> QED BY <1>1, <1>2, <1>3

(* The secret, the storage and the node selector stay once they are set, and *)
(* so does spec.init of a provisioned database, for any number of            *)
(* overlapping requests and restarts (validator.go:130-141, 265-284).        *)
THEOREM FieldsAreWrittenOnce == Spec => WriteOnce
  <1>1. ASSUME IInv, [Next]_vars, NEW d \in DB, px[d].exists, px'[d].exists
        PROVE  Preserved(px[d], px'[d])
    <2>1. CASE px'[d].spec = px[d].spec
      BY <2>1 DEF Preserved
    <2>2. CASE px'[d].spec # px[d].spec
      <3>1. ~Provision(d)
        <4>1. ASSUME Provision(d)
              PROVE  FALSE
          <5>1. px[d] \in Px /\ px'[d] = [px[d] EXCEPT !.provisioned = TRUE]
            BY <1>1, <4>1, ObjectFacts DEF Provision, IInv, TypeOK
          <5> QED BY <2>2, <5>1 DEF Px
        <4> QED BY <4>1
      <3>2. PICK c \in Clients :
               /\ req[c] \in Requests /\ req[c].old = px[d] /\ px'[d] = Committed(req[c])
               /\ Prepared(req[c]) /\ Admitted(req[c])
        BY <1>1, <2>2, <3>1, StoredObjectStep
      <3>3. Committed(req[c]).spec = req[c].new.spec
        BY <1>1, <3>2, CommittedFacts, ObjectFacts
      <3>4. req[c].op = "update"
        <4>1. req[c].op # "delete"
          BY <2>2, <3>2, <3>3 DEF Prepared
        <4>2. req[c].op # "create"
          BY <1>1, <3>2 DEF Prepared
        <4> QED BY <3>2, <4>1, <4>2 DEF Requests
      <3> QED BY <3>2, <3>3, <3>4 DEF Admitted, Preserved
    <2> QED BY <2>1, <2>2
  <1>2. ASSUME IInv, [Next]_vars
        PROVE  [\A d \in DB : px[d].exists /\ px'[d].exists => Preserved(px[d], px'[d])]_vars
    BY <1>1, <1>2
  <1> QED BY <1>2, Invariance, PTL DEF Spec, WriteOnce

(* The policy that the webhook reads is that of the version that is deleted: *)
(* no deletion by name gets past DoNotTerminate (validator.go:107-117).      *)
THEOREM DoNotTerminateIsKept == Spec => DoNotTerminateKept
  <1>1. ASSUME IInv, [Next]_vars, NEW d \in DB,
               px[d].exists, ~px[d].del, px[d].spec.policy = "DoNotTerminate",
               ~px'[d].exists \/ px'[d].del
        PROVE  \E c \in Clients : pc[c] = "commit" /\ req[c].op = "delete" /\ ~req[c].named
    <2>1. ~Provision(d)
      <3>1. ASSUME Provision(d)
            PROVE  FALSE
        <4>1. px[d] \in Px /\ px'[d] = [px[d] EXCEPT !.provisioned = TRUE]
          BY <1>1, <3>1, ObjectFacts DEF Provision, IInv, TypeOK
        <4> QED BY <1>1, <4>1 DEF Px
      <3> QED BY <3>1
    <2>2. px'[d] # px[d]
      BY <1>1
    <2>3. PICK c \in Clients :
             /\ pc[c] = "commit" /\ req[c] \in Requests /\ req[c].old = px[d]
             /\ px'[d] = Committed(req[c]) /\ Prepared(req[c]) /\ Admitted(req[c]) /\ req[c].fresh
      BY <1>1, <2>1, <2>2, StoredObjectStep
    <2>4. req[c].op = "delete"
      BY <1>1, <2>3, CommittedFacts, ObjectFacts
    <2> QED BY <1>1, <2>3, <2>4 DEF Admitted
  <1>2. ASSUME IInv, [Next]_vars
        PROVE  [\A d \in DB :
                  /\ px[d].exists /\ ~px[d].del /\ px[d].spec.policy = "DoNotTerminate"
                  /\ ~px'[d].exists \/ px'[d].del
                  => \E c \in Clients : pc[c] = "commit" /\ req[c].op = "delete" /\ ~req[c].named]_vars
    BY <1>1, <1>2
  <1> QED BY <1>2, Invariance, PTL DEF Spec, DoNotTerminateKept

=============================================================================
