------------------------------ MODULE Admission ------------------------------
(***************************************************************************)
(* The admission webhooks of the operator (pkg/admission): every request    *)
(* that creates, changes or deletes a PerconaXtraDB passes the mutating and *)
(* the validating webhook before the API server commits it, the operator's  *)
(* own patches included.  Requests run concurrently; the webhooks hold a    *)
(* read lock only, and the validating one keeps its immutable fields in a   *)
(* variable of the package that all of them share.                          *)
(*                                                                         *)
(* Objects may have been stored while the webhooks were off (they are       *)
(* optional flags): without defaults and without finalizer.                 *)
(***************************************************************************)
EXTENDS Integers, FiniteSets

CONSTANTS
    DB,              \* names of the PerconaXtraDB objects
    Users,           \* clients other than the operator
    Versions,        \* names of PerconaXtraDBVersions
    ClusterVersions, \* those of PerconaXtraDBClusterRecommendedVersion
    Claims,          \* volume claim specifications that are valid
    Secrets,         \* names of secrets
    OwnSecret,       \* the one that the operator creates
    Creations,       \* specs that users submit
    Edits,           \* patches that users submit: functions on some Fields
    Legacy,          \* specs stored before the webhooks were on
    MaxRequests,     \* bound: requests of users
    MaxRestarts      \* bound: ends of the operator process

\* "" and 0 stand for a field that is not set.  others: environment variables,
\* cluster name and monitor, which are only checked.
Specs == [version: Versions \cup {""}, replicas: 0..3,
          storageType: {"", "Durable", "Ephemeral"}, storage: Claims \cup {""},
          nodeSelector: {"", "ssd"}, init: {"", "script", "restore"},
          policy: {"", "Halt", "Delete", "WipeOut", "DoNotTerminate"},
          halted: BOOLEAN, secret: Secrets \cup {""},
          others: {"valid", "invalid"}]

Fields == {"version", "replicas", "storageType", "storage", "nodeSelector",
           "init", "policy", "halted", "secret", "others"}

\* The API server applies a patch to an object.
Apply(s, patch) == [f \in Fields |-> IF f \in DOMAIN patch THEN patch[f] ELSE s[f]]

ASSUME AdmissionAssumption ==
    /\ Creations \subseteq Specs /\ Legacy \subseteq Specs
    /\ \A e \in Edits : DOMAIN e \subseteq Fields
    /\ \A e \in Edits : \A s \in Specs : Apply(s, e) \in Specs
    /\ "" \notin Versions \cup Claims \cup Secrets /\ OwnSecret \in Secrets
    /\ Users \cap DB = {}
    /\ MaxRequests \in Nat /\ MaxRestarts \in Nat

VARIABLES
    px,                     \* px[d]: the object in the API server
    catalog,                \* versions that exist
    preconditionSpecFields, \* the package variable of that name
    initialized,            \* webhooks whose Initialize was called
    pc,                     \* pc[c]: where the request of client c is
    req,                    \* req[c]: that request
    requests, restarts      \* counters

vars == <<px, catalog, preconditionSpecFields, initialized, pc, req, requests, restarts>>

\* The operator has one request per database under way: slot d is its request
\* about database d.
Clients == Users \cup DB

NoSpec == [version |-> "", replicas |-> 0, storageType |-> "", storage |-> "",
           nodeSelector |-> "", init |-> "", policy |-> "", halted |-> FALSE,
           secret |-> "", others |-> "valid"]

\* provisioned: the condition Provisioned is true; fin: the finalizer is there;
\* del: a deletion timestamp is set
Px   == [exists: {TRUE}, spec: Specs, provisioned: BOOLEAN, fin: BOOLEAN, del: BOOLEAN]
NoPx == [exists |-> FALSE, spec |-> NoSpec, provisioned |-> FALSE, fin |-> FALSE, del |-> FALSE]

\* Stored while the webhooks were switched off, and not yet seen by the operator.
Stored(s) == [NoPx EXCEPT !.exists = TRUE, !.spec = s]

\* patch: fields of the spec; fin: what happens to the finalizer; named: the
\* request names one object (the deletion of a collection does not); old, new:
\* the object as it was read and as it shall be; fresh: it still has the
\* resourceVersion that was read
NoPatch  == [f \in {} |-> ""]
Patches  == Creations \cup Edits \cup {NoPatch, [secret |-> OwnSecret]}
Requests == [op: {"create", "update", "delete"}, db: DB, patch: Patches,
             fin: {"keep", "add", "remove"}, named: BOOLEAN,
             old: Px \cup {NoPx}, new: Px \cup {NoPx}, fresh: BOOLEAN]
NoReq    == [op |-> "none", db |-> CHOOSE d \in DB : TRUE, patch |-> NoPatch, fin |-> "keep",
             named |-> TRUE, old |-> NoPx, new |-> NoPx, fresh |-> FALSE]

\* Fields that a change of which is refused, as the program starts with them.
BaseFields == {"storageType", "storage", "secret", "nodeSelector"}

InHook    == {"mutate", "validate", "insert", "list"}
Locations == {"idle", "commit"} \cup InHook

TypeOK ==
    /\ px \in [DB -> Px \cup {NoPx}]
    /\ catalog \subseteq Versions
    /\ BaseFields \subseteq preconditionSpecFields
    /\ preconditionSpecFields \subseteq BaseFields \cup {"init"}
    /\ initialized \subseteq {"mutator", "validator"}
    /\ pc \in [Clients -> Locations]
    /\ req \in [Clients -> Requests \cup {NoReq}]
    /\ \A c \in Clients : pc[c] = "idle" <=> req[c] = NoReq
    /\ requests \in 0..MaxRequests /\ restarts \in 0..MaxRestarts

Init ==
    /\ px \in [DB -> {NoPx} \cup {Stored(s) : s \in Legacy}]
    /\ catalog = Versions
    /\ preconditionSpecFields = BaseFields
    /\ initialized = {}
    /\ pc = [c \in Clients |-> "idle"] /\ req = [c \in Clients |-> NoReq]
    /\ requests = 0 /\ restarts = 0

-----------------------------------------------------------------------------
(* What the webhooks compute. *)

SetDefaults(s) ==
    [s EXCEPT !.replicas    = IF @ = 0 THEN 1 ELSE @,
              !.storageType = IF @ = "" THEN "Durable" ELSE @,
              !.policy      = IF @ = "" THEN "Delete" ELSE @]

MutatorAccepts(s) ==
    s.version # "" /\ ~(s.halted /\ s.policy = "DoNotTerminate")

\* Bug: halting leaves the termination policy alone.
setDefaultValuesBug(s) == SetDefaults(s)

setDefaultValues(s) ==
    SetDefaults(IF s.halted THEN [s EXCEPT !.policy = "Halt"] ELSE s)

validateCluster(s) == s.replicas > 1 => s.init # "script"

ValidatePerconaXtraDB(s) ==
    /\ s.version \in catalog
    /\ s.replicas # 0
    /\ s.replicas > 1 => s.version \in ClusterVersions /\ s.replicas >= 3
    /\ validateCluster(s)
    /\ s.storageType # ""
    /\ s.storageType = "Durable" => s.storage \in Claims
    /\ s.policy # "" /\ ~(s.storageType = "Ephemeral" /\ s.policy = "Halt")
    /\ s.others = "valid"

\* What the new spec is compared with.  Bug: defaults are not filled in.
BaselineBug(old, new) ==
    IF old.secret = "" THEN [old EXCEPT !.secret = new.secret] ELSE old

Baseline(old, new) ==
    LET o == SetDefaults(old)
    IN  IF o.secret = "" THEN [o EXCEPT !.secret = new.secret] ELSE o

Changed(old, new) == {f \in Fields : Baseline(old, new)[f] # new[f]}

validateUpdate(old, new) == Changed(old, new) \cap preconditionSpecFields = {}

-----------------------------------------------------------------------------
(* The course of a request. *)

Answer(c) == /\ pc' = [pc EXCEPT ![c] = "idle"]
             /\ req' = [req EXCEPT ![c] = NoReq]

Goto(c, l) == pc' = [pc EXCEPT ![c] = l] /\ UNCHANGED req

Submit(c, r) ==
    /\ pc[c] = "idle"
    /\ pc' = [pc EXCEPT ![c] = "mutate"]
    /\ req' = [req EXCEPT ![c] = r]

UserSubmit(u, r) ==
    /\ requests < MaxRequests
    /\ Submit(u, r) /\ requests' = requests + 1
    /\ UNCHANGED <<px, catalog, preconditionSpecFields, initialized, restarts>>

UserCreates(u) ==
    \E d \in DB, s \in Creations :
        ~px[d].exists /\ UserSubmit(u, [NoReq EXCEPT !.op = "create", !.db = d, !.patch = s])

UserEdits(u) ==
    \E d \in DB, e \in Edits :
        px[d].exists /\ UserSubmit(u, [NoReq EXCEPT !.op = "update", !.db = d, !.patch = e])

UserDeletes(u) ==
    \E d \in DB, n \in BOOLEAN :
        px[d].exists /\ UserSubmit(u, [NoReq EXCEPT !.op = "delete", !.db = d, !.named = n])

\* The operator adds its finalizer, then patches spec.databaseSecret, and takes
\* the finalizer away when the deletion was handled.
OperatorSubmit(d, r) ==
    /\ px[d].exists
    /\ Submit(d, [r EXCEPT !.op = "update", !.db = d])
    /\ UNCHANGED <<px, catalog, preconditionSpecFields, initialized, requests, restarts>>

AddFinalizer(d) ==
    ~px[d].del /\ ~px[d].fin /\ OperatorSubmit(d, [NoReq EXCEPT !.fin = "add"])

PatchDatabaseSecret(d) ==
    /\ ~px[d].del /\ px[d].fin /\ px[d].spec.secret = ""
    /\ OperatorSubmit(d, [NoReq EXCEPT !.patch = [secret |-> OwnSecret]])

RemoveFinalizer(d) ==
    px[d].del /\ px[d].fin /\ OperatorSubmit(d, [NoReq EXCEPT !.fin = "remove"])

\* The API server reads the object and applies the patch, the mutating webhook
\* sets the defaults.  Deletions are not mutated.
Patched(r, old) ==
    [old EXCEPT !.exists = TRUE, !.spec = Apply(@, r.patch),
                !.fin = r.fin = "add" \/ (r.fin = "keep" /\ @)]

Mutate(c) ==
    LET r   == req[c]
        old == px[r.db]
        new == Patched(r, old)
    IN  /\ pc[c] = "mutate"
        /\ IF \/ old.exists = (r.op = "create")
              \/ r.op # "delete" /\ ("mutator" \notin initialized \/ ~MutatorAccepts(new.spec))
           THEN Answer(c)
           ELSE /\ pc' = [pc EXCEPT ![c] = "validate"]
                /\ req' = [req EXCEPT ![c].old = old, ![c].fresh = TRUE,
                                      ![c].new = IF r.op = "delete" THEN old
                                                 ELSE [new EXCEPT !.spec = setDefaultValues(@)]]
        /\ UNCHANGED <<px, catalog, preconditionSpecFields, initialized, requests, restarts>>

\* The delete branch reads the object again from the API server.
\* Bug: the policy is not looked at.
DeleteAllowedBug(r) == TRUE
DeleteAllowed(r) == r.named => px[r.db].spec.policy # "DoNotTerminate"

Validate(c) ==
    LET r == req[c]
    IN  /\ pc[c] = "validate"
        /\ \/ "validator" \notin initialized /\ Answer(c)
           \/ /\ "validator" \in initialized
              /\ \/ r.op = "delete" /\ DeleteAllowed(r) /\ Goto(c, "commit")
                 \/ r.op = "delete" /\ ~DeleteAllowed(r) /\ Answer(c)
                 \/ r.op = "create" /\ ValidatePerconaXtraDB(r.new.spec) /\ Goto(c, "commit")
                 \/ r.op = "create" /\ ~ValidatePerconaXtraDB(r.new.spec) /\ Answer(c)
                 \/ r.op = "update" /\ Goto(c, IF r.new.provisioned THEN "insert" ELSE "list")
        /\ UNCHANGED <<px, catalog, preconditionSpecFields, initialized, requests, restarts>>

\* getPreconditionFunc, first half: a provisioned database makes spec.init
\* immutable.  Bug: it does not.
InsertBug(c) ==
    /\ pc[c] = "insert" /\ Goto(c, "list")
    /\ UNCHANGED <<px, catalog, preconditionSpecFields, initialized, requests, restarts>>

\* Bug: the set is made anew instead of added to.
InsertOnlyBug(c) ==
    /\ pc[c] = "insert" /\ Goto(c, "list")
    /\ preconditionSpecFields' = {"init"}
    /\ UNCHANGED <<px, catalog, initialized, requests, restarts>>

Insert(c) ==
    /\ pc[c] = "insert" /\ Goto(c, "list")
    /\ preconditionSpecFields' = preconditionSpecFields \cup {"init"}
    /\ UNCHANGED <<px, catalog, initialized, requests, restarts>>

\* Second half: the immutable fields are read; the rest of the validation.
List(c) ==
    LET r == req[c]
    IN  /\ pc[c] = "list"
        /\ IF validateUpdate(r.old.spec, r.new.spec) /\ ValidatePerconaXtraDB(r.new.spec)
           THEN Goto(c, "commit") ELSE Answer(c)
        /\ UNCHANGED <<px, catalog, preconditionSpecFields, initialized, requests, restarts>>

\* The API server commits if nothing was committed in between, and otherwise
\* starts again.  An object without finalizer goes away at once.
Committed(r) ==
    LET deleted == r.op = "delete" \/ r.old.del
    IN  IF deleted /\ ~r.new.fin THEN NoPx ELSE [r.new EXCEPT !.del = deleted]

\* A change of d's object moves its resourceVersion.
Outdated(d) == [c \in Clients |-> IF req[c].fresh /\ req[c].db = d
                                  THEN [req[c] EXCEPT !.fresh = FALSE] ELSE req[c]]

Commit(c) ==
    LET r == req[c]
    IN  /\ pc[c] = "commit"
        /\ \/ /\ r.fresh
              /\ px' = [px EXCEPT ![r.db] = Committed(r)]
              /\ pc' = [pc EXCEPT ![c] = "idle"]
              /\ req' = [(IF Committed(r) = r.old THEN req ELSE Outdated(r.db))
                         EXCEPT ![c] = NoReq]
           \/ /\ ~r.fresh /\ UNCHANGED px
              /\ pc' = [pc EXCEPT ![c] = "mutate"]
              /\ req' = [req EXCEPT ![c].old = NoPx, ![c].new = NoPx]
        /\ UNCHANGED <<catalog, preconditionSpecFields, initialized, requests, restarts>>

-----------------------------------------------------------------------------
(* The operator process and its surroundings. *)

\* The status is a subresource, which the webhooks let pass.
Provision(d) ==
    /\ px[d].exists /\ px[d].fin /\ ~px[d].provisioned
    /\ px' = [px EXCEPT ![d].provisioned = TRUE] /\ req' = Outdated(d)
    /\ UNCHANGED <<catalog, preconditionSpecFields, initialized, pc, requests, restarts>>

Initialize(h) ==
    /\ h \notin initialized
    /\ initialized' = initialized \cup {h}
    /\ UNCHANGED <<px, catalog, preconditionSpecFields, pc, req, requests, restarts>>

\* The process ends.  The API server refuses what it was asked about.
EndOfProcess ==
    /\ restarts < MaxRestarts /\ restarts' = restarts + 1
    /\ preconditionSpecFields' = BaseFields /\ initialized' = {}
    /\ pc' = [c \in Clients |-> IF pc[c] \in InHook THEN "idle" ELSE pc[c]]
    /\ req' = [c \in Clients |-> IF pc[c] \in InHook THEN NoReq ELSE req[c]]
    /\ UNCHANGED <<px, catalog, requests>>

\* The set is a Go map without lock: a write beside a read or a write may be
\* noticed by the runtime, which ends the process.
ConcurrentMapAccess ==
    /\ \E a, b \in Clients : a # b /\ pc[a] = "insert" /\ pc[b] \in {"insert", "list"}
    /\ EndOfProcess

RemoveVersion ==
    /\ \E v \in catalog : catalog' = catalog \ {v}
    /\ requests < MaxRequests /\ requests' = requests + 1
    /\ UNCHANGED <<px, preconditionSpecFields, initialized, pc, req, restarts>>

HookStep(c) == Mutate(c) \/ Validate(c) \/ Insert(c) \/ List(c) \/ Commit(c)

Next ==
    \/ \E u \in Users : UserCreates(u) \/ UserEdits(u) \/ UserDeletes(u)
    \/ \E d \in DB : AddFinalizer(d) \/ PatchDatabaseSecret(d) \/ RemoveFinalizer(d) \/ Provision(d)
    \/ \E c \in Clients : HookStep(c)
    \/ \E h \in {"mutator", "validator"} : Initialize(h)
    \/ EndOfProcess \/ ConcurrentMapAccess \/ RemoveVersion

Spec == Init /\ [][Next]_vars

\* The API server answers, the process starts again and calls Initialize, and
\* the operator tries its finalizer patches again (at the latest on a resync).
FairSpec ==
    /\ Spec
    /\ \A c \in Clients : WF_vars(HookStep(c))
    /\ \A h \in {"mutator", "validator"} : WF_vars(Initialize(h))
    /\ \A d \in DB : WF_vars(AddFinalizer(d)) /\ WF_vars(RemoveFinalizer(d))

-----------------------------------------------------------------------------
(* Properties. *)

WellFormed(s) ==
    /\ s.replicas # 0 /\ s.policy # "" /\ s.storageType # ""
    /\ s.halted => s.policy = "Halt" /\ s.storageType = "Durable" /\ s.storage # ""
    /\ s.replicas > 1 => s.replicas >= 3 /\ s.init # "script"

\* A database that the operator works on (it has the finalizer) has its
\* replicas set, which create dereferences (validator.go:175), and if halted
\* keeps its volumes: no request gets between the two webhooks, and the
\* operator's own first patch repairs objects stored without them.
FinalizedIsWellFormed == \A d \in DB : px[d].fin => WellFormed(px[d].spec)

Preserved(old, new) ==
    /\ old.spec.secret # "" => new.spec.secret = old.spec.secret
    /\ SetDefaults(old.spec).storageType = SetDefaults(new.spec).storageType
    /\ old.spec.storage = new.spec.storage /\ old.spec.nodeSelector = new.spec.nodeSelector
    /\ old.provisioned => new.spec.init = old.spec.init

\* Once set, the secret, the storage and the node selector of a database stay,
\* and so does spec.init of a provisioned one, whoever asks and however the
\* requests of users and operator overlap (validator.go:130-141, 265-284).
WriteOnce ==
    [][\A d \in DB : px[d].exists /\ px'[d].exists => Preserved(px[d], px'[d])]_vars

\* A database with the policy DoNotTerminate is not deleted by name, although
\* the policy is read before the deletion takes place (validator.go:107-117).
\* The webhook does not look at the policy in the deletion of a collection.
DoNotTerminateKept ==
    [][\A d \in DB :
          /\ px[d].exists /\ ~px[d].del /\ px[d].spec.policy = "DoNotTerminate"
          /\ ~px'[d].exists \/ px'[d].del
          => \E c \in Clients : pc[c] = "commit" /\ req[c].op = "delete" /\ ~req[c].named]_vars

\* What the webhooks would accept again if it were new.
Acceptable(s) == MutatorAccepts(s) /\ ValidatePerconaXtraDB(setDefaultValues(s))

\* The webhooks do not stop the operator from taking charge of an acceptable
\* database, nor from finishing its deletion, whatever was stored before they
\* were on, and although the process ends in between (the patches of
\* workqueue.go:54-91 pass mutator.go:75-111 and validator.go:90-149).
OperatorNotBlocked ==
    \A d \in DB :
        (px[d].exists /\ (px[d].del \/ ~px[d].fin))
            ~> \/ ~px[d].exists \/ ~Acceptable(px[d].spec)
               \/ px[d].fin /\ ~px[d].del

\* validator_test.go:309 "Edit spec.Init before provisioning complete" is
\* allowed: a change of spec.init alone, of a database that is not provisioned,
\* passes the comparison with the old object.
InitEditableBeforeProvisioned ==
    \A c \in Clients :
        /\ pc[c] = "list" /\ ~req[c].new.provisioned /\ ~px[req[c].db].provisioned
        /\ Changed(req[c].old.spec, req[c].new.spec) \subseteq {"init"}
        => validateUpdate(req[c].old.spec, req[c].new.spec)
=============================================================================
