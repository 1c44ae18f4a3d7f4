---------------------------- MODULE AtomicStatus ----------------------------
(***************************************************************************)
(* What the writers of a PerconaXtraDB's status promise each other: a       *)
(* change of the status is the change of one writer, of its own fields      *)
(* only, and the generation reported in it never runs ahead or goes back.   *)
(***************************************************************************)
EXTENDS Integers

VARIABLES status, gen

Phases == {"", "Provisioning", "Ready", "NotReady", "Halted"}

\* replicaReady: the condition ReplicaReady
Status == [phase: Phases, obsGen: Nat, replicaReady: BOOLEAN]

Fields == {"phase", "obsGen", "replicaReady"}

\* The fields that belong together: to the operator and to the StatefulSet
\* watcher.
Shares == {{"phase", "obsGen"}, {"replicaReady"}}

Init == status \in Status /\ gen \in Nat /\ status.obsGen <= gen

Write(share) ==
    /\ status' \in Status
    /\ \A f \in Fields \ share : status'[f] = status[f]
    /\ status.obsGen <= status'.obsGen /\ status'.obsGen <= gen
    /\ gen' = gen

Edit == gen' = gen + 1 /\ status' = status

Next == Edit \/ \E share \in Shares : Write(share)

Spec == Init /\ [][Next]_<<status, gen>>
=============================================================================
