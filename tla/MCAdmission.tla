----------------------------- MODULE MCAdmission -----------------------------
(***************************************************************************)
(* Instances of Admission: what users create, edit and left behind.         *)
(***************************************************************************)
EXTENDS Admission

Plain == [NoSpec EXCEPT !.version = "v1", !.storage = "c1"]

MCCreations == {Plain,
                [Plain EXCEPT !.version = "v2", !.replicas = 3, !.policy = "DoNotTerminate"],
                [NoSpec EXCEPT !.version = "v1", !.storageType = "Ephemeral"]}

MCLegacy == {Plain, [Plain EXCEPT !.halted = TRUE, !.policy = "WipeOut"]}

MCEdits == {[halted |-> TRUE], [policy |-> "DoNotTerminate"],
            [secret |-> "s1", storageType |-> "Durable"], [init |-> "script"]}

\* Just enough for edits of spec.init.
InitEdits == {[init |-> "restore"]}
Nothing   == {}
=============================================================================
