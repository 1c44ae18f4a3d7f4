------------------------------ MODULE KeyQueue ------------------------------
(***************************************************************************)
(* What the operator's work queue promises to its callers, whatever the     *)
(* implementation: a key that was added is handed to a worker later, and a  *)
(* key is never handed out while a worker still has it.  The watch handlers *)
(* only mark keys, the workers only take and release them.                  *)
(***************************************************************************)

CONSTANT Keys          \* namespace/name of the watched PerconaXtraDB objects

VARIABLES need,        \* keys somebody asked to have processed
          busy         \* keys a worker is processing

vars == <<need, busy>>

Init == need = {} /\ busy = {}

\* An event (or the end of a back-off) asks for k to be processed.
Mark(k) == /\ need' = need \cup {k}
           /\ UNCHANGED busy

\* A worker takes k: from here on, a new event for k marks it again.
Take(k) == /\ k \in need \ busy
           /\ need' = need \ {k}
           /\ busy' = busy \cup {k}

\* The worker that has k is done with it.
Release(k) == /\ k \in busy
              /\ busy' = busy \ {k}
              /\ UNCHANGED need

Next == \E k \in Keys : Mark(k) \/ Take(k) \/ Release(k)

Spec == Init /\ [][Next]_vars

=============================================================================
