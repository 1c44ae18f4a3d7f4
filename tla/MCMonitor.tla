------------------------------ MODULE MCMonitor ------------------------------
(***************************************************************************)
(* An instance of Monitor: the status writers and the monitoring agents of  *)
(* a database that is created with the agent that leaves most behind.       *)
(***************************************************************************)
EXTENDS Monitor

MCInit == MInit /\ agent = "operator"

MCSpec == MCInit /\ [][MNext]_mvars
=============================================================================
