---------------------------- MODULE MCWorkQueue -----------------------------
(* The instance of WorkQueue that is model checked: three keys, two worker   *)
(* goroutines.  No symmetry: liveness is checked too.                        *)
EXTENDS WorkQueue

CONSTANTS k1, k2, k3,  \* the keys
          w1, w2       \* the workers

=============================================================================
