---------------------------- MODULE MCController ----------------------------
(* Model checking instances of Controller.  Databases are alike: the runs   *)
(* with two of them and without liveness use the symmetry.                  *)
EXTENDS Controller, TLC

Symmetry == Permutations(DB)

=============================================================================
