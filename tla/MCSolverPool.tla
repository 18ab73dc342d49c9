---------------------------- MODULE MCSolverPool ----------------------------
(* Model checking of the whole pool with two request ids.                   *)
EXTENDS SolverPool, TLC

JobSymmetry == Permutations(Jobs)
=============================================================================
