-------------------------- MODULE MCSolverAdmission --------------------------
(* Model checking of SolverAdmission: requests of one or two accounts       *)
(* compete for a machine whose tokens do not suffice for all of them.      *)
EXTENDS SolverAdmission, TLC

JobSymmetry == Permutations(Jobs)
=============================================================================
