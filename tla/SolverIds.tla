------------------------------ MODULE SolverIds ------------------------------
(***************************************************************************)
(* The identities every part of the solver pool shares: the request ids    *)
(* clients choose (job_id) and the accounts they solve for (SolverOwner,   *)
(* a school and a login).                                                  *)
(***************************************************************************)
EXTENDS Naturals, FiniteSets

CONSTANTS Jobs,     \* request ids a client may send; the same id can come back
          Owners    \* accounts, two of which may choose the same id

ASSUME JobsAssumption   == IsFiniteSet(Jobs) /\ Jobs # {}
ASSUME OwnersAssumption == Owners # {}
=============================================================================
