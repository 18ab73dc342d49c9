---------------------------- MODULE MCServerJobs ----------------------------
(***************************************************************************)
(* Model checking of ServerJobs, without the rest of the pool.  With one   *)
(* id every operation is taken (ServerSpec); with several ids only those   *)
(* that add, finish and remove jobs, so that capacities and pruning are    *)
(* explored instead of the products of independent executions.             *)
(***************************************************************************)
EXTENDS ServerJobsRefine, TLC

JobSymmetry == Permutations(Jobs)

RegistryNext ==
    \/ \E j \in Jobs, o \in Owners :
          \/ \E scope \in Scopes \cup {None}, fingerprint \in Fingerprints \cup {None} :
                Claim(j, o, scope, fingerprint, None)
          \/ PrepareVps(j, o)
          \/ CancelServerJob(j, o)
          \/ Abandon(j, o)
    \/ \E f \in fences : CompleteFenced(f)
    \/ PruneCompleted
    \/ AgeServerJobs

RegistrySpec == ServerInit /\ [][RegistryNext]_serverVars
=============================================================================
