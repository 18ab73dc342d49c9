------------------------------ MODULE SolverPool ------------------------------
(***************************************************************************)
(* The whole SolverPool of rust_api/src/solver_pool.rs: the canonical jobs *)
(* of ServerJobs and the admission of SolverAdmission under one mutex.     *)
(* Each action is one public method; it takes the action of either part    *)
(* and fills in what that part left open: an acquire is blocked by the     *)
(* phase of the canonical job, a handoff, a cancellation or a completion   *)
(* takes the request out of the line and tells its child to stop.          *)
(*                                                                         *)
(* A request id need not have a canonical job: requests that are not       *)
(* server-owned only pass through admission.                               *)
(***************************************************************************)
EXTENDS SolverAdmission, ServerJobs

CONSTANT TrustedBatch   \* max_jobs of request_agent_handoff_for_trusted_worker

ASSUME TrustedBatchAssumption == TrustedBatch \in Nat

poolVars == <<slots, tickets, ahead, serverJobs, fences, claims>>

-----------------------------------------------------------------------------
\* what admission reads of the canonical job
Blocked(j, o) ==
    /\ Owned(j, o)
    /\ \/ serverJobs[j].cancel
       \/ serverJobs[j].phase \notin {"pending"} \cup VpsPhases

\* Faulty variant (see PROJECT.json, mutants): a child never starts with the stop flag.
StopForgotten(j) == FALSE

StopRequested(j) == j \in Present /\ serverJobs[j].stop

PoolAcquireOrEnqueue(j, o, d) ==
    /\ AcquireOrEnqueue(j, o, d, Blocked(j, o), StopRequested(j))
    /\ UNCHANGED serverVars

PoolTryAcquire(j, o, d) ==
    /\ TryAcquire(j, o, d, Blocked(j, o), StopRequested(j))
    /\ UNCHANGED serverVars

-----------------------------------------------------------------------------
\* Faulty variant: the handoff of an account leaves its requests in the line.
PoolOwnerHandoffQueued(o) ==
    /\ OwnerHandoffJobs(o) # {}
    /\ HandoffTo(OwnerHandoffJobs(o), FALSE)
    /\ Evict({}, OwnerHandoffJobs(o))

PoolOwnerHandoff(o) ==
    /\ OwnerHandoffJobs(o) # {}
    /\ HandoffTo(OwnerHandoffJobs(o), FALSE)
    /\ Evict(OwnerHandoffJobs(o), OwnerHandoffJobs(o))

\* Faulty variant: the handoff of one job leaves its child alone.
PoolJobHandoffSilent(j, o) ==
    /\ JobHandoffEligible(j, o)
    /\ HandoffTo({j}, FALSE)
    /\ Evict({j}, {})

PoolJobHandoff(j, o) ==
    /\ JobHandoffEligible(j, o)
    /\ HandoffTo({j}, FALSE)
    /\ Evict({j}, {j})

\* the first TrustedBatch queued requests a trusted worker may take
TrustedCandidates == {j \in Live \ Running : TrustedHandoffEligible(j)}

FirstInLine(js, n) ==
    {first \in SUBSET js :
        /\ Cardinality(first) = IF Cardinality(js) < n THEN Cardinality(js) ELSE n
        /\ \A i \in first, k \in js \ first : <<i, k>> \in ahead}

PoolTrustedHandoff ==
    \E js \in FirstInLine(TrustedCandidates, TrustedBatch) :
        /\ TrustedHandoff(js)
        /\ Evict(Stale \cup js, js)

\* complete_server_job_fenced also takes the request out of the line
PoolComplete(f) ==
    /\ CompleteFenced(f)
    /\ DropTickets({f.job})
    /\ UNCHANGED slots

\* cancel_job_for_owner: the ticket and the child only if they are this owner's
PoolCancel(j, o) ==
    /\ \/ CancelServerJob(j, o)
       \/ ~Owned(j, o) /\ UNCHANGED serverVars
    /\ Evict({i \in {j} \cap Waiting : tickets[i].owner = o},
             {i \in {j} \cap Running : slots[i].owner = o})

PoolBestEffortStop(j, o) ==
    /\ RequestBestEffortStop(j, o)
    /\ RequestStop({i \in {j} \cap Running : slots[i].owner = o})

\* methods that leave the other part alone
ServerOnly(j, o) ==
    /\ \/ \E scope \in Scopes \cup {None}, fingerprint \in Fingerprints \cup {None},
             budget \in Budgets \cup {None} : Claim(j, o, scope, fingerprint, budget)
       \/ \E b \in BOOLEAN : \/ SetAgentPreference(j, o, b)
                             \/ SetNativeAgentRequired(j, o, b)
                             \/ SetBrowserAgentRequired(j, o, b)
       \/ PrepareAgent(j, o)
       \/ PrepareServerless(j, o)
       \/ PrepareVps(j, o)
       \/ RequestRescue(j, o)
       \/ Abandon(j, o)
    /\ UNCHANGED admissionVars

FenceOnly(f) ==
    /\ \/ MarkAgentRunning(f)
       \/ MarkServerlessRunning(f)
       \/ MarkVpsRunning(f)
       \/ FallbackServerlessToVps(f)
       \/ FallbackAgentToVps(f)
    /\ UNCHANGED admissionVars

PoolPruneCompleted == PruneCompleted /\ UNCHANGED admissionVars
PoolPruneQueue == PruneStaleQueue /\ UNCHANGED <<slots, serverJobs, fences, claims>>
PoolRelease(j) == ReleaseSlot(j) /\ UNCHANGED serverVars
PoolTouch(j, o) == TouchQueued(j, o) /\ UNCHANGED serverVars
PoolTick == AgeTickets /\ AgeServerJobs

-----------------------------------------------------------------------------
PoolInit == AdmissionInit /\ ServerInit

PoolNext ==
    \/ \E j \in Jobs, o \in Owners :
          \/ \E d \in Demands : PoolAcquireOrEnqueue(j, o, d) \/ PoolTryAcquire(j, o, d)
          \/ ServerOnly(j, o)
          \/ PoolJobHandoff(j, o)
          \/ PoolCancel(j, o)
          \/ PoolBestEffortStop(j, o)
          \/ PoolTouch(j, o)
    \/ \E f \in fences : FenceOnly(f) \/ PoolComplete(f)
    \/ \E o \in Owners : PoolOwnerHandoff(o)
    \/ \E j \in Jobs : PoolRelease(j)
    \/ PoolTrustedHandoff
    \/ PoolPruneCompleted
    \/ PoolPruneQueue
    \/ PoolTick

PoolSpec == PoolInit /\ [][PoolNext]_poolVars

-----------------------------------------------------------------------------
PoolTypeOK == AdmissionTypeOK /\ ServerTypeOK

\* The phases in which the VPS must not work for a job and no fence allows it.
VpsHasLost(j) == j \in Present /\ serverJobs[j].phase \in {"handoff_to_agent", "cancelling", "completed"}

\* A job that was handed over, cancelled or completed has no place of its owner
\* in the line: whoever took it away also removed the ticket, and a late poll of
\* the coordinator cannot queue it again.
NoTicketOnceLost ==
    \A j \in Waiting : VpsHasLost(j) => tickets[j].owner # serverJobs[j].owner

\* A child that still runs for a job the VPS has lost was told to stop, however
\* the job was taken away; only a child whose own result completed it was not.
LostChildIsTold ==
    \A j \in Running :
        (VpsHasLost(j) /\ serverJobs[j].phase # "completed" /\ slots[j].owner = serverJobs[j].owner)
            => slots[j].cancel

\* A graceful stop reaches the child, whether it asked before or after the
\* child started: insert_job copies a stop that was requested while queued.
StopReachesChild ==
    \A j \in Running :
        (j \in Present /\ slots[j].owner = serverJobs[j].owner /\ serverJobs[j].stop)
            => slots[j].stop
=============================================================================
