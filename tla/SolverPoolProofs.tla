---------------------------- MODULE SolverPoolProofs ----------------------------
(***************************************************************************)
(* The composed pool implements its two parts: whatever a canonical job    *)
(* makes admission do is an admission step, and whatever admission makes a *)
(* canonical job do is a step of the registry.  The theorems about either  *)
(* part therefore hold for the whole pool.                                 *)
(***************************************************************************)
EXTENDS SolverPool, SolverAdmissionProofs, ServerJobsProofs

LEMMA BlockedIsBoolean ==
    ASSUME NEW j, NEW o
    PROVE  Blocked(j, o) \in BOOLEAN
BY DEF Blocked, Owned

\* The stop flag a child starts with.
LEMMA StopIsBoolean ==
    ASSUME ServerInv, NEW j \in Jobs
    PROVE  StopRequested(j) \in BOOLEAN
BY PresentSound DEF StopRequested, ServerJob

-----------------------------------------------------------------------------
(* Every step of the pool is a step of admission                            *)

LEMMA EvictStep ==
    ASSUME NEW queued \in SUBSET Jobs, NEW running \in SUBSET Jobs, Evict(queued, running)
    PROVE  AdmissionNext
BY DEF AdmissionNext

LEMMA HandoffIsAdmission ==
    ASSUME \/ \E o \in Owners : PoolOwnerHandoff(o)
           \/ \E j \in Jobs, o \in Owners : PoolJobHandoff(j, o)
           \/ PoolTrustedHandoff
    PROVE  AdmissionNext
<1>1. CASE \E o \in Owners : PoolOwnerHandoff(o)
  <2>1. PICK o \in Owners : PoolOwnerHandoff(o)
    BY <1>1
  <2> DEFINE js == OwnerHandoffJobs(o)
  <2>2. js \in SUBSET Jobs /\ Evict(js, js)
    BY <2>1 DEF PoolOwnerHandoff, OwnerHandoffJobs
  <2> HIDE DEF js
  <2> QED
    BY <2>2, EvictStep
<1>2. CASE \E j \in Jobs, o \in Owners : PoolJobHandoff(j, o)
  <2>1. PICK j \in Jobs, o \in Owners : PoolJobHandoff(j, o)
    BY <1>2
  <2>2. {j} \in SUBSET Jobs /\ Evict({j}, {j})
    BY <2>1 DEF PoolJobHandoff
  <2> QED
    BY <2>2, EvictStep
<1>3. CASE PoolTrustedHandoff
  <2>1. PICK js \in FirstInLine(TrustedCandidates, TrustedBatch) : Evict(Stale \cup js, js)
    BY <1>3 DEF PoolTrustedHandoff
  <2>2. js \in SUBSET Jobs /\ Stale \cup js \in SUBSET Jobs
    BY DEF FirstInLine, TrustedCandidates, Live, Stale, Waiting
  <2> QED
    BY <2>1, <2>2, EvictStep
<1> QED
  BY <1>1, <1>2, <1>3

LEMMA CallerIsAdmission ==
    ASSUME ServerInv, NEW j \in Jobs, NEW o \in Owners,
           \/ \E d \in Demands : PoolAcquireOrEnqueue(j, o, d) \/ PoolTryAcquire(j, o, d)
           \/ PoolCancel(j, o)
           \/ PoolBestEffortStop(j, o)
           \/ PoolTouch(j, o)
    PROVE  AdmissionNext
<1>1. CASE \E d \in Demands : PoolAcquireOrEnqueue(j, o, d) \/ PoolTryAcquire(j, o, d)
  <2>1. PICK d \in Demands : PoolAcquireOrEnqueue(j, o, d) \/ PoolTryAcquire(j, o, d)
    BY <1>1
  <2> DEFINE b == Blocked(j, o)
             s == StopRequested(j)
  <2>2. b \in BOOLEAN /\ s \in BOOLEAN
    BY BlockedIsBoolean, StopIsBoolean
  <2>3. AcquireOrEnqueue(j, o, d, b, s) \/ TryAcquire(j, o, d, b, s)
    BY <2>1 DEF PoolAcquireOrEnqueue, PoolTryAcquire
  <2> HIDE DEF b, s
  <2> QED
    BY <2>2, <2>3 DEF AdmissionNext
<1>2. CASE PoolCancel(j, o)
  <2> DEFINE queued == {i \in {j} \cap Waiting : tickets[i].owner = o}
             running == {i \in {j} \cap Running : slots[i].owner = o}
  <2>1. queued \in SUBSET Jobs /\ running \in SUBSET Jobs /\ Evict(queued, running)
    BY <1>2 DEF PoolCancel
  <2> HIDE DEF queued, running
  <2> QED
    BY <2>1, EvictStep
<1>3. CASE PoolBestEffortStop(j, o)
  <2> DEFINE js == {i \in {j} \cap Running : slots[i].owner = o}
  <2>1. js \in SUBSET Jobs /\ RequestStop(js)
    BY <1>3 DEF PoolBestEffortStop
  <2> HIDE DEF js
  <2> QED
    BY <2>1 DEF AdmissionNext
<1>4. CASE PoolTouch(j, o)
  BY <1>4 DEF PoolTouch, AdmissionNext
<1> QED
  BY <1>1, <1>2, <1>3, <1>4

LEMMA StepIsAdmission ==
    ASSUME AdmissionTypeOK, ServerInv, [PoolNext]_poolVars
    PROVE  [AdmissionNext]_admissionVars
<1>1. ASSUME NEW j \in Jobs, NEW o \in Owners,
             \/ \E d \in Demands : PoolAcquireOrEnqueue(j, o, d) \/ PoolTryAcquire(j, o, d)
             \/ PoolCancel(j, o)
             \/ PoolBestEffortStop(j, o)
             \/ PoolTouch(j, o)
      PROVE  AdmissionNext
  BY <1>1, CallerIsAdmission
<1>2. ASSUME NEW j \in Jobs, NEW o \in Owners, ServerOnly(j, o)
      PROVE  UNCHANGED admissionVars
  BY <1>2 DEF ServerOnly
<1>3. ASSUME NEW j \in Jobs, NEW o \in Owners, PoolJobHandoff(j, o) PROVE AdmissionNext
  BY <1>3, HandoffIsAdmission
<1>4. ASSUME NEW f \in fences, FenceOnly(f) PROVE UNCHANGED admissionVars
  BY <1>4 DEF FenceOnly
<1>5. ASSUME NEW f \in fences, PoolComplete(f) PROVE AdmissionNext
  <2>1. f.job \in Jobs /\ DropTickets({f.job}) /\ UNCHANGED slots
    BY <1>5 DEF PoolComplete, ServerInv, Fence
  <2>2. Evict({f.job}, {})
    BY <2>1 DEF Evict, FlagCancel, AdmissionTypeOK
  <2>3. {f.job} \in SUBSET Jobs /\ {} \in SUBSET Jobs
    BY <2>1
  <2> QED
    BY <2>2, <2>3, EvictStep
<1>6. CASE \E o \in Owners : PoolOwnerHandoff(o)
  BY <1>6, HandoffIsAdmission
<1>7. ASSUME NEW j \in Jobs, PoolRelease(j) PROVE AdmissionNext
  BY <1>7 DEF PoolRelease, AdmissionNext
<1>8. CASE PoolTrustedHandoff
  BY <1>8, HandoffIsAdmission
<1>9. CASE PoolPruneCompleted
  BY <1>9 DEF PoolPruneCompleted
<1>10. CASE PoolPruneQueue
  BY <1>10 DEF PoolPruneQueue, AdmissionNext
<1>11. CASE PoolTick
  BY <1>11 DEF PoolTick, AdmissionNext
<1>12. CASE UNCHANGED poolVars
  BY <1>12 DEF poolVars, admissionVars
<1> QED
  BY <1>1, <1>2, <1>3, <1>4, <1>5, <1>6, <1>7, <1>8, <1>9, <1>10, <1>11, <1>12 DEF PoolNext

-----------------------------------------------------------------------------
(* Every step of the pool is a step of the registry                         *)

LEMMA StepIsServer ==
    ASSUME [PoolNext]_poolVars
    PROVE  [ServerNext]_serverVars
<1>1. ASSUME NEW j \in Jobs, NEW o \in Owners, NEW d \in Demands,
             PoolAcquireOrEnqueue(j, o, d) \/ PoolTryAcquire(j, o, d)
      PROVE  UNCHANGED serverVars
  BY <1>1 DEF PoolAcquireOrEnqueue, PoolTryAcquire
<1>2. ASSUME NEW j \in Jobs, NEW o \in Owners, ServerOnly(j, o) PROVE ServerNext
  <2>1. JobStep(j, o)
    BY <1>2 DEF ServerOnly, JobStep
  <2> QED
    BY <2>1 DEF ServerNext
<1>3. ASSUME NEW j \in Jobs, NEW o \in Owners, PoolJobHandoff(j, o) PROVE ServerNext
  <2>1. JobStep(j, o)
    BY <1>3 DEF PoolJobHandoff, JobStep
  <2> QED
    BY <2>1 DEF ServerNext
<1>4. ASSUME NEW j \in Jobs, NEW o \in Owners, PoolCancel(j, o) PROVE [ServerNext]_serverVars
  <2>1. JobStep(j, o) \/ UNCHANGED serverVars
    BY <1>4 DEF PoolCancel, JobStep
  <2> QED
    BY <2>1 DEF ServerNext
<1>5. ASSUME NEW j \in Jobs, NEW o \in Owners, PoolBestEffortStop(j, o) PROVE ServerNext
  <2>1. JobStep(j, o)
    BY <1>5 DEF PoolBestEffortStop, JobStep
  <2> QED
    BY <2>1 DEF ServerNext
<1>6. ASSUME NEW j \in Jobs, NEW o \in Owners, PoolTouch(j, o) PROVE UNCHANGED serverVars
  BY <1>6 DEF PoolTouch
<1>7. ASSUME NEW f \in fences, FenceOnly(f) \/ PoolComplete(f) PROVE ServerNext
  <2>1. FenceStep(f)
    BY <1>7 DEF FenceOnly, PoolComplete, FenceStep
  <2> QED
    BY <2>1 DEF ServerNext
<1>8. ASSUME NEW o \in Owners, PoolOwnerHandoff(o) PROVE ServerNext
  BY <1>8 DEF PoolOwnerHandoff, ServerNext
<1>9. ASSUME NEW j \in Jobs, PoolRelease(j) PROVE UNCHANGED serverVars
  BY <1>9 DEF PoolRelease
<1>10. CASE PoolTrustedHandoff
  <2>1. PICK js \in FirstInLine(TrustedCandidates, TrustedBatch) : TrustedHandoff(js)
    BY <1>10 DEF PoolTrustedHandoff
  <2>2. js \in SUBSET Jobs
    BY DEF FirstInLine, TrustedCandidates, Live, Waiting
  <2> QED
    BY <2>1, <2>2 DEF ServerNext
<1>11. CASE PoolPruneCompleted
  BY <1>11 DEF PoolPruneCompleted, ServerNext
<1>12. CASE PoolPruneQueue
  BY <1>12 DEF PoolPruneQueue, serverVars
<1>13. CASE PoolTick
  BY <1>13 DEF PoolTick, ServerNext
<1>14. CASE UNCHANGED poolVars
  BY <1>14 DEF poolVars, serverVars
<1> QED
  BY <1>1, <1>2, <1>3, <1>4, <1>5, <1>6, <1>7, <1>8, <1>9, <1>10, <1>11, <1>12, <1>13, <1>14
     DEF PoolNext

\* The pool implements both of its parts: the registry of canonical jobs never
\* makes admission do what a caller of admission could not, nor the other way round.
THEOREM PoolImplementsParts == PoolSpec => AdmissionSpec /\ ServerSpec
<1>1. PoolInit => AdmissionInit /\ ServerInit
  BY DEF PoolInit
<1>2. AdmissionInit => AdmissionTypeOK
  BY DEF AdmissionInit, AdmissionTypeOK
<1>3. ServerInit => ServerInv
  BY InitSound
<1>4. AdmissionTypeOK /\ ServerInv /\ [PoolNext]_poolVars =>
        /\ [AdmissionNext]_admissionVars
        /\ [ServerNext]_serverVars
        /\ AdmissionTypeOK'
        /\ ServerInv'
  BY StepIsAdmission, StepIsServer, AdmissionTypeStep, NextSound DEF StepSound
<1> QED
  BY <1>1, <1>2, <1>3, <1>4, PTL DEF PoolSpec, AdmissionSpec, ServerSpec

\* The whole pool never oversubscribes the machine, whatever canonical jobs do.
THEOREM PoolCapacity == PoolSpec => []NoOversubscription
BY PoolImplementsParts, AdmissionCapacity, PTL

\* Nor do two executors of one job ever hold equally valid fences in the whole
\* pool, whatever admission does.
THEOREM PoolOneExecutor == PoolSpec => []OneExecutorPerGeneration
BY PoolImplementsParts, OneExecutor, PTL

-----------------------------------------------------------------------------
(* The line and the children follow the canonical jobs                      *)

PoolJoint == NoTicketOnceLost /\ LostChildIsTold /\ StopReachesChild

\* Admission adds nobody, and forgets no flag of a child.
KeepsLine == \A i \in Waiting' : i \in Waiting /\ tickets'[i].owner = tickets[i].owner

KeepsSlots ==
    \A i \in Running' : /\ i \in Running /\ slots'[i].owner = slots[i].owner
                        /\ slots[i].cancel => slots'[i].cancel
                        /\ slots[i].stop => slots'[i].stop

\* A step does not ask job i to stop.
StopKept(i) ==
    serverJobs'[i] # NoJob /\ serverJobs'[i].stop =>
        i \in Present /\ serverJobs'[i].owner = serverJobs[i].owner /\ serverJobs[i].stop

LostPhases == {"handoff_to_agent", "cancelling", "completed"}

\* A step does not take job i from the VPS.
Quiet(i) ==
    /\ StopKept(i)
    /\ serverJobs'[i] # NoJob =>
          \/ serverJobs'[i].phase \notin LostPhases
          \/ /\ i \in Present
             /\ serverJobs'[i].phase = serverJobs[i].phase
             /\ serverJobs'[i].owner = serverJobs[i].owner

\* The jobs js may be taken from the VPS if their tickets go and their children are told.
LEMMA JointStep ==
    ASSUME PoolJoint, KeepsLine, KeepsSlots, NEW js \in SUBSET Jobs,
           \A i \in Jobs : StopKept(i),
           \A i \in Jobs \ js : Quiet(i),
           \A i \in js : i \in Waiting' /\ i \in Present' => tickets'[i].owner # serverJobs'[i].owner,
           \A i \in js : i \in Running' /\ i \in Present' =>
              \/ slots'[i].owner # serverJobs'[i].owner
              \/ slots'[i].cancel
              \/ serverJobs'[i].phase = "completed"
    PROVE  PoolJoint'
<1>1. ASSUME NEW i \in Waiting', VpsHasLost(i)' PROVE tickets'[i].owner # serverJobs'[i].owner
  <2>1. i \in Jobs /\ i \in Present' /\ serverJobs'[i] # NoJob /\ serverJobs'[i].phase \in LostPhases
    BY <1>1 DEF VpsHasLost, Present, LostPhases
  <2>2. CASE i \in js
    BY <2>1, <2>2
  <2>3. CASE i \notin js
    BY <2>1, <2>3 DEF Quiet, KeepsLine, PoolJoint, NoTicketOnceLost, VpsHasLost, LostPhases
  <2> QED
    BY <2>2, <2>3
<1>2. ASSUME NEW i \in Running', VpsHasLost(i)', serverJobs'[i].phase # "completed",
             slots'[i].owner = serverJobs'[i].owner
      PROVE  slots'[i].cancel
  <2>1. i \in Jobs /\ i \in Present' /\ serverJobs'[i] # NoJob /\ serverJobs'[i].phase \in LostPhases
    BY <1>2 DEF VpsHasLost, Present, LostPhases
  <2>2. CASE i \in js
    BY <1>2, <2>1, <2>2
  <2>3. CASE i \notin js
    BY <1>2, <2>1, <2>3 DEF Quiet, KeepsSlots, PoolJoint, LostChildIsTold, VpsHasLost, LostPhases
  <2> QED
    BY <2>2, <2>3
<1>3. ASSUME NEW i \in Running', i \in Present', slots'[i].owner = serverJobs'[i].owner,
             serverJobs'[i].stop
      PROVE  slots'[i].stop
  <2>1. i \in Jobs /\ serverJobs'[i] # NoJob
    BY <1>3 DEF Present
  <2> QED
    BY <1>3, <2>1 DEF StopKept, KeepsSlots, PoolJoint, StopReachesChild
<1> QED
  BY <1>1, <1>2, <1>3 DEF PoolJoint, NoTicketOnceLost, LostChildIsTold, StopReachesChild

\* Jobs that stay as they were, or go, are quiet.
LEMMA KeptIsQuiet ==
    ASSUME NEW i \in Jobs, serverJobs'[i] = serverJobs[i] \/ serverJobs'[i] = NoJob
    PROVE  Quiet(i)
BY DEF Quiet, StopKept, Present

LEMMA SameAdmission ==
    ASSUME UNCHANGED admissionVars
    PROVE  KeepsLine /\ KeepsSlots
BY DEF admissionVars, KeepsLine, KeepsSlots, Waiting, Running

LEMMA PrunedIsQuiet ==
    ASSUME ServerInv, NEW sj \in Pruned(serverJobs), NEW i \in Jobs, serverJobs'[i] = sj[i]
    PROVE  Quiet(i)
<1>1. serverJobs \in [Jobs -> ServerJob \cup {NoJob}]
  BY DEF ServerInv, SoundJob
<1>2. serverJobs'[i] = serverJobs[i] \/ serverJobs'[i] = NoJob
  BY <1>1, PruneOnlyRemoves
<1> QED
  BY <1>2, KeptIsQuiet

\* Replacing one present job quietly.
LEMMA QuietReplace ==
    ASSUME ServerInv, NEW j \in Present, NEW new, serverJobs' = [serverJobs EXCEPT ![j] = new],
           new.owner = serverJobs[j].owner, new.stop = serverJobs[j].stop,
           new.phase \notin LostPhases \/ new.phase = serverJobs[j].phase
    PROVE  \A i \in Jobs : Quiet(i)
<1>1. serverJobs'[j] = new /\ \A i \in Jobs \ {j} : serverJobs'[i] = serverJobs[i]
  BY DEF ServerInv, Present
<1>2. Quiet(j)
  BY <1>1 DEF Quiet, StopKept
<1> QED
  BY <1>1, <1>2, KeptIsQuiet

LEMMA PrepareQuiet ==
    ASSUME ServerInv, NEW j \in Jobs, NEW o \in Owners,
           PrepareAgent(j, o) \/ PrepareServerless(j, o) \/ PrepareVps(j, o)
    PROVE  \A i \in Jobs : Quiet(i)
<1> DEFINE job == serverJobs[j]
<1>1. j \in Present /\ job \in ServerJob
  BY EligibleSound DEF PrepareAgent, PrepareServerless, PrepareVps
<1>2. CASE PrepareAgent(j, o) /\ job.phase = "pending"
  <2> DEFINE new == [job EXCEPT !.generation = job.generation + 1, !.phase = "agent_waiting",
                              !.trusted = FALSE, !.elapsed = Started(job)]
  <2>1. serverJobs' = [serverJobs EXCEPT ![j] = new]
    BY <1>2 DEF PrepareAgent, ServerInv
  <2>2. new.owner = job.owner /\ new.stop = job.stop /\ new.phase = "agent_waiting"
    BY <1>1 DEF ServerJob
  <2> HIDE DEF new
  <2> QED
    BY <1>1, <2>1, <2>2, QuietReplace DEF LostPhases
<1>3. CASE PrepareAgent(j, o) /\ job.phase # "pending"
  <2> DEFINE new == [job EXCEPT !.phase = "agent_waiting", !.elapsed = Started(job)]
  <2>1. serverJobs' = [serverJobs EXCEPT ![j] = new]
    BY <1>3 DEF PrepareAgent, ServerInv
  <2>2. new.owner = job.owner /\ new.stop = job.stop /\ new.phase = "agent_waiting"
    BY <1>1 DEF ServerJob
  <2> HIDE DEF new
  <2> QED
    BY <1>1, <2>1, <2>2, QuietReplace DEF LostPhases
<1>4. CASE PrepareServerless(j, o) /\ job.phase = "pending"
  <2> DEFINE new == [job EXCEPT !.generation = job.generation + 1, !.phase = "serverless_queued",
                              !.trusted = FALSE, !.preference = FALSE,
                              !.elapsed = Started(job)]
  <2>1. serverJobs' = [serverJobs EXCEPT ![j] = new]
    BY <1>4 DEF PrepareServerless, ServerInv
  <2>2. new.owner = job.owner /\ new.stop = job.stop /\ new.phase = "serverless_queued"
    BY <1>1 DEF ServerJob
  <2> HIDE DEF new
  <2> QED
    BY <1>1, <2>1, <2>2, QuietReplace DEF LostPhases
<1>5. CASE PrepareServerless(j, o) /\ job.phase # "pending"
  <2> DEFINE new == [job EXCEPT !.elapsed = Started(job)]
  <2>1. serverJobs' = [serverJobs EXCEPT ![j] = new]
    BY <1>5 DEF PrepareServerless, ServerInv
  <2>2. new.owner = job.owner /\ new.stop = job.stop /\ new.phase = job.phase
    BY <1>1 DEF ServerJob
  <2> HIDE DEF new
  <2> QED
    BY <1>1, <2>1, <2>2, QuietReplace DEF LostPhases
<1>6. CASE PrepareVps(j, o) /\ job.phase = "pending"
  <2> DEFINE new == [job EXCEPT !.generation = job.generation + 1, !.phase = "vps_queued",
                              !.trusted = FALSE, !.elapsed = Started(job)]
  <2>1. serverJobs' = [serverJobs EXCEPT ![j] = new]
    BY <1>6 DEF PrepareVps, ServerInv
  <2>2. new.owner = job.owner /\ new.stop = job.stop /\ new.phase = "vps_queued"
    BY <1>1 DEF ServerJob
  <2> HIDE DEF new
  <2> QED
    BY <1>1, <2>1, <2>2, QuietReplace DEF LostPhases
<1>7. CASE PrepareVps(j, o) /\ job.phase # "pending"
  <2> DEFINE new == [job EXCEPT !.trusted = FALSE, !.elapsed = Started(job)]
  <2>1. serverJobs' = [serverJobs EXCEPT ![j] = new]
    BY <1>7 DEF PrepareVps, ServerInv
  <2>2. new.owner = job.owner /\ new.stop = job.stop /\ new.phase = job.phase
    BY <1>1 DEF ServerJob
  <2> HIDE DEF new
  <2> QED
    BY <1>1, <2>1, <2>2, QuietReplace DEF LostPhases
<1> QED
  BY <1>2, <1>3, <1>4, <1>5, <1>6, <1>7

LEMMA ContractQuiet ==
    ASSUME ServerInv, NEW j \in Jobs, NEW o \in Owners, NEW b \in BOOLEAN,
           \/ SetAgentPreference(j, o, b)
           \/ SetNativeAgentRequired(j, o, b)
           \/ SetBrowserAgentRequired(j, o, b)
           \/ RequestRescue(j, o)
    PROVE  \A i \in Jobs : Quiet(i)
<1> DEFINE job == serverJobs[j]
<1>1. j \in Present /\ job \in ServerJob
  BY PresentSound DEF SetAgentPreference, SetNativeAgentRequired, SetBrowserAgentRequired,
                      RequestRescue, Eligible, Owned
<1>2. CASE SetAgentPreference(j, o, b)
  <2> DEFINE new == [job EXCEPT !.preference = b]
  <2>1. serverJobs' = [serverJobs EXCEPT ![j] = new]
    BY <1>2 DEF SetAgentPreference, ServerInv
  <2>2. new.owner = job.owner /\ new.stop = job.stop /\ new.phase = job.phase
    BY <1>1 DEF ServerJob
  <2> HIDE DEF new
  <2> QED
    BY <1>1, <2>1, <2>2, QuietReplace DEF LostPhases
<1>3. CASE SetNativeAgentRequired(j, o, b) /\ b
  <2> DEFINE new == Contracted(job, TRUE, FALSE)
  <2>1. serverJobs' = [serverJobs EXCEPT ![j] = new]
    BY <1>3 DEF SetNativeAgentRequired, ServerInv
  <2>2. new.owner = job.owner /\ new.stop = job.stop /\ new.phase = job.phase
    BY <1>1 DEF ServerJob, Contracted
  <2> HIDE DEF new
  <2> QED
    BY <1>1, <2>1, <2>2, QuietReplace DEF LostPhases
<1>4. CASE SetNativeAgentRequired(j, o, b) /\ ~b
  <2> DEFINE new == [job EXCEPT !.nativeRequired = FALSE]
  <2>1. serverJobs' = [serverJobs EXCEPT ![j] = new]
    BY <1>4 DEF SetNativeAgentRequired, ServerInv
  <2>2. new.owner = job.owner /\ new.stop = job.stop /\ new.phase = job.phase
    BY <1>1 DEF ServerJob
  <2> HIDE DEF new
  <2> QED
    BY <1>1, <2>1, <2>2, QuietReplace DEF LostPhases
<1>5. CASE SetBrowserAgentRequired(j, o, b) /\ b
  <2> DEFINE new == Contracted(job, FALSE, TRUE)
  <2>1. serverJobs' = [serverJobs EXCEPT ![j] = new]
    BY <1>5 DEF SetBrowserAgentRequired, ServerInv
  <2>2. new.owner = job.owner /\ new.stop = job.stop /\ new.phase = job.phase
    BY <1>1 DEF ServerJob, Contracted
  <2> HIDE DEF new
  <2> QED
    BY <1>1, <2>1, <2>2, QuietReplace DEF LostPhases
<1>6. CASE SetBrowserAgentRequired(j, o, b) /\ ~b
  <2> DEFINE new == [job EXCEPT !.browserRequired = FALSE]
  <2>1. serverJobs' = [serverJobs EXCEPT ![j] = new]
    BY <1>6 DEF SetBrowserAgentRequired, ServerInv
  <2>2. new.owner = job.owner /\ new.stop = job.stop /\ new.phase = job.phase
    BY <1>1 DEF ServerJob
  <2> HIDE DEF new
  <2> QED
    BY <1>1, <2>1, <2>2, QuietReplace DEF LostPhases
<1>7. CASE RequestRescue(j, o)
  <2> DEFINE new == [job EXCEPT !.rescueRequested = TRUE, !.preference = FALSE]
  <2>1. serverJobs' = [serverJobs EXCEPT ![j] = new]
    BY <1>7 DEF RequestRescue, ServerInv
  <2>2. new.owner = job.owner /\ new.stop = job.stop /\ new.phase = job.phase
    BY <1>1 DEF ServerJob
  <2> HIDE DEF new
  <2> QED
    BY <1>1, <2>1, <2>2, QuietReplace DEF LostPhases
<1> QED
  BY <1>2, <1>3, <1>4, <1>5, <1>6, <1>7

LEMMA ServerOnlyQuiet ==
    ASSUME ServerInv, NEW j \in Jobs, NEW o \in Owners, ServerOnly(j, o)
    PROVE  \A i \in Jobs : Quiet(i)
<1>1. ASSUME NEW scope \in Scopes \cup {None}, NEW fingerprint \in Fingerprints \cup {None},
             NEW budget \in Budgets \cup {None}, Claim(j, o, scope, fingerprint, budget)
      PROVE  \A i \in Jobs : Quiet(i)
  <2> DEFINE new == NewJob(o, scope, fingerprint, budget)
  <2>1. PICK sj \in Pruned(serverJobs) : serverJobs' = [sj EXCEPT ![j] = new]
    BY <1>1 DEF Claim
  <2>2. new.phase = "pending" /\ new.stop = FALSE
    BY DEF NewJob
  <2> HIDE DEF new
  <2>3. sj \in [Jobs -> ServerJob \cup {NoJob}]
    BY PruneOnlyRemoves DEF ServerInv, SoundJob
  <2>4. serverJobs'[j] = new /\ \A i \in Jobs \ {j} : serverJobs'[i] = sj[i]
    BY <2>1, <2>3
  <2>5. Quiet(j)
    BY <2>2, <2>4 DEF Quiet, StopKept, LostPhases
  <2> QED
    BY <2>4, <2>5, PrunedIsQuiet
<1>2. ASSUME NEW b \in BOOLEAN,
             \/ SetAgentPreference(j, o, b)
             \/ SetNativeAgentRequired(j, o, b)
             \/ SetBrowserAgentRequired(j, o, b)
      PROVE  \A i \in Jobs : Quiet(i)
  BY <1>2, ContractQuiet
<1>3. CASE RequestRescue(j, o)
  BY <1>3, ContractQuiet
<1>4. CASE PrepareAgent(j, o) \/ PrepareServerless(j, o) \/ PrepareVps(j, o)
  BY <1>4, PrepareQuiet
<1>5. CASE Abandon(j, o)
  BY <1>5, KeptIsQuiet DEF Abandon, ServerInv
<1> QED
  BY <1>1, <1>2, <1>3, <1>4, <1>5 DEF ServerOnly

LEMMA FenceOnlyQuiet ==
    ASSUME ServerInv, NEW f \in fences, FenceOnly(f)
    PROVE  \A i \in Jobs : Quiet(i)
<1> DEFINE j == f.job
           job == serverJobs[j]
<1>1. j \in Present /\ job \in ServerJob
  BY PresentSound
     DEF FenceOnly, MarkAgentRunning, MarkServerlessRunning, MarkVpsRunning, MarkRunning,
         FallbackServerlessToVps, FallbackAgentToVps, FallbackEligible, Matches, Owned
<1>2. ASSUME NEW from, NEW to \in {"agent_running", "serverless_running", "vps_running"},
             MarkRunning(f, from, to)
      PROVE  \A i \in Jobs : Quiet(i)
  <2> DEFINE new == [job EXCEPT !.phase = to]
  <2>1. serverJobs' = [serverJobs EXCEPT ![j] = new]
    BY <1>2 DEF MarkRunning, ServerInv
  <2>2. new.owner = job.owner /\ new.stop = job.stop /\ new.phase = to
    BY <1>1 DEF ServerJob
  <2> HIDE DEF new
  <2> QED
    BY <1>1, <2>1, <2>2, QuietReplace DEF LostPhases
<1>3. CASE FallbackServerlessToVps(f)
  <2> DEFINE new == [job EXCEPT !.generation = job.generation + 1, !.phase = "vps_queued",
                              !.trusted = FALSE, !.preference = FALSE]
  <2>1. serverJobs' = [serverJobs EXCEPT ![j] = new]
    BY <1>3 DEF FallbackServerlessToVps, ServerInv
  <2>2. new.owner = job.owner /\ new.stop = job.stop /\ new.phase = "vps_queued"
    BY <1>1 DEF ServerJob
  <2> HIDE DEF new
  <2> QED
    BY <1>1, <2>1, <2>2, QuietReplace DEF LostPhases
<1>4. CASE FallbackAgentToVps(f)
  <2> DEFINE rescue == job.rescueRequested /\ ~job.rescueGranted
             e == IF rescue THEN 0 ELSE job.elapsed
             p == IF rescue THEN FALSE ELSE job.preference
             g == IF rescue THEN TRUE ELSE job.rescueGranted
             new == [job EXCEPT !.generation = job.generation + 1, !.phase = "vps_queued",
                                !.trusted = FALSE, !.elapsed = e, !.preference = p,
                                !.rescueGranted = g, !.rescueRequested = FALSE]
  <2>1. serverJobs' = [serverJobs EXCEPT ![j] = new]
    BY <1>4 DEF FallbackAgentToVps
  <2> HIDE DEF e, p, g
  <2>2. new.owner = job.owner /\ new.stop = job.stop /\ new.phase = "vps_queued"
    BY <1>1 DEF ServerJob
  <2> HIDE DEF new
  <2> QED
    BY <1>1, <2>1, <2>2, QuietReplace DEF LostPhases
<1> QED
  BY <1>2, <1>3, <1>4 DEF FenceOnly, MarkAgentRunning, MarkServerlessRunning, MarkVpsRunning

LEMMA AgeQuiet ==
    ASSUME ServerInv, AgeServerJobs
    PROVE  \A i \in Jobs : Quiet(i)
<1>1. ASSUME NEW i \in Present PROVE Quiet(i)
  <2> DEFINE job == serverJobs[i]
             c == IF job.completedAge # None /\ job.completedAge <= ResultTTL
                  THEN job.completedAge + 1 ELSE job.completedAge
             e == IF job.elapsed # None /\ job.elapsed < job.budget
                  THEN job.elapsed + 1 ELSE job.elapsed
             new == [job EXCEPT !.completedAge = c, !.elapsed = e]
  <2>1. serverJobs'[i] = new
    BY <1>1 DEF AgeServerJobs, Present
  <2> HIDE DEF c, e
  <2>2. job \in ServerJob
    BY PresentSound
  <2>3. new.phase = job.phase /\ new.owner = job.owner /\ new.stop = job.stop
    BY <2>2 DEF ServerJob
  <2> HIDE DEF new
  <2> QED
    BY <2>1, <2>3 DEF Quiet, StopKept
<1>2. \A i \in Jobs \ Present : Quiet(i)
  BY KeptIsQuiet DEF AgeServerJobs
<1> QED
  BY <1>1, <1>2

\* Dropping tickets and flagging children keeps the rest of the line and of the slots.
LEMMA DropKeeps ==
    ASSUME AdmissionTypeOK, NEW js, DropTickets(js)
    PROVE  KeepsLine /\ \A i \in js : i \notin Waiting'
BY DEF DropTickets, KeepsLine, Waiting

LEMMA FlagCancelKeeps ==
    ASSUME AdmissionTypeOK, NEW js, FlagCancel(js)
    PROVE  KeepsSlots /\ \A i \in js : i \in Running' => slots'[i].cancel
<1>1. ASSUME NEW i \in Running
      PROVE  LET c == [slots[i] EXCEPT !.cancel = TRUE]
             IN  c.cancel /\ c.owner = slots[i].owner /\ c.stop = slots[i].stop
  BY DEF AdmissionTypeOK, Running, Slot
<1>2. ASSUME NEW i \in Running'
      PROVE  /\ i \in Running /\ slots'[i].owner = slots[i].owner
             /\ slots[i].cancel => slots'[i].cancel
             /\ slots[i].stop => slots'[i].stop
             /\ i \in js => slots'[i].cancel
  BY <1>1, <1>2 DEF FlagCancel, Running
<1> QED
  BY <1>2 DEF KeepsSlots

LEMMA FlagStopKeeps ==
    ASSUME AdmissionTypeOK, NEW js, FlagStop(js)
    PROVE  KeepsSlots /\ \A i \in js : i \in Running' => slots'[i].stop
<1>1. ASSUME NEW i \in Running
      PROVE  LET c == [slots[i] EXCEPT !.stop = TRUE]
             IN  c.stop /\ c.owner = slots[i].owner /\ c.cancel = slots[i].cancel
  BY DEF AdmissionTypeOK, Running, Slot
<1>2. ASSUME NEW i \in Running'
      PROVE  /\ i \in Running /\ slots'[i].owner = slots[i].owner
             /\ slots[i].cancel => slots'[i].cancel
             /\ slots[i].stop => slots'[i].stop
             /\ i \in js => slots'[i].stop
  BY <1>1, <1>2 DEF FlagStop, Running
<1> QED
  BY <1>2 DEF KeepsSlots

LEMMA EvictKeeps ==
    ASSUME AdmissionTypeOK, NEW queued, NEW running, Evict(queued, running)
    PROVE  /\ KeepsLine /\ KeepsSlots
           /\ \A i \in queued : i \notin Waiting'
           /\ \A i \in running : i \in Running' => slots'[i].cancel
BY DropKeeps, FlagCancelKeeps DEF Evict

LEMMA TouchKeeps ==
    ASSUME AdmissionTypeOK, NEW j \in Live, TouchTicket(j)
    PROVE  KeepsLine
<1>1. [tickets[j] EXCEPT !.age = 0].owner = tickets[j].owner
  BY WaitingTicket, LiveIsWaiting DEF Ticket
<1> QED
  BY <1>1 DEF TouchTicket, KeepsLine, Waiting, Live

\* What an admission adds: at most the ticket or the child of this request.
LEMMA AcquireAdds ==
    ASSUME AdmissionTypeOK, NEW j \in Jobs, NEW o \in Owners, NEW d \in Demands,
           NEW blocked \in BOOLEAN, NEW stop \in BOOLEAN,
           AcquireOrEnqueue(j, o, d, blocked, stop) \/ TryAcquire(j, o, d, blocked, stop)
    PROVE  /\ \A i \in Waiting' : \/ i \in Waiting /\ tickets'[i].owner = tickets[i].owner
                                  \/ i = j /\ ~blocked /\ tickets'[i].owner = o
           /\ \A i \in Running' : \/ i \in Running /\ slots'[i] = slots[i]
                                  \/ /\ i = j /\ ~blocked
                                     /\ slots'[i].owner = o /\ slots'[i].stop = stop
<1>1. CASE AcquireRefused(j, o, blocked) \/ TryAcquireRefused(j, d, blocked)
  BY <1>1, DropKeeps DEF AcquireRefused, TryAcquireRefused, PruneStaleQueue, KeepsLine, Running
<1>2. CASE AcquireAtOnce(j, o, d, blocked, stop) \/ TryAcquired(j, o, d, blocked, stop)
  <2>1. KeepsLine /\ ~blocked /\ StartSlot(j, o, NormalizedDemand(d), stop)
    BY <1>2, DropKeeps DEF AcquireAtOnce, TryAcquired, PruneStaleQueue, MayAcquire
  <2> QED
    BY <2>1 DEF KeepsLine, StartSlot, Running, AdmissionTypeOK
<1>3. CASE Enqueue(j, o, d, blocked)
  BY <1>3 DEF Enqueue, MayAcquire, PushBack, Waiting, Running
<1>4. CASE AcquireFromFront(j, o, blocked, stop)
  <2>1. /\ KeepsLine /\ ~blocked /\ tickets[j].owner = o
        /\ StartSlot(j, tickets[j].owner, tickets[j].workers, stop)
    BY <1>4, DropKeeps DEF AcquireFromFront, MayAcquire
  <2> QED
    BY <2>1 DEF KeepsLine, StartSlot, Running, AdmissionTypeOK
<1>5. CASE StayQueued(j, o, blocked)
  BY <1>5, TouchKeeps DEF StayQueued, KeepsLine, Running
<1> QED
  BY <1>1, <1>2, <1>3, <1>4, <1>5 DEF AcquireOrEnqueue, TryAcquire

LEMMA AcquireJoint ==
    ASSUME AdmissionTypeOK, ServerInv, PoolJoint, NEW j \in Jobs, NEW o \in Owners, NEW d \in Demands,
           PoolAcquireOrEnqueue(j, o, d) \/ PoolTryAcquire(j, o, d)
    PROVE  PoolJoint'
<1> DEFINE b == Blocked(j, o)
           s == StopRequested(j)
<1>1. b \in BOOLEAN /\ s \in BOOLEAN
  BY BlockedIsBoolean, StopIsBoolean
<1>2. /\ AcquireOrEnqueue(j, o, d, b, s) \/ TryAcquire(j, o, d, b, s)
      /\ serverJobs' = serverJobs
  BY DEF PoolAcquireOrEnqueue, PoolTryAcquire, serverVars
<1>3. ~b => ~(VpsHasLost(j) /\ serverJobs[j].owner = o)
  BY DEF Blocked, VpsHasLost, Owned, VpsPhases
<1>4. j \in Present /\ serverJobs[j].stop => s
  BY DEF StopRequested
<1> HIDE DEF b, s
<1>5. /\ \A i \in Waiting' : \/ i \in Waiting /\ tickets'[i].owner = tickets[i].owner
                             \/ i = j /\ ~b /\ tickets'[i].owner = o
      /\ \A i \in Running' : \/ i \in Running /\ slots'[i] = slots[i]
                             \/ /\ i = j /\ ~b
                                /\ slots'[i].owner = o /\ slots'[i].stop = s
  BY <1>1, <1>2, AcquireAdds
<1>6. NoTicketOnceLost'
  BY <1>2, <1>3, <1>5 DEF PoolJoint, NoTicketOnceLost, VpsHasLost, Present
<1>7. LostChildIsTold'
  BY <1>2, <1>3, <1>5 DEF PoolJoint, LostChildIsTold, VpsHasLost, Present
<1>8. StopReachesChild'
  BY <1>2, <1>4, <1>5 DEF PoolJoint, StopReachesChild, Present
<1> QED
  BY <1>6, <1>7, <1>8 DEF PoolJoint

\* A handoff takes its tickets away and tells its children, and leaves the owners
\* and the stop flags of the jobs as they were.
LEMMA HandoffJoint ==
    ASSUME AdmissionTypeOK, ServerInv, PoolJoint, NEW js \in SUBSET Present, NEW t \in BOOLEAN,
           HandoffTo(js, t), NEW queued, js \subseteq queued, Evict(queued, js)
    PROVE  PoolJoint'
<1>1. KeepsLine /\ KeepsSlots /\ (\A i \in js : i \notin Waiting')
      /\ \A i \in js : i \in Running' => slots'[i].cancel
  BY EvictKeeps
<1>2. ASSUME NEW i \in js
      PROVE  StopKept(i)
  <2> DEFINE new == HandedOff(serverJobs[i], t)
  <2>1. i \in Present /\ serverJobs'[i] = new
    BY DEF HandoffTo, Present
  <2>2. serverJobs[i] \in ServerJob
    BY <2>1, PresentSound
  <2>3. new.owner = serverJobs[i].owner /\ new.stop = serverJobs[i].stop
    BY <2>2 DEF HandedOff, ServerJob
  <2> HIDE DEF new
  <2> QED
    BY <2>1, <2>3 DEF StopKept
<1>3. \A i \in Jobs \ js : Quiet(i)
  BY KeptIsQuiet DEF HandoffTo
<1>4. \A i \in Jobs : StopKept(i)
  BY <1>2, <1>3 DEF Quiet
<1>5. js \in SUBSET Jobs
  BY DEF Present
<1> QED
  BY <1>1, <1>3, <1>4, <1>5, JointStep

LEMMA CompleteJoint ==
    ASSUME AdmissionTypeOK, ServerInv, PoolJoint, NEW f \in fences, PoolComplete(f)
    PROVE  PoolJoint'
<1> DEFINE j == f.job
           new == [serverJobs[j] EXCEPT !.response = f, !.completedAge = 0, !.phase = "completed"]
           done == [serverJobs EXCEPT ![j] = new]
<1>1. j \in Present /\ j \in Jobs /\ serverJobs[j] \in ServerJob
  BY PresentSound DEF PoolComplete, CompleteFenced, Matches, Owned, Present
<1>2. new.owner = serverJobs[j].owner /\ new.stop = serverJobs[j].stop /\ new.phase = "completed"
  BY <1>1 DEF ServerJob
<1>3. serverJobs' \in Pruned(done)
  BY DEF PoolComplete, CompleteFenced
<1>4. done[j] = new /\ \A i \in Jobs \ {j} : done[i] = serverJobs[i]
  BY <1>1 DEF ServerInv
<1> HIDE DEF new
<1>5. \A i \in Jobs : serverJobs'[i] = done[i] \/ serverJobs'[i] = NoJob
  BY <1>3 DEF Pruned, Without
<1> HIDE DEF done
<1>6. \A i \in Jobs \ {j} : Quiet(i)
  BY <1>4, <1>5, KeptIsQuiet
<1>7. serverJobs'[j] = NoJob \/ serverJobs'[j] = new
  BY <1>1, <1>4, <1>5
<1>8. StopKept(j) /\ (j \in Present' => serverJobs'[j].phase = "completed")
  BY <1>1, <1>2, <1>7 DEF StopKept, Present
<1>9. KeepsLine /\ KeepsSlots /\ j \notin Waiting'
  BY DropKeeps DEF PoolComplete, KeepsSlots, Running
<1>10. {j} \in SUBSET Jobs /\ \A i \in Jobs : StopKept(i)
  BY <1>1, <1>6, <1>8 DEF Quiet
<1> HIDE DEF j
<1> QED
  BY <1>6, <1>8, <1>9, <1>10, JointStep

LEMMA CancelJoint ==
    ASSUME AdmissionTypeOK, ServerInv, PoolJoint, NEW j \in Jobs, NEW o \in Owners, PoolCancel(j, o)
    PROVE  PoolJoint'
<1> DEFINE queued == {i \in {j} \cap Waiting : tickets[i].owner = o}
           running == {i \in {j} \cap Running : slots[i].owner = o}
           new == [serverJobs[j] EXCEPT !.cancel = TRUE, !.generation = serverJobs[j].generation + 1,
                                        !.phase = "cancelling"]
<1>1. Evict(queued, running)
  BY DEF PoolCancel
<1>2. KeepsLine /\ KeepsSlots /\ (\A i \in queued : i \notin Waiting')
      /\ \A i \in running : i \in Running' => slots'[i].cancel
  BY <1>1, EvictKeeps
<1>3. j \in Waiting' => tickets'[j].owner # o
  BY <1>2 DEF KeepsLine
<1>4. j \in Running' => slots'[j].owner # o \/ slots'[j].cancel
  BY <1>2 DEF KeepsSlots
<1>5. \A i \in Jobs \ {j} : serverJobs'[i] = serverJobs[i]
  BY DEF PoolCancel, CancelServerJob, ServerInv, serverVars
<1>6. \A i \in Jobs \ {j} : Quiet(i)
  BY <1>5, KeptIsQuiet
<1>7. CASE serverJobs'[j] = serverJobs[j] \/ serverJobs'[j] = NoJob
  <2>1. \A i \in Jobs : Quiet(i)
    BY <1>6, <1>7, KeptIsQuiet
  <2>2. {} \in SUBSET Jobs /\ \A i \in Jobs : StopKept(i)
    BY <2>1 DEF Quiet
  <2> QED
    BY <1>2, <2>1, <2>2, JointStep
<1>8. CASE Owned(j, o) /\ serverJobs'[j] = new
  <2>1. j \in Present /\ serverJobs[j].owner = o /\ serverJobs[j] \in ServerJob
    BY <1>8, PresentSound DEF Owned
  <2>2. new.owner = o /\ new.stop = serverJobs[j].stop
    BY <2>1 DEF ServerJob
  <2> HIDE DEF new, queued, running
  <2>3. serverJobs'[j].owner = o /\ StopKept(j)
    BY <1>8, <2>1, <2>2 DEF StopKept
  <2>4. {j} \in SUBSET Jobs /\ \A i \in Jobs : StopKept(i)
    BY <1>6, <2>3 DEF Quiet
  <2> QED
    BY <1>2, <1>3, <1>4, <1>6, <2>3, <2>4, JointStep
<1>9. \/ serverJobs'[j] = serverJobs[j] \/ serverJobs'[j] = NoJob
      \/ Owned(j, o) /\ serverJobs'[j] = new
  BY DEF PoolCancel, CancelServerJob, ServerInv, serverVars
<1> QED
  BY <1>7, <1>8, <1>9

LEMMA StopJoint ==
    ASSUME AdmissionTypeOK, ServerInv, PoolJoint, NEW j \in Jobs, NEW o \in Owners,
           PoolBestEffortStop(j, o)
    PROVE  PoolJoint'
<1> DEFINE js == {i \in {j} \cap Running : slots[i].owner = o}
           new == [serverJobs[j] EXCEPT !.stop = TRUE]
<1>1. FlagStop(js) /\ UNCHANGED <<tickets, ahead>>
  BY DEF PoolBestEffortStop, RequestStop
<1>2. KeepsSlots /\ \A i \in js : i \in Running' => slots'[i].stop
  BY <1>1, FlagStopKeeps
<1>3. j \in Present /\ serverJobs[j].owner = o /\ serverJobs[j] \in ServerJob
  BY PresentSound DEF PoolBestEffortStop, RequestBestEffortStop, Eligible, Owned
<1>4. serverJobs' = [serverJobs EXCEPT ![j] = new]
  BY DEF PoolBestEffortStop, RequestBestEffortStop, ServerInv
<1>5. new.owner = o /\ new.phase = serverJobs[j].phase
  BY <1>3 DEF ServerJob
<1> HIDE DEF new
<1>6. serverJobs'[j] = new /\ \A i \in Jobs \ {j} : serverJobs'[i] = serverJobs[i]
  BY <1>4 DEF ServerInv
<1>7. \A i \in Jobs : i \in Present' =>
         /\ i \in Present /\ serverJobs'[i].owner = serverJobs[i].owner
         /\ serverJobs'[i].phase = serverJobs[i].phase
  BY <1>3, <1>5, <1>6 DEF Present
<1>8. NoTicketOnceLost'
  BY <1>1, <1>7 DEF PoolJoint, NoTicketOnceLost, VpsHasLost, Waiting
<1>9. LostChildIsTold'
  BY <1>2, <1>7 DEF PoolJoint, LostChildIsTold, VpsHasLost, KeepsSlots, Running
<1>10. j \in Running' /\ slots'[j].owner = o => slots'[j].stop
  BY <1>2 DEF KeepsSlots
<1> HIDE DEF js
<1>11. StopReachesChild'
  BY <1>2, <1>3, <1>5, <1>6, <1>10
     DEF PoolJoint, StopReachesChild, KeepsSlots, Running, Present
<1> QED
  BY <1>8, <1>9, <1>11 DEF PoolJoint

\* A step that leaves admission alone, and no job from the VPS.
LEMMA QuietJoint ==
    ASSUME PoolJoint, UNCHANGED admissionVars, \A i \in Jobs : Quiet(i)
    PROVE  PoolJoint'
<1>1. {} \in SUBSET Jobs /\ KeepsLine /\ KeepsSlots /\ \A i \in Jobs : StopKept(i)
  BY SameAdmission DEF Quiet
<1> QED
  BY <1>1, JointStep

\* A step that leaves the jobs alone and adds nobody to the line or to the children.
LEMMA KeptJoint ==
    ASSUME PoolJoint, KeepsLine, KeepsSlots, UNCHANGED serverVars
    PROVE  PoolJoint'
<1>1. \A i \in Jobs : Quiet(i)
  BY KeptIsQuiet DEF serverVars
<1>2. {} \in SUBSET Jobs /\ \A i \in Jobs : StopKept(i)
  BY <1>1 DEF Quiet
<1> QED
  BY <1>1, <1>2, JointStep

LEMMA TouchJoint ==
    ASSUME AdmissionTypeOK, PoolJoint, NEW j \in Jobs, NEW o \in Owners, PoolTouch(j, o)
    PROVE  PoolJoint'
<1>1. KeepsLine
  BY TouchKeeps, DropKeeps DEF PoolTouch, TouchQueued, PruneStaleQueue
<1>2. KeepsSlots
  BY DEF PoolTouch, TouchQueued, KeepsSlots, Running
<1> QED
  BY <1>1, <1>2, KeptJoint DEF PoolTouch

LEMMA ReleaseJoint ==
    ASSUME AdmissionTypeOK, PoolJoint, NEW j \in Jobs, PoolRelease(j)
    PROVE  PoolJoint'
<1>1. KeepsLine
  BY DEF PoolRelease, ReleaseSlot, KeepsLine, Waiting
<1>2. \A i \in Running' : i \in Running /\ slots'[i] = slots[i]
  BY DEF PoolRelease, ReleaseSlot, Running, AdmissionTypeOK
<1> QED
  BY <1>1, <1>2, KeptJoint DEF PoolRelease, KeepsSlots

LEMMA PruneQueueJoint ==
    ASSUME AdmissionTypeOK, PoolJoint, PoolPruneQueue
    PROVE  PoolJoint'
<1>1. KeepsLine
  BY DropKeeps DEF PoolPruneQueue, PruneStaleQueue
<1>2. KeepsSlots
  BY DEF PoolPruneQueue, KeepsSlots, Running
<1> QED
  BY <1>1, <1>2, KeptJoint DEF PoolPruneQueue, serverVars

LEMMA TickJoint ==
    ASSUME AdmissionTypeOK, ServerInv, PoolJoint, PoolTick
    PROVE  PoolJoint'
<1>1. ASSUME NEW i \in Waiting'
      PROVE  i \in Waiting /\ tickets'[i].owner = tickets[i].owner
  <2> DEFINE new == [tickets[i] EXCEPT !.age = tickets[i].age + 1]
  <2>1. i \in Jobs /\ tickets'[i] # NoTicket
    BY <1>1 DEF Waiting
  <2>2. CASE i \in Live
    <3>1. tickets'[i] = new
      BY <2>1, <2>2 DEF PoolTick, AgeTickets
    <3>2. i \in Waiting /\ tickets[i] \in Ticket
      BY <2>2, LiveIsWaiting DEF AdmissionTypeOK, Waiting
    <3>3. new.owner = tickets[i].owner
      BY <3>2 DEF Ticket
    <3> HIDE DEF new
    <3> QED
      BY <3>1, <3>2, <3>3
  <2>3. CASE i \notin Live
    BY <2>1, <2>3 DEF PoolTick, AgeTickets, Waiting
  <2> QED
    BY <2>2, <2>3
<1>2. KeepsLine
  BY <1>1 DEF KeepsLine
<1>3. KeepsSlots
  BY DEF PoolTick, AgeTickets, KeepsSlots, Running
<1>4. \A i \in Jobs : Quiet(i)
  BY AgeQuiet DEF PoolTick
<1>5. {} \in SUBSET Jobs /\ \A i \in Jobs : StopKept(i)
  BY <1>4 DEF Quiet
<1> QED
  BY <1>2, <1>3, <1>4, <1>5, JointStep

LEMMA JointKept ==
    ASSUME AdmissionTypeOK, ServerInv, PoolJoint, [PoolNext]_poolVars
    PROVE  PoolJoint'
<1>1. ASSUME NEW j \in Jobs, NEW o \in Owners, NEW d \in Demands,
             PoolAcquireOrEnqueue(j, o, d) \/ PoolTryAcquire(j, o, d)
      PROVE  PoolJoint'
  BY <1>1, AcquireJoint
<1>2. ASSUME NEW j \in Jobs, NEW o \in Owners, ServerOnly(j, o) PROVE PoolJoint'
  <2>1. UNCHANGED admissionVars
    BY <1>2 DEF ServerOnly
  <2> QED
    BY <1>2, <2>1, ServerOnlyQuiet, QuietJoint
<1>3. ASSUME NEW j \in Jobs, NEW o \in Owners, PoolJobHandoff(j, o) PROVE PoolJoint'
  <2>1. {j} \in SUBSET Present /\ HandoffTo({j}, FALSE) /\ Evict({j}, {j}) /\ {j} \subseteq {j}
    BY <1>3 DEF PoolJobHandoff, JobHandoffEligible, Owned
  <2> QED
    BY <2>1, HandoffJoint
<1>4. ASSUME NEW j \in Jobs, NEW o \in Owners, PoolCancel(j, o) PROVE PoolJoint'
  BY <1>4, CancelJoint
<1>5. ASSUME NEW j \in Jobs, NEW o \in Owners, PoolBestEffortStop(j, o) PROVE PoolJoint'
  BY <1>5, StopJoint
<1>6. ASSUME NEW j \in Jobs, NEW o \in Owners, PoolTouch(j, o) PROVE PoolJoint'
  BY <1>6, TouchJoint
<1>7. ASSUME NEW f \in fences, FenceOnly(f) PROVE PoolJoint'
  <2>1. UNCHANGED admissionVars
    BY <1>7 DEF FenceOnly
  <2> QED
    BY <1>7, <2>1, FenceOnlyQuiet, QuietJoint
<1>8. ASSUME NEW f \in fences, PoolComplete(f) PROVE PoolJoint'
  BY <1>8, CompleteJoint
<1>9. ASSUME NEW o \in Owners, PoolOwnerHandoff(o) PROVE PoolJoint'
  <2> DEFINE js == OwnerHandoffJobs(o)
  <2>1. HandoffTo(js, FALSE) /\ Evict(js, js)
    BY <1>9 DEF PoolOwnerHandoff
  <2>2. js \in SUBSET Present /\ js \subseteq js
    BY DEF OwnerHandoffJobs, Owned
  <2> HIDE DEF js
  <2> QED
    BY <2>1, <2>2, HandoffJoint
<1>10. ASSUME NEW j \in Jobs, PoolRelease(j) PROVE PoolJoint'
  BY <1>10, ReleaseJoint
<1>11. CASE PoolTrustedHandoff
  <2>1. PICK js \in FirstInLine(TrustedCandidates, TrustedBatch) :
            TrustedHandoff(js) /\ Evict(Stale \cup js, js)
    BY <1>11 DEF PoolTrustedHandoff
  <2> DEFINE queued == Stale \cup js
  <2>2. HandoffTo(js, TRUE) /\ Evict(queued, js) /\ js \subseteq queued
    BY <2>1 DEF TrustedHandoff
  <2>3. js \in SUBSET Present
    BY DEF FirstInLine, TrustedCandidates, TrustedHandoffEligible, HandoffEligible, IsOpen
  <2> HIDE DEF queued
  <2> QED
    BY <2>2, <2>3, HandoffJoint
<1>12. CASE PoolPruneCompleted
  <2>1. serverJobs' \in Pruned(serverJobs) /\ UNCHANGED admissionVars
    BY <1>12 DEF PoolPruneCompleted, PruneCompleted
  <2>2. \A i \in Jobs : serverJobs'[i] = serverJobs[i] \/ serverJobs'[i] = NoJob
    BY <2>1 DEF Pruned, Without
  <2>3. \A i \in Jobs : Quiet(i)
    BY <2>2, KeptIsQuiet
  <2> QED
    BY <2>1, <2>3, QuietJoint
<1>13. CASE PoolPruneQueue
  BY <1>13, PruneQueueJoint
<1>14. CASE PoolTick
  BY <1>14, TickJoint
<1>15. CASE UNCHANGED poolVars
  <2>1. UNCHANGED admissionVars /\ UNCHANGED serverVars
    BY <1>15 DEF poolVars, admissionVars, serverVars
  <2> QED
    BY <2>1, SameAdmission, KeptJoint
<1> QED
  BY <1>1, <1>2, <1>3, <1>4, <1>5, <1>6, <1>7, <1>8, <1>9, <1>10, <1>11, <1>12, <1>13, <1>14, <1>15
     DEF PoolNext

\* The line and the children follow the canonical jobs, in every state of the pool.
LEMMA PoolFollowsJobs == PoolSpec => []PoolJoint
<1>1. PoolInit => AdmissionTypeOK /\ ServerInv /\ PoolJoint
  <2> SUFFICES ASSUME PoolInit PROVE AdmissionTypeOK /\ ServerInv /\ PoolJoint
    OBVIOUS
  <2>1. AdmissionTypeOK /\ ServerInv
    BY InitSound DEF PoolInit, AdmissionInit, AdmissionTypeOK
  <2>2. Waiting = {} /\ Running = {}
    BY DEF PoolInit, AdmissionInit, Waiting, Running
  <2> QED
    BY <2>1, <2>2 DEF PoolJoint, NoTicketOnceLost, LostChildIsTold, StopReachesChild
<1>2. AdmissionTypeOK /\ ServerInv /\ PoolJoint /\ [PoolNext]_poolVars =>
        AdmissionTypeOK' /\ ServerInv' /\ PoolJoint'
  <2>1. AdmissionTypeOK /\ ServerInv /\ [PoolNext]_poolVars =>
            [AdmissionNext]_admissionVars /\ [ServerNext]_serverVars
    BY StepIsAdmission, StepIsServer
  <2> QED
    BY <2>1, AdmissionTypeStep, NextSound, JointKept DEF StepSound
<1> QED
  BY <1>1, <1>2, PTL DEF PoolSpec

\* No request of a handed-over, cancelled or completed job holds a place in the
\* line: the handoffs, cancel_job_for_owner and complete_server_job_fenced drop
\* the ticket, and acquire_or_enqueue_for_owner refuses a new one.
THEOREM NoTicketLeft == PoolSpec => []NoTicketOnceLost
BY PoolFollowsJobs, PTL DEF PoolJoint

\* A child whose job the VPS lost to a handoff or a cancellation was told to stop.
THEOREM LostChildrenTold == PoolSpec => []LostChildIsTold
BY PoolFollowsJobs, PTL DEF PoolJoint

\* A graceful stop reaches the child, whichever of the two came first.
THEOREM StopsReachChildren == PoolSpec => []StopReachesChild
BY PoolFollowsJobs, PTL DEF PoolJoint
=============================================================================
