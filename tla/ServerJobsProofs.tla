--------------------------- MODULE ServerJobsProofs ---------------------------
(***************************************************************************)
(* What ServerJobs guarantees for every number of request ids, claims and  *)
(* generations.  The first part is about each job on its own: SoundJob is  *)
(* the inductive strengthening of the type, and every operation maps sound *)
(* jobs to sound jobs.  The second part relates a job to the fences that   *)
(* were issued for it, the third the jobs of the registry to one another.  *)
(***************************************************************************)
EXTENDS ServerJobs, FiniteSetTheorems, TLAPS

\* A job whose flags, phase, response and watchdog fit together.
SoundJob ==
    {job \in ServerJob :
        /\ job.phase = "completed" <=> job.completedAge # None
        /\ job.phase = "completed" <=> job.response # None
        /\ job.cancel <=> job.phase = "cancelling"
        /\ job.response # None => job.response.generation = job.generation
        /\ (job.nativeRequired \/ job.browserRequired) => job.phase \notin VpsPhases
        /\ (job.budget # None /\ ExecutorOf(job.phase) # None) => job.elapsed # None
        /\ job.rescueGranted => job.phase \in VpsPhases \cup {"cancelling", "completed"}}

ServerInv ==
    /\ serverJobs \in [Jobs -> SoundJob \cup {NoJob}]
    /\ fences \in SUBSET Fence
    /\ claims \in [Jobs -> Nat]

\* What one step may make of a job that stays in the registry.
Progress(old, new) ==
    /\ new.owner = old.owner
    /\ old.generation <= new.generation
    /\ old.generation = new.generation =>
          \/ new.phase = "completed"
          \/ old.phase # "completed" /\ ExecutorOf(new.phase) = ExecutorOf(old.phase)
          \/ old.phase # "completed" /\ ExecutorOf(old.phase) = None
    /\ old.cancel => new.cancel /\ new.phase = "cancelling" /\ new.response = None
    /\ old.response # None => /\ new.response = old.response
                              /\ new.phase = "completed"
                              /\ new.generation = old.generation
    /\ (old.elapsed # None /\ (new.elapsed = None \/ new.elapsed < old.elapsed)) =>
          ~old.rescueGranted /\ new.rescueGranted
    /\ old.rescueGranted /\ ~old.cancel => new.rescueGranted

\* What one step may make of a request id.
Change(i) ==
    \/ serverJobs'[i] = NoJob /\ claims'[i] = claims[i]
    \/ /\ i \in Present /\ serverJobs'[i] # NoJob
       /\ claims'[i] = claims[i]
       /\ Progress(serverJobs[i], serverJobs'[i])
    \/ serverJobs'[i] # NoJob /\ claims'[i] = claims[i] + 1

\* A new fence is the fence of a job that stays, for the executor it has now.
NewFence(f) ==
    /\ f.job \in Jobs
    /\ f = FenceOf(f.job, serverJobs'[f.job], ExecutorOf(serverJobs'[f.job].phase))
    /\ serverJobs'[f.job] # NoJob
    /\ claims'[f.job] = claims[f.job]

StepSound ==
    /\ ServerInv'
    /\ \A i \in Jobs : Change(i)
    /\ fences \subseteq fences'
    /\ \A f \in fences' \ fences : NewFence(f)

-----------------------------------------------------------------------------
LEMMA PresentSound ==
    ASSUME ServerInv, NEW j \in Present
    PROVE  serverJobs[j] \in SoundJob /\ serverJobs[j] \in ServerJob /\ j \in Jobs
BY DEF ServerInv, Present, SoundJob

LEMMA PhaseExecutors ==
    /\ \A p \in VpsPhases : ExecutorOf(p) = "vps"
    /\ \A p \in AgentPhases : ExecutorOf(p) = "agent"
    /\ \A p \in ServerlessPhases : ExecutorOf(p) = "serverless"
    /\ \A p \in {"pending", "handoff_to_agent", "cancelling", "completed"} : ExecutorOf(p) = None
BY DEF ExecutorOf, VpsPhases, AgentPhases, ServerlessPhases

\* What a prune leaves: every job as it was, or gone if it was completed.
LEMMA PruneOnlyRemoves ==
    ASSUME NEW sj \in [Jobs -> ServerJob \cup {NoJob}], NEW after \in Pruned(sj)
    PROVE  /\ after \in [Jobs -> ServerJob \cup {NoJob}]
           /\ \A j \in Jobs : \/ after[j] = sj[j]
                              \/ /\ after[j] = NoJob /\ sj[j] # NoJob
                                 /\ sj[j].completedAge # None
<1>1. PICK victims \in SUBSET ResultsOf(sj) : after = Without(sj, ExpiredOf(sj) \cup victims)
  BY DEF Pruned
<1>2. ExpiredOf(sj) \subseteq ResultsOf(sj)
  BY DEF ExpiredOf
<1> QED
  BY <1>1, <1>2 DEF Without, ResultsOf

LEMMA NewJobSound ==
    ASSUME NEW o \in Owners, NEW scope \in Scopes \cup {None},
           NEW fingerprint \in Fingerprints \cup {None}, NEW budget \in Budgets \cup {None}
    PROVE  NewJob(o, scope, fingerprint, budget) \in SoundJob
BY PhaseExecutors DEF NewJob, SoundJob, ServerJob, Phases, VpsPhases

LEMMA SoundIsPresent ==
    /\ SoundJob \subseteq ServerJob
    /\ NoJob \notin SoundJob
    /\ \A job \in SoundJob : job.elapsed # None => job.elapsed \in Nat
    /\ \A job \in SoundJob : job.generation \in Nat
BY AbsentJobAssumption DEF SoundJob, ServerJob

\* A job that is left alone has made progress.
LEMMA KeptProgress ==
    ASSUME NEW job \in SoundJob
    PROVE  Progress(job, job)
<1>1. job \in ServerJob /\ job.generation \in Nat /\ (job.elapsed # None => job.elapsed \in Nat)
  BY SoundIsPresent
<1>2. /\ job.phase = "completed" <=> job.response # None
      /\ job.phase = "completed" <=> job.completedAge # None
      /\ job.cancel <=> job.phase = "cancelling"
  BY DEF SoundJob
<1> QED
  BY <1>1, <1>2 DEF Progress

\* A step that replaces one job.
LEMMA ReplaceJob ==
    ASSUME ServerInv, NEW j \in Present, NEW new \in SoundJob,
           serverJobs' = [serverJobs EXCEPT ![j] = new],
           Progress(serverJobs[j], new),
           claims' = claims,
           fences' = fences \/ (ExecutorOf(new.phase) \in Executors /\ Issue(j, ExecutorOf(new.phase)))
    PROVE  StepSound
<1>1. j \in Jobs /\ serverJobs'[j] = new /\ new \in ServerJob /\ new # NoJob
  BY SoundIsPresent DEF ServerInv, Present
<1>2. \A i \in Jobs \ {j} : serverJobs'[i] = serverJobs[i]
  BY DEF ServerInv
<1>3. serverJobs' \in [Jobs -> SoundJob \cup {NoJob}]
  BY DEF ServerInv
<1>4. ASSUME NEW i \in Jobs PROVE Change(i)
  <2>1. CASE i = j
    BY <1>1, <2>1 DEF Change
  <2>2. CASE i # j /\ i \in Present
    BY <1>2, <2>2, PresentSound, KeptProgress, SoundIsPresent DEF Change
  <2>3. CASE i # j /\ i \notin Present
    BY <1>2, <2>3 DEF Change, Present
  <2> QED
    BY <2>1, <2>2, <2>3
<1> DEFINE f == FenceOf(j, new, ExecutorOf(new.phase))
<1>5. ExecutorOf(new.phase) \in Executors => f \in Fence /\ f.job = j
  BY <1>1 DEF FenceOf, Fence, ServerInv, ServerJob
<1>6. CASE fences' = fences
  BY <1>3, <1>4, <1>6 DEF StepSound, ServerInv
<1>7. CASE ExecutorOf(new.phase) \in Executors /\ Issue(j, ExecutorOf(new.phase))
  <2>1. fences' = fences \cup {f}
    BY <1>1, <1>7 DEF Issue
  <2>2. f \in Fence /\ NewFence(f)
    BY <1>1, <1>5, <1>7 DEF NewFence
  <2> HIDE DEF f
  <2> QED
    BY <1>3, <1>4, <2>1, <2>2 DEF StepSound, ServerInv
<1> QED
  BY <1>6, <1>7

\* A step after which every job is as it was, or gone.
LEMMA RemoveJobs ==
    ASSUME ServerInv,
           serverJobs' \in [Jobs -> ServerJob \cup {NoJob}],
           \A i \in Jobs : serverJobs'[i] = serverJobs[i] \/ serverJobs'[i] = NoJob,
           UNCHANGED <<fences, claims>>
    PROVE  StepSound
<1>1. ServerInv'
  BY DEF ServerInv
<1>2. ASSUME NEW i \in Jobs PROVE Change(i)
  <2>1. CASE serverJobs'[i] = NoJob
    BY <2>1 DEF Change
  <2>2. CASE serverJobs'[i] # NoJob
    BY <2>2, PresentSound, KeptProgress DEF Change, Present
  <2> QED
    BY <2>1, <2>2
<1> QED
  BY <1>1, <1>2 DEF StepSound

LEMMA ClaimSound ==
    ASSUME ServerInv, NEW j \in Jobs, NEW o \in Owners, NEW scope \in Scopes \cup {None},
           NEW fingerprint \in Fingerprints \cup {None}, NEW budget \in Budgets \cup {None},
           Claim(j, o, scope, fingerprint, budget)
    PROVE  StepSound
<1> DEFINE new == NewJob(o, scope, fingerprint, budget)
<1>1. PICK sj \in Pruned(serverJobs) : serverJobs' = [sj EXCEPT ![j] = new]
  BY DEF Claim
<1>2. serverJobs \in [Jobs -> ServerJob \cup {NoJob}]
  BY DEF ServerInv, SoundJob
<1>3. /\ sj \in [Jobs -> SoundJob \cup {NoJob}]
      /\ \A i \in Jobs : sj[i] = serverJobs[i] \/ sj[i] = NoJob
  BY <1>2, PruneOnlyRemoves DEF ServerInv
<1>4. new \in SoundJob
  BY NewJobSound
<1> HIDE DEF new
<1>5. serverJobs' \in [Jobs -> SoundJob \cup {NoJob}]
  BY <1>1, <1>3, <1>4
<1>6. claims' \in [Jobs -> Nat] /\ fences' = fences
  BY DEF Claim, ServerInv
<1>7. ASSUME NEW i \in Jobs PROVE Change(i)
  <2>1. CASE i = j
    <3>1. serverJobs'[i] # NoJob /\ claims'[i] = claims[i] + 1
      BY <1>1, <1>3, <1>4, <2>1, SoundIsPresent DEF Claim, ServerInv
    <3> QED
      BY <3>1 DEF Change
  <2>2. CASE i # j
    <3>1. claims'[i] = claims[i] /\ (serverJobs'[i] = serverJobs[i] \/ serverJobs'[i] = NoJob)
      BY <1>1, <1>3, <2>2 DEF Claim, ServerInv
    <3>2. CASE serverJobs'[i] = NoJob
      BY <3>1, <3>2 DEF Change
    <3>3. CASE serverJobs'[i] # NoJob
      BY <3>1, <3>3, PresentSound, KeptProgress DEF Change, Present
    <3> QED
      BY <3>2, <3>3
  <2> QED
    BY <2>1, <2>2
<1> QED
  BY <1>5, <1>6, <1>7 DEF StepSound, ServerInv

LEMMA PruneSound ==
    ASSUME ServerInv, PruneCompleted
    PROVE  StepSound
<1>1. serverJobs \in [Jobs -> ServerJob \cup {NoJob}]
  BY DEF ServerInv, SoundJob
<1> QED
  BY <1>1, PruneOnlyRemoves, RemoveJobs DEF PruneCompleted

-----------------------------------------------------------------------------
(* Operations on one job                                                    *)

\* A job that is not completed and not cancelled may move to another phase.
LEMMA Moved ==
    ASSUME NEW job \in SoundJob, NEW new \in ServerJob,
           ~job.cancel, job.completedAge = None,
           new.owner = job.owner, new.cancel = job.cancel, new.budget = job.budget,
           new.completedAge = job.completedAge, new.response = job.response,
           new.phase \notin {"completed", "cancelling"},
           (new.nativeRequired \/ new.browserRequired) => new.phase \notin VpsPhases,
           (new.budget # None /\ ExecutorOf(new.phase) # None) => new.elapsed # None,
           new.rescueGranted => new.phase \in VpsPhases,
           job.rescueGranted => new.rescueGranted,
           \/ job.elapsed # None => new.elapsed = job.elapsed
           \/ ~job.rescueGranted /\ new.rescueGranted,
           \/ job.generation < new.generation
           \/ /\ job.generation = new.generation
              /\ ExecutorOf(job.phase) \in {None, ExecutorOf(new.phase)}
    PROVE  new \in SoundJob /\ Progress(job, new)
<1>1. new \in SoundJob
  BY DEF SoundJob
<1>2. /\ job.generation \in Nat /\ new.generation \in Nat
      /\ job.elapsed # None => job.elapsed \in Nat
      /\ job.response = None /\ job.phase # "completed"
  BY SoundIsPresent, <1>1 DEF SoundJob
<1>3. Progress(job, new)
  BY <1>2 DEF Progress
<1> QED
  BY <1>1, <1>3

\* What an eligible job looks like.
LEMMA EligibleSound ==
    ASSUME ServerInv, NEW j \in Jobs, NEW o \in Owners, Eligible(j, o)
    PROVE  /\ j \in Present
           /\ serverJobs[j] \in SoundJob /\ serverJobs[j] \in ServerJob
           /\ ~serverJobs[j].cancel /\ serverJobs[j].completedAge = None
           /\ serverJobs[j].generation \in Nat /\ serverJobs[j].generation + 1 \in Nat
           /\ serverJobs[j].elapsed \in Nat \cup {None}
           /\ serverJobs[j].rescueGranted => serverJobs[j].phase \in VpsPhases
           /\ serverJobs[j].phase \notin {"completed", "cancelling"}
<1>1. j \in Present /\ ~serverJobs[j].cancel /\ serverJobs[j].completedAge = None
  BY DEF Eligible, Owned
<1>2. serverJobs[j] \in SoundJob /\ serverJobs[j] \in ServerJob
  BY <1>1, PresentSound
<1>3. serverJobs[j].generation \in Nat /\ serverJobs[j].elapsed \in Nat \cup {None}
  BY <1>2 DEF ServerJob
<1>4. /\ serverJobs[j].rescueGranted => serverJobs[j].phase \in VpsPhases
      /\ serverJobs[j].phase \notin {"completed", "cancelling"}
  BY <1>1, <1>2 DEF SoundJob
<1> QED
  BY <1>1, <1>2, <1>3, <1>4

LEMMA StartedType ==
    ASSUME NEW job \in SoundJob
    PROVE  /\ Started(job) \in Nat \cup {None}
           /\ job.budget # None => Started(job) # None
           /\ job.elapsed # None => Started(job) = job.elapsed
BY AbsentJobAssumption DEF Started, SoundJob, ServerJob

LEMMA PhaseTypes ==
    /\ VpsPhases \subseteq Phases /\ AgentPhases \subseteq Phases /\ ServerlessPhases \subseteq Phases
    /\ VpsPhases \cap AgentPhases = {} /\ VpsPhases \cap ServerlessPhases = {}
    /\ {"pending", "handoff_to_agent", "cancelling", "completed"} \subseteq Phases
    /\ {"pending", "handoff_to_agent", "cancelling", "completed"}
          \cap (VpsPhases \cup AgentPhases \cup ServerlessPhases) = {}
    /\ {"vps", "agent", "serverless"} = Executors
    /\ "vps_queued" \in VpsPhases /\ "agent_waiting" \in AgentPhases
    /\ "serverless_queued" \in ServerlessPhases
BY DEF VpsPhases, AgentPhases, ServerlessPhases, Phases, Executors

LEMMA PrepareAgentSound ==
    ASSUME ServerInv, NEW j \in Jobs, NEW o \in Owners, PrepareAgent(j, o)
    PROVE  StepSound
<1> DEFINE job == serverJobs[j]
<1>1. Eligible(j, o) /\ ~job.rescueGranted
  BY DEF PrepareAgent, RescuePending
<1>2. Started(job) \in Nat \cup {None} /\ FALSE \in BOOLEAN /\ "agent_waiting" \in Phases
  BY <1>1, EligibleSound, StartedType, PhaseTypes
<1>3. CASE job.phase = "pending"
  <2> DEFINE new == [job EXCEPT !.generation = job.generation + 1, !.phase = "agent_waiting",
                                !.trusted = FALSE, !.elapsed = Started(job)]
  <2>1. serverJobs' = [serverJobs EXCEPT ![j] = new]
    BY <1>3 DEF PrepareAgent
  <2>2. new \in ServerJob
    <3>1. job \in ServerJob /\ job.generation + 1 \in Nat
      BY <1>1, EligibleSound
    <3> QED
      BY <3>1, <1>2, Zenon DEF ServerJob
  <2>3. /\ new.generation = job.generation + 1 /\ new.phase = "agent_waiting"
        /\ new.elapsed = Started(job)
        /\ new.owner = job.owner /\ new.cancel = job.cancel /\ new.budget = job.budget
        /\ new.completedAge = job.completedAge /\ new.response = job.response
        /\ new.rescueGranted = job.rescueGranted
    BY <1>1, EligibleSound DEF ServerJob
  <2> HIDE DEF new
  <2>4. new \in SoundJob /\ Progress(job, new)
    BY <1>1, <2>2, <2>3, EligibleSound, StartedType, PhaseTypes, Moved
  <2>5. j \in Present /\ ExecutorOf(new.phase) = "agent" /\ "agent" \in Executors
    BY <1>1, <2>3, EligibleSound, PhaseTypes, PhaseExecutors
  <2>6. Issue(j, "agent") /\ claims' = claims
    BY DEF PrepareAgent
  <2> QED
    BY <2>1, <2>4, <2>5, <2>6, ReplaceJob
<1>4. CASE job.phase # "pending"
  <2> DEFINE new == [job EXCEPT !.phase = "agent_waiting", !.elapsed = Started(job)]
  <2>1. /\ serverJobs' = [serverJobs EXCEPT ![j] = new]
        /\ job.phase \in {"handoff_to_agent", "agent_waiting"}
    BY <1>4 DEF PrepareAgent
  <2>2. new \in ServerJob
    <3>1. job \in ServerJob /\ job.generation + 1 \in Nat
      BY <1>1, EligibleSound
    <3> QED
      BY <3>1, <1>2, Zenon DEF ServerJob
  <2>3. /\ new.generation = job.generation /\ new.phase = "agent_waiting"
        /\ new.elapsed = Started(job)
        /\ new.owner = job.owner /\ new.cancel = job.cancel /\ new.budget = job.budget
        /\ new.completedAge = job.completedAge /\ new.response = job.response
        /\ new.rescueGranted = job.rescueGranted
    BY <1>1, EligibleSound DEF ServerJob
  <2> HIDE DEF new
  <2>4. ExecutorOf(job.phase) \in {None, ExecutorOf(new.phase)}
    BY <2>1, <2>3, PhaseExecutors, PhaseTypes
  <2>5. new \in SoundJob /\ Progress(job, new)
    BY <1>1, <2>2, <2>3, <2>4, EligibleSound, StartedType, PhaseTypes, Moved
  <2>6. j \in Present /\ ExecutorOf(new.phase) = "agent" /\ "agent" \in Executors
    BY <1>1, <2>3, EligibleSound, PhaseTypes, PhaseExecutors
  <2>7. Issue(j, "agent") /\ claims' = claims
    BY DEF PrepareAgent
  <2> QED
    BY <2>1, <2>5, <2>6, <2>7, ReplaceJob
<1> QED
  BY <1>3, <1>4

LEMMA PrepareServerlessSound ==
    ASSUME ServerInv, NEW j \in Jobs, NEW o \in Owners, PrepareServerless(j, o)
    PROVE  StepSound
<1> DEFINE job == serverJobs[j]
<1>1. Eligible(j, o) /\ ~(job.nativeRequired \/ job.browserRequired)
  BY DEF PrepareServerless, AgentOnly
<1>2. Started(job) \in Nat \cup {None} /\ FALSE \in BOOLEAN /\ "serverless_queued" \in Phases
  BY <1>1, EligibleSound, StartedType, PhaseTypes
<1>3. CASE job.phase = "pending"
  <2> DEFINE new == [job EXCEPT !.generation = job.generation + 1, !.phase = "serverless_queued",
                                !.trusted = FALSE, !.preference = FALSE,
                                !.elapsed = Started(job)]
  <2>1. serverJobs' = [serverJobs EXCEPT ![j] = new]
    BY <1>3 DEF PrepareServerless
  <2>2. new \in ServerJob
    <3>1. job \in ServerJob /\ job.generation + 1 \in Nat
      BY <1>1, EligibleSound
    <3> QED
      BY <3>1, <1>2, Zenon DEF ServerJob
  <2>3. /\ new.generation = job.generation + 1 /\ new.phase = "serverless_queued"
        /\ new.elapsed = Started(job)
        /\ new.owner = job.owner /\ new.cancel = job.cancel /\ new.budget = job.budget
        /\ new.completedAge = job.completedAge /\ new.response = job.response
        /\ new.rescueGranted = job.rescueGranted
        /\ new.nativeRequired = job.nativeRequired /\ new.browserRequired = job.browserRequired
    BY <1>1, EligibleSound DEF ServerJob
  <2> HIDE DEF new
  <2>4. new \in SoundJob /\ Progress(job, new)
    BY <1>1, <1>3, <2>2, <2>3, EligibleSound, StartedType, PhaseTypes, Moved
  <2>5. j \in Present /\ ExecutorOf(new.phase) = "serverless" /\ "serverless" \in Executors
    BY <1>1, <2>3, EligibleSound, PhaseTypes, PhaseExecutors
  <2>6. Issue(j, "serverless") /\ claims' = claims
    BY DEF PrepareServerless
  <2> QED
    BY <2>1, <2>4, <2>5, <2>6, ReplaceJob
<1>4. CASE job.phase # "pending"
  <2> DEFINE new == [job EXCEPT !.elapsed = Started(job)]
  <2>1. serverJobs' = [serverJobs EXCEPT ![j] = new] /\ job.phase = "serverless_queued"
    BY <1>4, EligibleSound DEF PrepareServerless
  <2>2. new \in ServerJob
    <3>1. job \in ServerJob /\ job.generation + 1 \in Nat
      BY <1>1, EligibleSound
    <3> QED
      BY <3>1, <1>2, Zenon DEF ServerJob
  <2>3. /\ new.generation = job.generation /\ new.phase = job.phase
        /\ new.elapsed = Started(job)
        /\ new.owner = job.owner /\ new.cancel = job.cancel /\ new.budget = job.budget
        /\ new.completedAge = job.completedAge /\ new.response = job.response
        /\ new.rescueGranted = job.rescueGranted
        /\ new.nativeRequired = job.nativeRequired /\ new.browserRequired = job.browserRequired
    BY <1>1, EligibleSound DEF ServerJob
  <2> HIDE DEF new
  <2>4. new \in SoundJob /\ Progress(job, new)
    BY <1>1, <2>1, <2>2, <2>3, EligibleSound, StartedType, PhaseTypes, Moved
  <2>5. j \in Present /\ ExecutorOf(new.phase) = "serverless" /\ "serverless" \in Executors
    BY <1>1, <2>1, <2>3, EligibleSound, PhaseTypes, PhaseExecutors
  <2>6. Issue(j, "serverless") /\ claims' = claims
    BY DEF PrepareServerless
  <2> QED
    BY <2>1, <2>4, <2>5, <2>6, ReplaceJob
<1> QED
  BY <1>3, <1>4

LEMMA PrepareVpsSound ==
    ASSUME ServerInv, NEW j \in Jobs, NEW o \in Owners, PrepareVps(j, o)
    PROVE  StepSound
<1> DEFINE job == serverJobs[j]
<1>1. Eligible(j, o) /\ ~(job.nativeRequired \/ job.browserRequired)
  BY DEF PrepareVps, AgentOnly
<1>2. Started(job) \in Nat \cup {None} /\ FALSE \in BOOLEAN /\ "vps_queued" \in Phases
  BY <1>1, EligibleSound, StartedType, PhaseTypes
<1>3. CASE job.phase = "pending"
  <2> DEFINE new == [job EXCEPT !.generation = job.generation + 1, !.phase = "vps_queued",
                                !.trusted = FALSE, !.elapsed = Started(job)]
  <2>1. serverJobs' = [serverJobs EXCEPT ![j] = new]
    BY <1>3 DEF PrepareVps
  <2>2. new \in ServerJob
    <3>1. job \in ServerJob /\ job.generation + 1 \in Nat
      BY <1>1, EligibleSound
    <3> QED
      BY <3>1, <1>2, Zenon DEF ServerJob
  <2>3. /\ new.generation = job.generation + 1 /\ new.phase = "vps_queued"
        /\ new.elapsed = Started(job)
        /\ new.owner = job.owner /\ new.cancel = job.cancel /\ new.budget = job.budget
        /\ new.completedAge = job.completedAge /\ new.response = job.response
        /\ new.rescueGranted = job.rescueGranted
        /\ new.nativeRequired = job.nativeRequired /\ new.browserRequired = job.browserRequired
    BY <1>1, EligibleSound DEF ServerJob
  <2> HIDE DEF new
  <2>4. new \in SoundJob /\ Progress(job, new)
    BY <1>1, <1>3, <2>2, <2>3, EligibleSound, StartedType, PhaseTypes, Moved
  <2>5. j \in Present /\ ExecutorOf(new.phase) = "vps" /\ "vps" \in Executors
    BY <1>1, <2>3, EligibleSound, PhaseTypes, PhaseExecutors
  <2>6. Issue(j, "vps") /\ claims' = claims
    BY DEF PrepareVps
  <2> QED
    BY <2>1, <2>4, <2>5, <2>6, ReplaceJob
<1>4. CASE job.phase # "pending"
  <2> DEFINE new == [job EXCEPT !.trusted = FALSE, !.elapsed = Started(job)]
  <2>1. serverJobs' = [serverJobs EXCEPT ![j] = new] /\ job.phase = "vps_queued"
    BY <1>4, EligibleSound DEF PrepareVps
  <2>2. new \in ServerJob
    <3>1. job \in ServerJob /\ job.generation + 1 \in Nat
      BY <1>1, EligibleSound
    <3> QED
      BY <3>1, <1>2, Zenon DEF ServerJob
  <2>3. /\ new.generation = job.generation /\ new.phase = job.phase
        /\ new.elapsed = Started(job)
        /\ new.owner = job.owner /\ new.cancel = job.cancel /\ new.budget = job.budget
        /\ new.completedAge = job.completedAge /\ new.response = job.response
        /\ new.rescueGranted = job.rescueGranted
        /\ new.nativeRequired = job.nativeRequired /\ new.browserRequired = job.browserRequired
    BY <1>1, EligibleSound DEF ServerJob
  <2> HIDE DEF new
  <2>4. new \in SoundJob /\ Progress(job, new)
    BY <1>1, <2>1, <2>2, <2>3, EligibleSound, StartedType, PhaseTypes, Moved
  <2>5. j \in Present /\ ExecutorOf(new.phase) = "vps" /\ "vps" \in Executors
    BY <1>1, <2>1, <2>3, EligibleSound, PhaseTypes, PhaseExecutors
  <2>6. Issue(j, "vps") /\ claims' = claims
    BY DEF PrepareVps
  <2> QED
    BY <2>1, <2>4, <2>5, <2>6, ReplaceJob
<1> QED
  BY <1>3, <1>4

LEMMA MarkRunningSound ==
    ASSUME ServerInv, NEW f \in fences, NEW from \in Phases, NEW to \in Phases,
           MarkRunning(f, from, to),
           \/ from \in VpsPhases /\ to \in VpsPhases
           \/ from \in AgentPhases /\ to \in AgentPhases
           \/ from \in ServerlessPhases /\ to \in ServerlessPhases
    PROVE  StepSound
<1> DEFINE j == f.job
           job == serverJobs[j]
           new == [job EXCEPT !.phase = to]
<1>1. j \in Jobs /\ f.owner \in Owners
  BY DEF ServerInv, Fence
<1>2. Eligible(j, f.owner) /\ job.phase = from
  BY DEF MarkRunning, Matches, Eligible
<1>3. serverJobs' = [serverJobs EXCEPT ![j] = new] /\ fences' = fences /\ claims' = claims
  BY <1>1 DEF MarkRunning, ServerInv
<1>4. new \in ServerJob
  <2>1. job \in ServerJob /\ to \in Phases
    BY <1>1, <1>2, EligibleSound
  <2> QED
    BY <2>1, Zenon DEF ServerJob
<1>5. /\ new.generation = job.generation /\ new.phase = to /\ new.elapsed = job.elapsed
      /\ new.owner = job.owner /\ new.cancel = job.cancel /\ new.budget = job.budget
      /\ new.completedAge = job.completedAge /\ new.response = job.response
      /\ new.rescueGranted = job.rescueGranted
      /\ new.nativeRequired = job.nativeRequired /\ new.browserRequired = job.browserRequired
  BY <1>1, <1>2, EligibleSound DEF ServerJob
<1>6. /\ to \in VpsPhases => from \in VpsPhases
      /\ from \in VpsPhases => to \in VpsPhases
      /\ to \notin {"completed", "cancelling"}
      /\ ExecutorOf(from) = ExecutorOf(to) /\ ExecutorOf(from) # None
  BY PhaseTypes, PhaseExecutors, AbsentJobAssumption
<1>7. /\ (job.nativeRequired \/ job.browserRequired) => job.phase \notin VpsPhases
      /\ job.budget # None => job.elapsed # None
  BY <1>1, <1>2, <1>6, EligibleSound DEF SoundJob
<1> HIDE DEF new
<1>8. new \in SoundJob /\ Progress(job, new)
  BY <1>1, <1>2, <1>4, <1>5, <1>6, <1>7, EligibleSound, Moved
<1> QED
  BY <1>1, <1>2, <1>3, <1>8, EligibleSound, ReplaceJob

LEMMA FallbackServerlessSound ==
    ASSUME ServerInv, NEW f \in fences, FallbackServerlessToVps(f)
    PROVE  StepSound
<1> DEFINE j == f.job
           job == serverJobs[j]
           new == [job EXCEPT !.generation = job.generation + 1, !.phase = "vps_queued",
                              !.trusted = FALSE, !.preference = FALSE]
<1>1. j \in Jobs /\ f.owner \in Owners
  BY DEF ServerInv, Fence
<1>2. /\ Eligible(j, f.owner) /\ job.phase \in ServerlessPhases
      /\ ~job.nativeRequired /\ ~job.browserRequired
      /\ serverJobs' = [serverJobs EXCEPT ![j] = new]
      /\ Issue(j, "vps") /\ claims' = claims
  BY DEF FallbackServerlessToVps, FallbackEligible, AgentOnly
<1>3. /\ job \in ServerJob /\ job.generation + 1 \in Nat
      /\ FALSE \in BOOLEAN /\ "vps_queued" \in Phases
  BY <1>1, <1>2, EligibleSound, PhaseTypes
<1>4. new \in ServerJob
  BY <1>3, Zenon DEF ServerJob
<1>5. /\ new.generation = job.generation + 1 /\ new.phase = "vps_queued"
      /\ new.elapsed = job.elapsed
      /\ new.owner = job.owner /\ new.cancel = job.cancel /\ new.budget = job.budget
      /\ new.completedAge = job.completedAge /\ new.response = job.response
      /\ new.rescueGranted = job.rescueGranted
      /\ new.nativeRequired = job.nativeRequired /\ new.browserRequired = job.browserRequired
  BY <1>1, <1>2, EligibleSound DEF ServerJob
<1>6. job.budget # None => job.elapsed # None
  <2>1. job \in SoundJob /\ ExecutorOf(job.phase) # None
    BY <1>1, <1>2, EligibleSound, PhaseExecutors, PhaseTypes, AbsentJobAssumption
  <2> QED
    BY <2>1 DEF SoundJob
<1> HIDE DEF new
<1>7. new \in SoundJob /\ Progress(job, new)
  BY <1>1, <1>2, <1>4, <1>5, <1>6, EligibleSound, PhaseTypes, Moved
<1>8. j \in Present /\ ExecutorOf(new.phase) = "vps" /\ "vps" \in Executors
  BY <1>1, <1>2, <1>5, EligibleSound, PhaseTypes, PhaseExecutors
<1> QED
  BY <1>2, <1>7, <1>8, ReplaceJob

LEMMA FallbackAgentSound ==
    ASSUME ServerInv, NEW f \in fences, FallbackAgentToVps(f)
    PROVE  StepSound
<1> DEFINE j == f.job
           job == serverJobs[j]
           rescue == job.rescueRequested /\ ~job.rescueGranted
           e == IF rescue THEN 0 ELSE job.elapsed
           p == IF rescue THEN FALSE ELSE job.preference
           g == IF rescue THEN TRUE ELSE job.rescueGranted
           new == [job EXCEPT !.generation = job.generation + 1, !.phase = "vps_queued",
                              !.trusted = FALSE, !.elapsed = e, !.preference = p,
                              !.rescueGranted = g, !.rescueRequested = FALSE]
<1>1. j \in Jobs /\ f.owner \in Owners
  BY DEF ServerInv, Fence
<1>2. /\ Eligible(j, f.owner) /\ job.phase \in AgentPhases
      /\ ~job.nativeRequired /\ ~job.browserRequired
      /\ serverJobs' = [serverJobs EXCEPT ![j] = new]
      /\ Issue(j, "vps") /\ claims' = claims
  BY DEF FallbackAgentToVps, FallbackEligible, AgentOnly
<1>3. /\ e \in Nat \cup {None} /\ p \in BOOLEAN /\ g \in BOOLEAN
      /\ FALSE \in BOOLEAN /\ "vps_queued" \in Phases
  BY <1>1, <1>2, EligibleSound, PhaseTypes DEF ServerJob
<1>4. /\ job.budget # None => job.elapsed # None
      /\ ~job.rescueGranted
  BY <1>1, <1>2, EligibleSound, PhaseTypes, PhaseExecutors, AbsentJobAssumption
     DEF SoundJob, Executors
<1>5. /\ rescue => e # None /\ g
      /\ ~rescue => e = job.elapsed
      /\ g => "vps_queued" \in VpsPhases
  BY <1>4, AbsentJobAssumption, PhaseTypes
<1> HIDE DEF e, p, g
<1>7. new \in ServerJob
  <2> DEFINE moved == [job EXCEPT !.generation = job.generation + 1, !.phase = "vps_queued",
                                  !.trusted = FALSE, !.elapsed = e]
  <2>1. job \in ServerJob /\ job.generation + 1 \in Nat
    BY <1>1, <1>2, EligibleSound
  <2>2. moved \in ServerJob
    BY <1>3, <2>1, Zenon DEF ServerJob
  <2>3. new = [moved EXCEPT !.preference = p, !.rescueGranted = g, !.rescueRequested = FALSE]
    BY Zenon
  <2> HIDE DEF moved
  <2>4. [moved EXCEPT !.preference = p, !.rescueGranted = g, !.rescueRequested = FALSE]
           \in ServerJob
    BY <1>3, <2>2, ZenonT(40) DEF ServerJob
  <2> QED
    BY <2>3, <2>4
<1>8. /\ new.generation = job.generation + 1 /\ new.phase = "vps_queued"
      /\ new.elapsed = e
      /\ new.owner = job.owner /\ new.cancel = job.cancel /\ new.budget = job.budget
      /\ new.completedAge = job.completedAge /\ new.response = job.response
      /\ new.rescueGranted = g
      /\ new.nativeRequired = job.nativeRequired /\ new.browserRequired = job.browserRequired
  BY <1>1, <1>2, EligibleSound DEF ServerJob
<1> HIDE DEF new, rescue
<1>9. new \in SoundJob /\ Progress(job, new)
  BY <1>1, <1>2, <1>4, <1>5, <1>7, <1>8, EligibleSound, PhaseTypes, Moved
<1>10. j \in Present /\ ExecutorOf(new.phase) = "vps" /\ "vps" \in Executors
  BY <1>1, <1>2, <1>8, EligibleSound, PhaseTypes, PhaseExecutors
<1> QED
  BY <1>2, <1>9, <1>10, ReplaceJob

LEMMA RescueSound ==
    ASSUME ServerInv, NEW j \in Jobs, NEW o \in Owners, RequestRescue(j, o)
    PROVE  StepSound
<1> DEFINE job == serverJobs[j]
           new == [job EXCEPT !.rescueRequested = TRUE, !.preference = FALSE]
<1>1. Eligible(j, o) /\ job \in ServerJob /\ job \in SoundJob /\ j \in Present
  BY EligibleSound DEF RequestRescue
<1>2. serverJobs' = [serverJobs EXCEPT ![j] = new] /\ fences' = fences /\ claims' = claims
  BY DEF RequestRescue, ServerInv
<1>3. new \in ServerJob
  BY <1>1, Zenon DEF ServerJob
<1>4. /\ new.generation = job.generation /\ new.phase = job.phase /\ new.elapsed = job.elapsed
      /\ new.owner = job.owner /\ new.cancel = job.cancel /\ new.budget = job.budget
      /\ new.completedAge = job.completedAge /\ new.response = job.response
      /\ new.rescueGranted = job.rescueGranted
      /\ new.nativeRequired = job.nativeRequired /\ new.browserRequired = job.browserRequired
  BY <1>1 DEF ServerJob
<1> HIDE DEF new
<1>5. new \in SoundJob
  BY <1>1, <1>3, <1>4 DEF SoundJob
<1>6. Progress(job, new)
  BY <1>1, <1>4, KeptProgress DEF Progress
<1> QED
  BY <1>1, <1>2, <1>5, <1>6, ReplaceJob

LEMMA CancelSound ==
    ASSUME ServerInv, NEW j \in Jobs, NEW o \in Owners, CancelServerJob(j, o)
    PROVE  StepSound
<1> DEFINE job == serverJobs[j]
           new == [job EXCEPT !.cancel = TRUE, !.generation = job.generation + 1,
                              !.phase = "cancelling"]
<1>1. j \in Present /\ job \in SoundJob /\ job \in ServerJob /\ job.generation \in Nat
  BY PresentSound, SoundIsPresent DEF CancelServerJob, Owned
<1>2. CASE job.response # None
  <2>1. /\ serverJobs' = [serverJobs EXCEPT ![j] = NoJob]
        /\ UNCHANGED <<fences, claims>>
    BY <1>2 DEF CancelServerJob
  <2> QED
    BY <2>1, RemoveJobs DEF ServerInv, SoundJob
<1>3. CASE job.response = None
  <2>1. serverJobs' = [serverJobs EXCEPT ![j] = new] /\ fences' = fences /\ claims' = claims
    BY <1>3 DEF CancelServerJob
  <2>2. job.generation + 1 \in Nat /\ TRUE \in BOOLEAN /\ "cancelling" \in Phases
    BY <1>1, PhaseTypes
  <2>3. new \in ServerJob
    BY <1>1, <2>2, Zenon DEF ServerJob
  <2>4. /\ new.generation = job.generation + 1 /\ new.phase = "cancelling"
        /\ new.elapsed = job.elapsed /\ new.cancel
        /\ new.owner = job.owner /\ new.budget = job.budget
        /\ new.completedAge = job.completedAge /\ new.response = job.response
        /\ new.rescueGranted = job.rescueGranted
    BY <1>1 DEF ServerJob
  <2> HIDE DEF new
  <2>5. new.phase \notin VpsPhases /\ ExecutorOf(new.phase) = None
    BY <2>4, PhaseTypes, PhaseExecutors
  <2>6. new \in SoundJob
    BY <1>1, <1>3, <2>3, <2>4, <2>5 DEF SoundJob
  <2>7. Progress(job, new)
    BY <1>1, <1>3, <2>4, KeptProgress DEF Progress
  <2> QED
    BY <1>1, <2>1, <2>6, <2>7, ReplaceJob
<1> QED
  BY <1>2, <1>3

LEMMA StopSound ==
    ASSUME ServerInv, NEW j \in Jobs, NEW o \in Owners, RequestBestEffortStop(j, o)
    PROVE  StepSound
<1> DEFINE job == serverJobs[j]
           new == [job EXCEPT !.stop = TRUE]
<1>1. Eligible(j, o) /\ job \in ServerJob /\ job \in SoundJob /\ j \in Present
  BY EligibleSound DEF RequestBestEffortStop
<1>2. serverJobs' = [serverJobs EXCEPT ![j] = new] /\ fences' = fences /\ claims' = claims
  BY DEF RequestBestEffortStop, ServerInv
<1>3. new \in ServerJob
  BY <1>1, Zenon DEF ServerJob
<1>4. /\ new.generation = job.generation /\ new.phase = job.phase /\ new.elapsed = job.elapsed
      /\ new.owner = job.owner /\ new.cancel = job.cancel /\ new.budget = job.budget
      /\ new.completedAge = job.completedAge /\ new.response = job.response
      /\ new.rescueGranted = job.rescueGranted
      /\ new.nativeRequired = job.nativeRequired /\ new.browserRequired = job.browserRequired
  BY <1>1 DEF ServerJob
<1> HIDE DEF new
<1>5. new \in SoundJob
  BY <1>1, <1>3, <1>4 DEF SoundJob
<1>6. Progress(job, new)
  BY <1>1, <1>4, KeptProgress DEF Progress
<1> QED
  BY <1>1, <1>2, <1>5, <1>6, ReplaceJob

LEMMA AbandonSound ==
    ASSUME ServerInv, NEW j \in Jobs, NEW o \in Owners, Abandon(j, o)
    PROVE  StepSound
BY RemoveJobs DEF Abandon, ServerInv, SoundJob

LEMMA CompleteSound ==
    ASSUME ServerInv, NEW f \in fences, CompleteFenced(f)
    PROVE  StepSound
<1> DEFINE j == f.job
           job == serverJobs[j]
           new == [job EXCEPT !.response = f, !.completedAge = 0, !.phase = "completed"]
           sj == [serverJobs EXCEPT ![j] = new]
<1>1. f \in Fence /\ j \in Jobs
  BY DEF ServerInv, Fence
<1>2. /\ j \in Present /\ job \in SoundJob /\ job \in ServerJob
      /\ f.generation = job.generation /\ job.generation \in Nat
      /\ ~job.cancel /\ job.completedAge = None
  BY PresentSound, SoundIsPresent DEF CompleteFenced, Matches, Owned
<1>3. serverJobs' \in Pruned(sj) /\ fences' = fences /\ claims' = claims
  BY DEF CompleteFenced
<1>4. f \in Fence \cup {None} /\ 0 \in Nat \cup {None} /\ "completed" \in Phases
  BY <1>1, PhaseTypes
<1>5. new \in ServerJob
  <2>1. job \in ServerJob
    BY <1>2
  <2> QED
    BY <1>4, <2>1, Zenon DEF ServerJob
<1>6. /\ new.generation = job.generation /\ new.phase = "completed" /\ new.elapsed = job.elapsed
      /\ new.owner = job.owner /\ new.cancel = job.cancel /\ new.budget = job.budget
      /\ new.completedAge = 0 /\ new.response = f
      /\ new.rescueGranted = job.rescueGranted
  BY <1>2 DEF ServerJob
<1> HIDE DEF new
<1>7. new.phase \notin VpsPhases /\ ExecutorOf(new.phase) = None /\ 0 # None /\ f # None
  BY <1>1, <1>6, PhaseTypes, PhaseExecutors, AbsentJobAssumption
<1>8. new \in SoundJob
  BY <1>2, <1>5, <1>6, <1>7 DEF SoundJob
<1>9. job.response = None /\ job.phase # "completed"
  BY <1>2 DEF SoundJob
<1>10. Progress(job, new)
  BY <1>2, <1>6, <1>9, KeptProgress DEF Progress
<1>11. /\ sj \in [Jobs -> ServerJob \cup {NoJob}] /\ sj \in [Jobs -> SoundJob \cup {NoJob}]
       /\ sj[j] = new /\ \A i \in Jobs \ {j} : sj[i] = serverJobs[i]
  BY <1>1, <1>8, SoundIsPresent DEF ServerInv
<1> HIDE DEF sj
<1>12. /\ serverJobs' \in [Jobs -> SoundJob \cup {NoJob}]
       /\ \A i \in Jobs : serverJobs'[i] = sj[i] \/ serverJobs'[i] = NoJob
  BY <1>3, <1>11, PruneOnlyRemoves
<1>13. ASSUME NEW i \in Jobs PROVE Change(i)
  <2>1. CASE serverJobs'[i] = NoJob
    BY <1>3, <2>1 DEF Change
  <2>2. CASE serverJobs'[i] # NoJob /\ i = j
    BY <1>2, <1>3, <1>10, <1>11, <1>12, <2>2 DEF Change
  <2>3. CASE serverJobs'[i] # NoJob /\ i # j
    <3>1. serverJobs'[i] = serverJobs[i] /\ i \in Present
      BY <1>11, <1>12, <2>3 DEF Present
    <3> QED
      BY <1>3, <2>3, <3>1, PresentSound, KeptProgress DEF Change
  <2> QED
    BY <2>1, <2>2, <2>3
<1> QED
  BY <1>3, <1>12, <1>13 DEF StepSound, ServerInv

\* A change of contract touches only flags.
LEMMA Recontracted ==
    ASSUME NEW job \in SoundJob, NEW new \in ServerJob, job.completedAge = None,
           new.owner = job.owner, new.generation = job.generation, new.cancel = job.cancel,
           new.phase = job.phase, new.elapsed = job.elapsed, new.budget = job.budget,
           new.completedAge = job.completedAge, new.response = job.response,
           (new.nativeRequired \/ new.browserRequired) => new.phase \notin VpsPhases,
           new.rescueGranted => job.rescueGranted,
           job.phase \in VpsPhases => new.rescueGranted = job.rescueGranted
    PROVE  new \in SoundJob /\ Progress(job, new)
<1>1. new \in SoundJob
  BY DEF SoundJob
<1>2. (job.rescueGranted /\ ~job.cancel) => job.phase \in VpsPhases
  BY DEF SoundJob
<1>3. Progress(job, new)
  BY <1>2, KeptProgress DEF Progress
<1> QED
  BY <1>1, <1>3

LEMMA ContractSound ==
    ASSUME ServerInv, NEW j \in Jobs, NEW o \in Owners, NEW b \in BOOLEAN,
           \/ SetAgentPreference(j, o, b)
           \/ SetNativeAgentRequired(j, o, b)
           \/ SetBrowserAgentRequired(j, o, b)
    PROVE  StepSound
<1> DEFINE job == serverJobs[j]
<1>typed. job \in ServerJob
  BY PresentSound DEF SetAgentPreference, SetNativeAgentRequired, SetBrowserAgentRequired, Owned
<1>bools. FALSE \in BOOLEAN /\ TRUE \in BOOLEAN
  OBVIOUS
<1>1. /\ j \in Present /\ job \in SoundJob /\ job \in ServerJob /\ job.completedAge = None
      /\ (job.nativeRequired \/ job.browserRequired) => job.phase \notin VpsPhases
      /\ fences' = fences /\ claims' = claims
  <2>1. j \in Present /\ job.completedAge = None /\ fences' = fences /\ claims' = claims
    BY DEF SetAgentPreference, SetNativeAgentRequired, SetBrowserAgentRequired, Owned, IsOpen
  <2> QED
    BY <2>1, PresentSound DEF SoundJob
<1>2. ASSUME NEW new \in ServerJob, serverJobs' = [serverJobs EXCEPT ![j] = new],
             new.owner = job.owner, new.generation = job.generation, new.cancel = job.cancel,
             new.phase = job.phase, new.elapsed = job.elapsed, new.budget = job.budget,
             new.completedAge = job.completedAge, new.response = job.response,
             (new.nativeRequired \/ new.browserRequired) => new.phase \notin VpsPhases,
             new.rescueGranted => job.rescueGranted,
             job.phase \in VpsPhases => new.rescueGranted = job.rescueGranted
      PROVE  StepSound
  <2>1. new \in SoundJob /\ Progress(job, new)
    BY <1>1, <1>2, Recontracted
  <2> QED
    BY <1>1, <1>2, <2>1, ReplaceJob
<1>3. CASE SetAgentPreference(j, o, b)
  <2> DEFINE new == [job EXCEPT !.preference = b]
  <2>1. serverJobs' = [serverJobs EXCEPT ![j] = new]
    BY <1>3 DEF SetAgentPreference, ServerInv
  <2>2. new \in ServerJob
    BY <1>typed, <1>bools, Zenon DEF ServerJob
  <2>3. /\ new.owner = job.owner /\ new.generation = job.generation /\ new.cancel = job.cancel
        /\ new.phase = job.phase /\ new.elapsed = job.elapsed /\ new.budget = job.budget
        /\ new.completedAge = job.completedAge /\ new.response = job.response
        /\ new.nativeRequired = job.nativeRequired /\ new.browserRequired = job.browserRequired
        /\ new.rescueGranted = job.rescueGranted
    BY <1>1 DEF ServerJob
  <2> HIDE DEF new
  <2> QED
    BY <1>1, <1>2, <2>1, <2>2, <2>3
<1>4. ASSUME NEW native \in BOOLEAN, NEW browser \in BOOLEAN, job.phase \notin VpsPhases,
             serverJobs' = [serverJobs EXCEPT ![j] = Contracted(job, native, browser)]
      PROVE  StepSound
  <2> DEFINE new == Contracted(job, native, browser)
  <2>1. serverJobs' = [serverJobs EXCEPT ![j] = new]
    BY <1>4
  <2>2. new \in ServerJob
    <3> DEFINE marked == [job EXCEPT !.nativeRequired = native, !.browserRequired = browser,
                                     !.preference = TRUE]
    <3>1. marked \in ServerJob
      BY <1>typed, <1>bools, Zenon DEF ServerJob
    <3>2. new = [marked EXCEPT !.trusted = FALSE, !.rescueRequested = FALSE,
                               !.rescueGranted = FALSE]
      BY Zenon DEF Contracted
    <3> HIDE DEF marked
    <3>3. [marked EXCEPT !.trusted = FALSE, !.rescueRequested = FALSE,
                         !.rescueGranted = FALSE] \in ServerJob
      BY <3>1, <1>bools, Zenon DEF ServerJob
    <3> QED
      BY <3>2, <3>3
  <2>3. /\ new.owner = job.owner /\ new.generation = job.generation /\ new.cancel = job.cancel
        /\ new.phase = job.phase /\ new.elapsed = job.elapsed /\ new.budget = job.budget
        /\ new.completedAge = job.completedAge /\ new.response = job.response
        /\ new.rescueGranted = FALSE
    BY <1>1 DEF ServerJob, Contracted
  <2> HIDE DEF new
  <2> QED
    BY <1>2, <1>4, <2>1, <2>2, <2>3
<1>5. CASE SetNativeAgentRequired(j, o, b)
  <2>1. CASE b
    BY <1>1, <1>4, <1>5, <2>1 DEF SetNativeAgentRequired
  <2>2. CASE ~b
    <3> DEFINE new == [job EXCEPT !.nativeRequired = FALSE]
    <3>1. serverJobs' = [serverJobs EXCEPT ![j] = new]
      BY <1>5, <2>2 DEF SetNativeAgentRequired
    <3>2. new \in ServerJob
      BY <1>typed, <1>bools, Zenon DEF ServerJob
    <3>3. /\ new.owner = job.owner /\ new.generation = job.generation /\ new.cancel = job.cancel
          /\ new.phase = job.phase /\ new.elapsed = job.elapsed /\ new.budget = job.budget
          /\ new.completedAge = job.completedAge /\ new.response = job.response
          /\ new.nativeRequired = FALSE /\ new.browserRequired = job.browserRequired
          /\ new.rescueGranted = job.rescueGranted
      BY <1>1 DEF ServerJob
    <3> HIDE DEF new
    <3> QED
      BY <1>1, <1>2, <3>1, <3>2, <3>3
  <2> QED
    BY <2>1, <2>2
<1>6. CASE SetBrowserAgentRequired(j, o, b)
  <2>1. CASE b
    BY <1>1, <1>4, <1>6, <2>1 DEF SetBrowserAgentRequired
  <2>2. CASE ~b
    <3> DEFINE new == [job EXCEPT !.browserRequired = FALSE]
    <3>1. serverJobs' = [serverJobs EXCEPT ![j] = new]
      BY <1>6, <2>2 DEF SetBrowserAgentRequired
    <3>2. new \in ServerJob
      BY <1>typed, <1>bools, Zenon DEF ServerJob
    <3>3. /\ new.owner = job.owner /\ new.generation = job.generation /\ new.cancel = job.cancel
          /\ new.phase = job.phase /\ new.elapsed = job.elapsed /\ new.budget = job.budget
          /\ new.completedAge = job.completedAge /\ new.response = job.response
          /\ new.nativeRequired = job.nativeRequired /\ new.browserRequired = FALSE
          /\ new.rescueGranted = job.rescueGranted
      BY <1>1 DEF ServerJob
    <3> HIDE DEF new
    <3> QED
      BY <1>1, <1>2, <3>1, <3>2, <3>3
  <2> QED
    BY <2>1, <2>2
<1> QED
  BY <1>3, <1>5, <1>6

-----------------------------------------------------------------------------
(* Operations on several jobs                                               *)

\* A step that changes some jobs and issues no fence.
LEMMA ReplaceJobs ==
    ASSUME ServerInv, NEW js \in SUBSET Present,
           serverJobs' \in [Jobs -> ServerJob \cup {NoJob}],
           \A i \in js : serverJobs'[i] \in SoundJob /\ Progress(serverJobs[i], serverJobs'[i]),
           \A i \in Jobs \ js : serverJobs'[i] = serverJobs[i],
           UNCHANGED <<fences, claims>>
    PROVE  StepSound
<1>1. ServerInv'
  BY DEF ServerInv
<1>2. ASSUME NEW i \in Jobs PROVE Change(i)
  <2>1. CASE i \in js
    BY <2>1, SoundIsPresent DEF Change
  <2>2. CASE i \notin js /\ i \in Present
    BY <2>2, PresentSound, KeptProgress, SoundIsPresent DEF Change
  <2>3. CASE i \notin js /\ i \notin Present
    BY <2>3 DEF Change, Present
  <2> QED
    BY <2>1, <2>2, <2>3
<1> QED
  BY <1>1, <1>2 DEF StepSound

LEMMA HandoffSound ==
    ASSUME ServerInv, NEW js \in SUBSET Jobs, NEW trusted \in BOOLEAN, HandoffTo(js, trusted),
           \A j \in js : HandoffEligible(j)
    PROVE  StepSound
<1>1. ASSUME NEW j \in js
      PROVE  /\ j \in Present
             /\ HandedOff(serverJobs[j], trusted) \in SoundJob
             /\ Progress(serverJobs[j], HandedOff(serverJobs[j], trusted))
  <2> DEFINE job == serverJobs[j]
             new == [job EXCEPT !.generation = job.generation + 1, !.phase = "handoff_to_agent",
                                !.trusted = trusted]
  <2>1. j \in Jobs /\ Eligible(j, job.owner) /\ ~job.rescueGranted /\ job.owner \in Owners
    BY PresentSound DEF HandoffEligible, IsOpen, RescuePending, Eligible, Owned, ServerJob
  <2>2. /\ j \in Present /\ job \in ServerJob /\ job \in SoundJob
        /\ job.generation + 1 \in Nat /\ "handoff_to_agent" \in Phases
    BY <2>1, EligibleSound, PhaseTypes
  <2>3. new \in ServerJob
    BY <2>2, Zenon DEF ServerJob
  <2>4. /\ new.generation = job.generation + 1 /\ new.phase = "handoff_to_agent"
        /\ new.elapsed = job.elapsed
        /\ new.owner = job.owner /\ new.cancel = job.cancel /\ new.budget = job.budget
        /\ new.completedAge = job.completedAge /\ new.response = job.response
        /\ new.rescueGranted = job.rescueGranted
    BY <2>2 DEF ServerJob
  <2>5. HandedOff(job, trusted) = new
    BY DEF HandedOff
  <2> HIDE DEF new
  <2>6. new.phase \notin VpsPhases /\ ExecutorOf(new.phase) = None
    BY <2>4, PhaseTypes, PhaseExecutors
  <2>7. new \in SoundJob /\ Progress(job, new)
    BY <2>1, <2>2, <2>3, <2>4, <2>6, EligibleSound, Moved
  <2> QED
    BY <2>2, <2>5, <2>7
<1>2. /\ UNCHANGED <<fences, claims>>
      /\ \A i \in js : serverJobs'[i] = HandedOff(serverJobs[i], trusted)
      /\ \A i \in Jobs \ js : serverJobs'[i] = serverJobs[i]
  BY DEF HandoffTo
<1>3. serverJobs' \in [Jobs -> ServerJob \cup {NoJob}]
  BY <1>1, SoundIsPresent DEF HandoffTo, ServerInv
<1> QED
  BY <1>1, <1>2, <1>3, ReplaceJobs

LEMMA AgeSound ==
    ASSUME ServerInv, AgeServerJobs
    PROVE  StepSound
<1>1. ASSUME NEW j \in Present
      PROVE  /\ serverJobs'[j] \in SoundJob
             /\ Progress(serverJobs[j], serverJobs'[j])
  <2> DEFINE job == serverJobs[j]
             c == IF job.completedAge # None /\ job.completedAge <= ResultTTL
                  THEN job.completedAge + 1 ELSE job.completedAge
             e == IF job.elapsed # None /\ job.elapsed < job.budget
                  THEN job.elapsed + 1 ELSE job.elapsed
             new == [job EXCEPT !.completedAge = c, !.elapsed = e]
  <2>1. j \in Jobs /\ job \in SoundJob /\ job \in ServerJob
    BY PresentSound
  <2>2. job.completedAge \in Nat \cup {None} /\ job.elapsed \in Nat \cup {None}
    BY <2>1 DEF ServerJob
  <2>3. /\ c \in Nat \cup {None} /\ e \in Nat \cup {None}
        /\ c = None <=> job.completedAge = None
        /\ e = None <=> job.elapsed = None
        /\ e # None => job.elapsed <= e
    BY <2>2, AbsentJobAssumption
  <2>4. serverJobs'[j] = new
    BY <2>1 DEF AgeServerJobs
  <2> HIDE DEF c, e
  <2>5. new \in ServerJob
    BY <2>1, <2>3, Zenon DEF ServerJob
  <2>6. /\ new.generation = job.generation /\ new.phase = job.phase /\ new.elapsed = e
        /\ new.owner = job.owner /\ new.cancel = job.cancel /\ new.budget = job.budget
        /\ new.completedAge = c /\ new.response = job.response
        /\ new.rescueGranted = job.rescueGranted
        /\ new.nativeRequired = job.nativeRequired /\ new.browserRequired = job.browserRequired
    BY <2>1 DEF ServerJob
  <2> HIDE DEF new
  <2>7. new \in SoundJob
    BY <2>1, <2>3, <2>5, <2>6 DEF SoundJob
  <2>8. Progress(job, new)
    <3>1. ~(job.elapsed # None /\ (new.elapsed = None \/ new.elapsed < job.elapsed))
      BY <2>2, <2>3, <2>6
    <3> QED
      BY <2>1, <2>6, <3>1, KeptProgress DEF Progress
  <2> QED
    BY <2>4, <2>7, <2>8
<1>2. \A i \in Jobs \ Present : serverJobs'[i] = serverJobs[i]
  BY DEF AgeServerJobs, Present
<1>3. serverJobs' \in [Jobs -> ServerJob \cup {NoJob}]
  BY <1>1, <1>2, SoundIsPresent DEF AgeServerJobs, Present
<1>4. Present \in SUBSET Present /\ UNCHANGED <<fences, claims>>
  BY DEF AgeServerJobs
<1> QED
  BY <1>1, <1>2, <1>3, <1>4, ReplaceJobs

-----------------------------------------------------------------------------
LEMMA JobStepSound ==
    ASSUME ServerInv, NEW j \in Jobs, NEW o \in Owners, JobStep(j, o)
    PROVE  StepSound
<1>1. ASSUME NEW scope \in Scopes \cup {None}, NEW fingerprint \in Fingerprints \cup {None},
             NEW budget \in Budgets \cup {None}, Claim(j, o, scope, fingerprint, budget)
      PROVE  StepSound
  BY <1>1, ClaimSound
<1>2. ASSUME NEW b \in BOOLEAN,
             \/ SetAgentPreference(j, o, b)
             \/ SetNativeAgentRequired(j, o, b)
             \/ SetBrowserAgentRequired(j, o, b)
      PROVE  StepSound
  BY <1>2, ContractSound
<1>3. ASSUME JobHandoffEligible(j, o), HandoffTo({j}, FALSE) PROVE StepSound
  <2>1. {j} \in SUBSET Jobs /\ \A i \in {j} : HandoffEligible(i)
    BY <1>3 DEF JobHandoffEligible
  <2> QED
    BY <1>3, <2>1, HandoffSound
<1>4. CASE PrepareAgent(j, o)
  BY <1>4, PrepareAgentSound
<1>5. CASE PrepareServerless(j, o)
  BY <1>5, PrepareServerlessSound
<1>6. CASE PrepareVps(j, o)
  BY <1>6, PrepareVpsSound
<1>7. CASE RequestRescue(j, o)
  BY <1>7, RescueSound
<1>8. CASE CancelServerJob(j, o)
  BY <1>8, CancelSound
<1>9. CASE RequestBestEffortStop(j, o)
  BY <1>9, StopSound
<1>10. CASE Abandon(j, o)
  BY <1>10, AbandonSound
<1> QED
  BY <1>1, <1>2, <1>3, <1>4, <1>5, <1>6, <1>7, <1>8, <1>9, <1>10 DEF JobStep

LEMMA FenceStepSound ==
    ASSUME ServerInv, NEW f \in fences, FenceStep(f)
    PROVE  StepSound
<1>1. /\ {"agent_waiting", "agent_running"} \subseteq AgentPhases
      /\ {"serverless_queued", "serverless_running"} \subseteq ServerlessPhases
      /\ {"vps_queued", "vps_running"} \subseteq VpsPhases
  BY DEF AgentPhases, ServerlessPhases, VpsPhases
<1>2. CASE MarkAgentRunning(f)
  BY <1>1, <1>2, PhaseTypes, MarkRunningSound DEF MarkAgentRunning
<1>3. CASE MarkServerlessRunning(f)
  BY <1>1, <1>3, PhaseTypes, MarkRunningSound DEF MarkServerlessRunning
<1>4. CASE MarkVpsRunning(f)
  BY <1>1, <1>4, PhaseTypes, MarkRunningSound DEF MarkVpsRunning
<1>5. CASE FallbackServerlessToVps(f)
  BY <1>5, FallbackServerlessSound
<1>6. CASE FallbackAgentToVps(f)
  BY <1>6, FallbackAgentSound
<1>7. CASE CompleteFenced(f)
  BY <1>7, CompleteSound
<1> QED
  BY <1>2, <1>3, <1>4, <1>5, <1>6, <1>7 DEF FenceStep

LEMMA NextSound ==
    ASSUME ServerInv, [ServerNext]_serverVars
    PROVE  StepSound
<1>1. ASSUME NEW j \in Jobs, NEW o \in Owners, JobStep(j, o) PROVE StepSound
  BY <1>1, JobStepSound
<1>2. ASSUME NEW f \in fences, FenceStep(f) PROVE StepSound
  BY <1>2, FenceStepSound
<1>3. ASSUME NEW o \in Owners, HandoffTo(OwnerHandoffJobs(o), FALSE) PROVE StepSound
  <2> DEFINE js == OwnerHandoffJobs(o)
  <2>1. js \in SUBSET Jobs /\ \A i \in js : HandoffEligible(i)
    BY DEF OwnerHandoffJobs
  <2>2. HandoffTo(js, FALSE)
    BY <1>3
  <2> HIDE DEF js
  <2> QED
    BY <2>1, <2>2, HandoffSound
<1>4. ASSUME NEW js \in SUBSET Jobs, TrustedHandoff(js) PROVE StepSound
  BY <1>4, HandoffSound DEF TrustedHandoff, TrustedHandoffEligible
<1>5. CASE PruneCompleted
  BY <1>5, PruneSound
<1>6. CASE AgeServerJobs
  BY <1>6, AgeSound
<1>7. CASE UNCHANGED serverVars
  <2>1. serverJobs' = serverJobs /\ UNCHANGED <<fences, claims>>
    BY <1>7 DEF serverVars
  <2>2. serverJobs' \in [Jobs -> ServerJob \cup {NoJob}]
    BY <2>1 DEF ServerInv, SoundJob
  <2> QED
    BY <2>1, <2>2, RemoveJobs
<1> QED
  BY <1>1, <1>2, <1>3, <1>4, <1>5, <1>6, <1>7 DEF ServerNext

LEMMA InitSound ==
    ASSUME ServerInit
    PROVE  ServerInv
BY DEF ServerInit, ServerInv

THEOREM ServerSoundness == ServerSpec => []ServerInv
<1>1. ServerInit => ServerInv
  BY InitSound
<1>2. ServerInv /\ [ServerNext]_serverVars => ServerInv'
  BY NextSound DEF StepSound
<1> QED
  BY <1>1, <1>2, PTL DEF ServerSpec

\* Every canonical job in the registry is well formed, whatever the callers do.
THEOREM ServerTyping == ServerSpec => []ServerTypeOK
<1>1. ServerInv => ServerTypeOK
  BY DEF ServerInv, ServerTypeOK, SoundJob
<1> QED
  BY <1>1, ServerSoundness, PTL

\* A job whose contract names the Agent of its account is never in a phase in
\* which the VPS may take it.
THEOREM AgentOnlyContract == ServerSpec => []AgentOnlyNeverOnVps
<1>1. ServerInv => AgentOnlyNeverOnVps
  BY PresentSound DEF AgentOnlyNeverOnVps, AgentOnly, SoundJob
<1> QED
  BY <1>1, ServerSoundness, PTL

\* No executor works for a job with a budget before its watchdog runs.
THEOREM WatchdogAlwaysArmed == ServerSpec => []WatchdogArmed
<1>1. ServerInv => WatchdogArmed
  BY PresentSound DEF WatchdogArmed, SoundJob
<1> QED
  BY <1>1, ServerSoundness, PTL

-----------------------------------------------------------------------------
(* What no step undoes                                                      *)

LEMMA SameLifeProgress ==
    ASSUME ServerInv, [ServerNext]_serverVars, NEW j \in Jobs, SameLife(j)
    PROVE  Progress(serverJobs[j], serverJobs'[j])
<1>1. Change(j) /\ claims[j] \in Nat
  BY NextSound DEF StepSound, ServerInv
<1>2. serverJobs'[j] # NoJob /\ claims'[j] = claims[j]
  BY DEF SameLife, Present
<1> QED
  BY <1>1, <1>2 DEF Change

\* Once a job is cancelled, no later step of anybody publishes a response for
\* it or gives it back to an executor.
THEOREM CancelFinality == ServerSpec => CancelIsFinal
<1>1. ServerInv /\ [ServerNext]_serverVars =>
        [\A j \in Jobs : SameLife(j) /\ serverJobs[j].cancel =>
          /\ serverJobs'[j].cancel
          /\ serverJobs'[j].phase = "cancelling"
          /\ serverJobs'[j].response = None]_serverVars
  BY SameLifeProgress DEF Progress
<1> QED
  BY <1>1, ServerSoundness, PTL DEF ServerSpec, CancelIsFinal

\* A published response stays as it was published for as long as it is kept.
THEOREM ResultFinality == ServerSpec => ResultIsFinal
<1>1. ServerInv /\ [ServerNext]_serverVars =>
        [\A j \in Jobs : SameLife(j) /\ serverJobs[j].response # None =>
          /\ serverJobs'[j].response = serverJobs[j].response
          /\ serverJobs'[j].phase = "completed"
          /\ serverJobs'[j].generation = serverJobs[j].generation]_serverVars
  BY SameLifeProgress DEF Progress
<1> QED
  BY <1>1, ServerSoundness, PTL DEF ServerSpec, ResultIsFinal

\* The watchdog of a job restarts at most once, by the one rescue it may get.
THEOREM RescueOnce == ServerSpec => RescueAtMostOnce
<1>1. ServerInv /\ [ServerNext]_serverVars =>
        [\A j \in Jobs : SameLife(j) =>
          LET old == serverJobs[j]  new == serverJobs'[j] IN
          /\ (old.elapsed # None /\ (new.elapsed = None \/ new.elapsed < old.elapsed)) =>
                ~old.rescueGranted /\ new.rescueGranted
          /\ old.rescueGranted /\ ~old.cancel => new.rescueGranted]_serverVars
  BY SameLifeProgress DEF Progress
<1> QED
  BY <1>1, ServerSoundness, PTL DEF ServerSpec, RescueAtMostOnce

-----------------------------------------------------------------------------
(* The fences of one life of a job                                          *)

\* How the fences callers may hold relate to the jobs they were issued for.
FenceInv ==
    /\ \A f \in fences : f.claim <= claims[f.job]
    /\ \A j \in Present : \A f \in CurrentFences(j) :
          /\ f.owner = serverJobs[j].owner
          /\ f.generation <= serverJobs[j].generation
    /\ WriterMatchesPhase
    /\ OneExecutorPerGeneration

\* Fences that name the same life, executor, account and generation are equal.
LEMMA FenceEquality ==
    ASSUME NEW f \in Fence, NEW g \in Fence, f.job = g.job, f.owner = g.owner,
           f.claim = g.claim, f.generation = g.generation, f.executor = g.executor
    PROVE  f = g
BY DEF Fence

LEMMA FenceFields ==
    ASSUME ServerInv, StepSound, NEW f \in fences', f \notin fences
    PROVE  /\ f.job \in Jobs /\ f.job \in Present /\ f.job \in Present'
           /\ claims'[f.job] = claims[f.job] /\ f.claim = claims[f.job]
           /\ f.owner = serverJobs'[f.job].owner
           /\ f.generation = serverJobs'[f.job].generation
           /\ f.executor = ExecutorOf(serverJobs'[f.job].phase)
           /\ Progress(serverJobs[f.job], serverJobs'[f.job])
<1>1. NewFence(f)
  BY DEF StepSound
<1>2. f.job \in Jobs /\ Change(f.job) /\ claims[f.job] \in Nat
  BY <1>1 DEF NewFence, StepSound, ServerInv
<1>3. f.job \in Present /\ Progress(serverJobs[f.job], serverJobs'[f.job])
  BY <1>1, <1>2 DEF NewFence, Change
<1>4. f.job \in Present'
  BY <1>1 DEF NewFence, Present
<1>5. /\ f.claim = claims[f.job]
      /\ f.owner = serverJobs'[f.job].owner
      /\ f.generation = serverJobs'[f.job].generation
      /\ f.executor = ExecutorOf(serverJobs'[f.job].phase)
  <2>1. f = FenceOf(f.job, serverJobs'[f.job], ExecutorOf(serverJobs'[f.job].phase))
    BY <1>1 DEF NewFence
  <2> DEFINE j == f.job
             job == serverJobs'[j]
             e == ExecutorOf(job.phase)
  <2>2. f = FenceOf(j, job, e)
    BY <2>1
  <2> HIDE DEF job, e, j
  <2>3. f.claim = claims[j] /\ f.owner = job.owner /\ f.generation = job.generation /\ f.executor = e
    BY <2>2 DEF FenceOf
  <2> QED
    BY <2>3 DEF j, job, e
<1> QED
  BY <1>1, <1>2, <1>3, <1>4, <1>5 DEF NewFence

\* An old fence that is still of the present life belongs to a job that stayed.
LEMMA OldFence ==
    ASSUME ServerInv, FenceInv, StepSound, NEW f \in fences, f.claim = claims'[f.job]
    PROVE  /\ f.job \in Jobs /\ f \in CurrentFences(f.job) /\ claims'[f.job] = claims[f.job]
           /\ f.job \in Present' => /\ f.job \in Present
                                    /\ Progress(serverJobs[f.job], serverJobs'[f.job])
<1>1. f.job \in Jobs /\ f.claim \in Nat /\ claims[f.job] \in Nat /\ f.claim <= claims[f.job]
  BY DEF ServerInv, Fence, FenceInv
<1>2. Change(f.job)
  BY <1>1 DEF StepSound
<1>3. claims'[f.job] = claims[f.job]
  BY <1>1, <1>2 DEF Change
<1>4. f.job \in Present' => serverJobs'[f.job] # NoJob
  BY DEF Present
<1> QED
  BY <1>1, <1>2, <1>3, <1>4 DEF Change, CurrentFences

LEMMA FenceStepInv ==
    ASSUME ServerInv, FenceInv, [ServerNext]_serverVars
    PROVE  FenceInv'
<1>1. StepSound /\ ServerInv' /\ fences' \in SUBSET Fence
  BY NextSound DEF StepSound, ServerInv
<1>2. ASSUME NEW f \in fences' PROVE f.claim <= claims'[f.job]
  <2>1. CASE f \in fences
    <3>1. /\ f.job \in Jobs /\ f.claim \in Nat /\ claims[f.job] \in Nat
          /\ f.claim <= claims[f.job]
      BY <2>1 DEF ServerInv, Fence, FenceInv
    <3>2. claims'[f.job] = claims[f.job] \/ claims'[f.job] = claims[f.job] + 1
      BY <1>1, <3>1 DEF StepSound, Change
    <3> QED
      BY <3>1, <3>2
  <2>2. CASE f \notin fences
    BY <1>1, <2>2, FenceFields DEF ServerInv
  <2> QED
    BY <2>1, <2>2
<1>3. ASSUME NEW j \in Present', NEW f \in CurrentFences(j)'
      PROVE  /\ f.owner = serverJobs'[j].owner
             /\ f.generation <= serverJobs'[j].generation
             /\ f.generation = serverJobs'[j].generation =>
                  \/ serverJobs'[j].phase = "completed"
                  \/ f.executor = ExecutorOf(serverJobs'[j].phase)
  <2>1. f \in fences' /\ f.job = j /\ f.claim = claims'[j] /\ f \in Fence
    BY <1>1 DEF CurrentFences
  <2>2. j \in Jobs /\ serverJobs'[j] \in SoundJob
    BY <1>1 DEF Present, ServerInv
  <2>3. serverJobs'[j].generation \in Nat /\ f.generation \in Nat /\ f.executor # None
    BY <2>1, <2>2, SoundIsPresent, AbsentJobAssumption DEF Fence
  <2>4. CASE f \notin fences
    BY <1>1, <2>1, <2>3, <2>4, FenceFields
  <2>5. CASE f \in fences
    <3> DEFINE old == serverJobs[j]
               new == serverJobs'[j]
    <3>1. j \in Present /\ f \in CurrentFences(j) /\ Progress(old, new)
      BY <1>1, <2>1, <2>5, OldFence
    <3>2. old.generation \in Nat
      BY <3>1, PresentSound, SoundIsPresent
    <3>3. /\ f.owner = old.owner /\ f.generation <= old.generation
          /\ f.generation = old.generation =>
               old.phase = "completed" \/ f.executor = ExecutorOf(old.phase)
      BY <3>1 DEF FenceInv, WriterMatchesPhase
    <3> HIDE DEF old, new
    <3>4. f.owner = new.owner /\ f.generation <= new.generation
      BY <2>3, <3>1, <3>2, <3>3 DEF Progress, new
    <3>5. f.generation = new.generation =>
             new.phase = "completed" \/ f.executor = ExecutorOf(new.phase)
      <4>1. SUFFICES ASSUME f.generation = new.generation
                     PROVE  new.phase = "completed" \/ f.executor = ExecutorOf(new.phase)
        OBVIOUS
      <4>2. old.generation = new.generation
        BY <2>3, <3>1, <3>2, <3>3, <4>1 DEF Progress, new
      <4> QED
        BY <2>3, <3>1, <3>3, <4>1, <4>2 DEF Progress
    <3> QED
      BY <3>4, <3>5 DEF new
  <2> QED
    BY <2>4, <2>5
<1>4. ASSUME NEW j \in Jobs, NEW f \in CurrentFences(j)', NEW g \in CurrentFences(j)',
             f.generation = g.generation, f \notin fences
      PROVE  f = g
  <2>1. /\ f \in fences' /\ f.job = j /\ f.claim = claims'[j] /\ f \in Fence
        /\ g \in fences' /\ g.job = j /\ g.claim = claims'[j] /\ g \in Fence
    BY <1>1 DEF CurrentFences
  <2>2. /\ j \in Present' /\ f.owner = serverJobs'[j].owner
        /\ f.generation = serverJobs'[j].generation
        /\ f.executor = ExecutorOf(serverJobs'[j].phase)
    BY <1>1, <1>4, <2>1, FenceFields
  <2>3. serverJobs'[j].phase # "completed"
    BY <2>1, <2>2, PhaseExecutors, AbsentJobAssumption DEF Fence
  <2>4. g.owner = f.owner /\ g.executor = f.executor
    BY <1>3, <1>4, <2>2, <2>3
  <2> QED
    BY <1>4, <2>1, <2>4, FenceEquality
<1>5. ASSUME NEW j \in Jobs, NEW f \in CurrentFences(j)', NEW g \in CurrentFences(j)',
             f.generation = g.generation
      PROVE  f = g
  <2>1. CASE f \notin fences \/ g \notin fences
    BY <1>4, <1>5, <2>1
  <2>2. CASE f \in fences /\ g \in fences
    <3>1. f.job = j /\ f.claim = claims'[j] /\ g.job = j /\ g.claim = claims'[j]
      BY DEF CurrentFences
    <3>2. f \in CurrentFences(j) /\ g \in CurrentFences(j)
      BY <1>1, <2>2, <3>1, OldFence
    <3> QED
      BY <1>5, <3>2 DEF FenceInv, OneExecutorPerGeneration
  <2> QED
    BY <2>1, <2>2
<1>6. WriterMatchesPhase'
  BY <1>3 DEF WriterMatchesPhase
<1>7. OneExecutorPerGeneration'
  BY <1>5 DEF OneExecutorPerGeneration
<1> QED
  BY <1>2, <1>3, <1>6, <1>7 DEF FenceInv

\* The fence of an executor is ordered by its generation: whatever callers do
\* with the fences they were given, FenceInv holds.
THEOREM FenceSoundness == ServerSpec => [](ServerInv /\ FenceInv)
<1>1. ServerInit => ServerInv /\ FenceInv
  BY InitSound
     DEF ServerInit, FenceInv, CurrentFences, Present, WriterMatchesPhase, OneExecutorPerGeneration
<1>2. ServerInv /\ FenceInv /\ [ServerNext]_serverVars => (ServerInv /\ FenceInv)'
  BY NextSound, FenceStepInv DEF StepSound
<1> QED
  BY <1>1, <1>2, PTL DEF ServerSpec

\* Two different fences of one life of a job never have the same generation.
THEOREM OneExecutor == ServerSpec => []OneExecutorPerGeneration
<1>1. FenceInv => OneExecutorPerGeneration
  BY DEF FenceInv
<1> QED
  BY <1>1, FenceSoundness, PTL

\* Only the executor the phase of a job names can hold its current fence.
THEOREM OneWriter == ServerSpec => []WriterMatchesPhase
<1>1. FenceInv => WriterMatchesPhase
  BY DEF FenceInv
<1> QED
  BY <1>1, FenceSoundness, PTL

\* A response was written by the last executor the job was given to.
THEOREM NewestWriter == ServerSpec => []ResultByNewestFence
<1>1. ASSUME ServerInv, FenceInv PROVE ResultByNewestFence
  <2>1. ASSUME NEW j \in Completed, NEW f \in CurrentFences(j)
        PROVE  f.generation <= serverJobs[j].response.generation
    <3>1. j \in Present /\ serverJobs[j].completedAge # None
      BY DEF Completed
    <3>2. serverJobs[j].response.generation = serverJobs[j].generation
      BY <1>1, <3>1, PresentSound DEF SoundJob
    <3> QED
      BY <1>1, <3>1, <3>2 DEF FenceInv
  <2> QED
    BY <2>1 DEF ResultByNewestFence
<1> QED
  BY <1>1, FenceSoundness, PTL

(***************************************************************************)
(* The registry of canonical jobs as a whole: single flight (two live jobs *)
(* of one account never share a schedule) and the capacity bounds.  Both   *)
(* relate different jobs, so ServerInv, which speaks of one job at a time, *)
(* does not give them.                                                     *)
(*                                                                         *)
(* The argument: only a claim adds a job to the unresolved ones, and it    *)
(* looks at all of them first; every other step retains what single flight *)
(* compares (Retained).  Only a completion adds a result, and it prunes.   *)
(***************************************************************************)
\* What single flight and the capacities look at, before and after a step.
SameClaim(old, new) ==
    /\ new.owner = old.owner
    /\ new.scope = old.scope
    /\ new.fingerprint = old.fingerprint
    /\ old.cancel => new.cancel

\* A job that is there after the step was there before, for the same schedule
\* of the same account, and does not become live again.
Retained(i) ==
    serverJobs'[i] # NoJob =>
        /\ serverJobs[i] # NoJob
        /\ SameClaim(serverJobs[i], serverJobs'[i])
        /\ serverJobs[i].completedAge # None => serverJobs'[i].completedAge # None

\* The step also publishes no result.
Unpublished(i) ==
    serverJobs'[i] # NoJob /\ serverJobs'[i].completedAge # None =>
        serverJobs[i] # NoJob /\ serverJobs[i].completedAge # None

QuietStep == \A i \in Jobs : Retained(i) /\ Unpublished(i)

RegistryInv == SingleFlight /\ RegistryBounded

-----------------------------------------------------------------------------
LEMMA RegistryFinite ==
    /\ IsFiniteSet(Unresolved) /\ Cardinality(Unresolved) \in Nat
    /\ IsFiniteSet(Completed) /\ Cardinality(Completed) \in Nat
    /\ \A o : /\ IsFiniteSet({j \in Unresolved : serverJobs[j].owner = o})
              /\ Cardinality({j \in Unresolved : serverJobs[j].owner = o}) \in Nat
<1>1. \A S \in SUBSET Jobs : IsFiniteSet(S) /\ Cardinality(S) \in Nat
  BY JobsAssumption, FS_Subset, FS_CardinalityType
<1> QED
  BY <1>1 DEF Unresolved, Completed, Present

\* The oldest results give way: what a prune leaves fits the limit.
LEMMA PruneBounds ==
    ASSUME NEW sj \in [Jobs -> ServerJob \cup {NoJob}], NEW after \in Pruned(sj)
    PROVE  Cardinality(ResultsOf(after)) <= MaxResults
<1>1. PICK victims \in SUBSET ResultsOf(sj) :
         Superfluous(sj, victims) /\ after = Without(sj, ExpiredOf(sj) \cup victims)
  BY DEF Pruned
<1> DEFINE kept == ResultsOf(sj) \ ExpiredOf(sj)
<1>2. ResultsOf(after) = kept \ victims
  BY <1>1 DEF Without, ResultsOf
<1>3. kept \subseteq Jobs /\ victims \subseteq kept
  BY <1>1 DEF ResultsOf, Superfluous
<1>4. IsFiniteSet(kept) /\ IsFiniteSet(victims)
  BY <1>3, JobsAssumption, FS_Subset
<1>5. /\ Cardinality(kept) \in Nat /\ Cardinality(victims) \in Nat
      /\ Cardinality(kept \ victims) = Cardinality(kept) - Cardinality(victims)
  <2>1. kept \cap victims = victims
    BY <1>3
  <2> QED
    BY <1>4, <2>1, FS_CardinalityType, FS_Difference
<1>6. Cardinality(victims) = IF Cardinality(kept) > MaxResults
                             THEN Cardinality(kept) - MaxResults ELSE 0
  BY <1>1 DEF Superfluous
<1> HIDE DEF kept
<1> QED
  BY <1>2, <1>5, <1>6, ServerJobsAssumption

\* A set below its capacity stays within it when one element joins.
LEMMA OneMore ==
    ASSUME NEW before, IsFiniteSet(before), NEW x, NEW after, after \subseteq before \cup {x},
           NEW n \in Nat, Cardinality(before) < n
    PROVE  Cardinality(after) <= n
<1>1. /\ IsFiniteSet(before \cup {x})
      /\ Cardinality(before) \in Nat /\ Cardinality(before \cup {x}) \in Nat
      /\ Cardinality(before \cup {x}) <= Cardinality(before) + 1
  BY FS_AddElement, FS_CardinalityType
<1>2. Cardinality(after) \in Nat /\ Cardinality(after) <= Cardinality(before \cup {x})
  BY <1>1, FS_Subset, FS_CardinalityType
<1> QED
  BY <1>1, <1>2

\* Two live jobs stay apart, and the unresolved do not grow, under a step that retains.
LEMMA RetainedKeeps ==
    ASSUME RegistryInv, \A i \in Jobs : Retained(i), Cardinality(Completed') <= MaxResults
    PROVE  RegistryInv'
<1>1. Unresolved' \subseteq Unresolved
  BY DEF Retained, Unresolved, Completed, Present
<1>2. \A i \in Unresolved' : SameClaim(serverJobs[i], serverJobs'[i])
  BY DEF Retained, Unresolved, Completed, Present
<1>3. SingleFlight'
  BY <1>1, <1>2 DEF RegistryInv, SingleFlight, SameClaim
<1>4. Cardinality(Unresolved') <= Cardinality(Unresolved)
  BY <1>1, RegistryFinite, FS_Subset
<1>5. ASSUME NEW o \in Owners
      PROVE  Cardinality({j \in Unresolved' : serverJobs'[j].owner = o}) <= MaxUnresolvedPerOwner
  <2> DEFINE new == {j \in Unresolved' : serverJobs'[j].owner = o}
             old == {j \in Unresolved : serverJobs[j].owner = o}
  <2>1. new \subseteq old
    BY <1>1, <1>2 DEF SameClaim
  <2>2. IsFiniteSet(old) /\ Cardinality(old) \in Nat
    BY RegistryFinite
  <2>3. Cardinality(new) <= Cardinality(old) /\ Cardinality(new) \in Nat
    BY <2>1, <2>2, FS_Subset, FS_CardinalityType
  <2>4. Cardinality(old) <= MaxUnresolvedPerOwner
    BY DEF RegistryInv, RegistryBounded
  <2> HIDE DEF new, old
  <2>5. Cardinality(new) <= MaxUnresolvedPerOwner
    BY <2>2, <2>3, <2>4, ServerJobsAssumption
  <2> QED
    BY <2>5 DEF new
<1>6. Cardinality(Unresolved') <= MaxUnresolved
  <2>1. Cardinality(Unresolved') \in Nat
    BY <1>1, RegistryFinite, FS_Subset, FS_CardinalityType
  <2>2. Cardinality(Unresolved) <= MaxUnresolved
    BY DEF RegistryInv, RegistryBounded
  <2> QED
    BY <1>4, <2>1, <2>2, RegistryFinite, ServerJobsAssumption
<1>7. RegistryBounded'
  BY <1>5, <1>6 DEF RegistryBounded
<1> QED
  BY <1>3, <1>7 DEF RegistryInv

LEMMA QuietKeeps ==
    ASSUME RegistryInv, QuietStep
    PROVE  RegistryInv'
<1>1. Completed' \subseteq Completed
  BY DEF QuietStep, Unpublished, Completed, Present
<1>2. /\ Cardinality(Completed') <= Cardinality(Completed)
      /\ Cardinality(Completed') \in Nat
  BY <1>1, RegistryFinite, FS_Subset, FS_CardinalityType
<1>3. Cardinality(Completed) <= MaxResults
  BY DEF RegistryInv, RegistryBounded
<1>4. Cardinality(Completed') <= MaxResults
  BY <1>2, <1>3, RegistryFinite, ServerJobsAssumption
<1> QED
  BY <1>4, RetainedKeeps DEF QuietStep

-----------------------------------------------------------------------------
(* Which steps are quiet                                                    *)

\* One job changes into one with the same claim, the same results and a
\* cancellation that stays.
OnlyChanges(j) ==
    /\ j \in Present
    /\ \A i \in Jobs \ {j} : serverJobs'[i] = serverJobs[i]
    /\ SameClaim(serverJobs[j], serverJobs'[j])
    /\ serverJobs'[j].completedAge = serverJobs[j].completedAge

LEMMA QuietJob ==
    ASSUME NEW j \in Jobs, OnlyChanges(j)
    PROVE  QuietStep
BY DEF OnlyChanges, QuietStep, Retained, Unpublished, SameClaim, Present

\* Jobs only disappear: an abandoned job, a published one that is cancelled, a prune.
LEMMA QuietRemoval ==
    ASSUME \A i \in Jobs : serverJobs'[i] = serverJobs[i] \/ serverJobs'[i] = NoJob
    PROVE  QuietStep
BY DEF QuietStep, Retained, Unpublished, SameClaim

\* The contract setters change flags of one job.
LEMMA QuietContract ==
    ASSUME ServerInv, NEW j \in Jobs, NEW o \in Owners, NEW b \in BOOLEAN,
           \/ SetAgentPreference(j, o, b)
           \/ SetNativeAgentRequired(j, o, b)
           \/ SetBrowserAgentRequired(j, o, b)
    PROVE  QuietStep
<1> SUFFICES OnlyChanges(j)
  BY QuietJob
<1>1. j \in Present /\ serverJobs[j] \in ServerJob
  BY PresentSound DEF SetAgentPreference, SetNativeAgentRequired, SetBrowserAgentRequired, Owned
<1>2. CASE SetAgentPreference(j, o, b)
  BY <1>1, <1>2 DEF SetAgentPreference, OnlyChanges, SameClaim, ServerJob, ServerInv
<1>3. CASE SetNativeAgentRequired(j, o, b)
  BY <1>1, <1>3 DEF SetNativeAgentRequired, Contracted, OnlyChanges, SameClaim, ServerJob, ServerInv
<1>4. CASE SetBrowserAgentRequired(j, o, b)
  BY <1>1, <1>4 DEF SetBrowserAgentRequired, Contracted, OnlyChanges, SameClaim, ServerJob, ServerInv
<1> QED
  BY <1>2, <1>3, <1>4

\* Reserving an executor changes the phase, the generation and the watchdog.
LEMMA QuietPrepare ==
    ASSUME ServerInv, NEW j \in Jobs, NEW o \in Owners,
           PrepareAgent(j, o) \/ PrepareServerless(j, o) \/ PrepareVps(j, o)
    PROVE  QuietStep
<1> SUFFICES OnlyChanges(j)
  BY QuietJob
<1>1. j \in Present /\ serverJobs[j] \in ServerJob
  BY EligibleSound DEF PrepareAgent, PrepareServerless, PrepareVps
<1>2. CASE PrepareAgent(j, o)
  <2>1. CASE serverJobs[j].phase = "pending"
    <3> DEFINE new == [serverJobs[j] EXCEPT !.generation = serverJobs[j].generation + 1,
                                             !.phase = "agent_waiting", !.trusted = FALSE,
                                             !.elapsed = Started(serverJobs[j])]
    <3>1. serverJobs' = [serverJobs EXCEPT ![j] = new]
      BY <1>2, <2>1 DEF PrepareAgent
    <3>2. SameClaim(serverJobs[j], new) /\ new.completedAge = serverJobs[j].completedAge
      BY <1>1 DEF SameClaim, ServerJob
    <3> HIDE DEF new
    <3> QED
      BY <1>1, <3>1, <3>2 DEF OnlyChanges, ServerInv
  <2>2. CASE serverJobs[j].phase # "pending"
    BY <1>1, <1>2, <2>2 DEF PrepareAgent, OnlyChanges, SameClaim, ServerJob, ServerInv
  <2> QED
    BY <2>1, <2>2
<1>3. CASE PrepareServerless(j, o)
  <2>1. CASE serverJobs[j].phase = "pending"
    <3> DEFINE new == [serverJobs[j] EXCEPT !.generation = serverJobs[j].generation + 1,
                                             !.phase = "serverless_queued", !.trusted = FALSE,
                                             !.preference = FALSE, !.elapsed = Started(serverJobs[j])]
    <3>1. serverJobs' = [serverJobs EXCEPT ![j] = new]
      BY <1>3, <2>1 DEF PrepareServerless
    <3>2. SameClaim(serverJobs[j], new) /\ new.completedAge = serverJobs[j].completedAge
      BY <1>1 DEF SameClaim, ServerJob
    <3> HIDE DEF new
    <3> QED
      BY <1>1, <3>1, <3>2 DEF OnlyChanges, ServerInv
  <2>2. CASE serverJobs[j].phase # "pending"
    BY <1>1, <1>3, <2>2 DEF PrepareServerless, OnlyChanges, SameClaim, ServerJob, ServerInv
  <2> QED
    BY <2>1, <2>2
<1>4. CASE PrepareVps(j, o)
  <2>1. CASE serverJobs[j].phase = "pending"
    <3> DEFINE new == [serverJobs[j] EXCEPT !.generation = serverJobs[j].generation + 1,
                                             !.phase = "vps_queued", !.trusted = FALSE,
                                             !.elapsed = Started(serverJobs[j])]
    <3>1. serverJobs' = [serverJobs EXCEPT ![j] = new]
      BY <1>4, <2>1 DEF PrepareVps
    <3>2. SameClaim(serverJobs[j], new) /\ new.completedAge = serverJobs[j].completedAge
      BY <1>1 DEF SameClaim, ServerJob
    <3> HIDE DEF new
    <3> QED
      BY <1>1, <3>1, <3>2 DEF OnlyChanges, ServerInv
  <2>2. CASE serverJobs[j].phase # "pending"
    BY <1>1, <1>4, <2>2 DEF PrepareVps, OnlyChanges, SameClaim, ServerJob, ServerInv
  <2> QED
    BY <2>1, <2>2
<1> QED
  BY <1>2, <1>3, <1>4

\* A rescue request, a cancellation, a stop and an abandonment touch one job.
LEMMA QuietRequest ==
    ASSUME ServerInv, NEW j \in Jobs, NEW o \in Owners,
           \/ RequestRescue(j, o) \/ CancelServerJob(j, o)
           \/ RequestBestEffortStop(j, o) \/ Abandon(j, o)
    PROVE  QuietStep
<1>1. j \in Present /\ serverJobs[j] \in ServerJob
  BY PresentSound DEF RequestRescue, CancelServerJob, RequestBestEffortStop, Abandon, Eligible, Owned
<1>2. CASE serverJobs' = [serverJobs EXCEPT ![j] = NoJob]
  BY <1>2, QuietRemoval DEF ServerInv
<1>3. CASE RequestRescue(j, o)
  <2>1. OnlyChanges(j)
    BY <1>1, <1>3 DEF RequestRescue, OnlyChanges, SameClaim, ServerJob, ServerInv
  <2> QED
    BY <2>1, QuietJob
<1>4. CASE CancelServerJob(j, o) /\ serverJobs[j].response = None
  <2>1. OnlyChanges(j)
    BY <1>1, <1>4 DEF CancelServerJob, OnlyChanges, SameClaim, ServerJob, ServerInv
  <2> QED
    BY <2>1, QuietJob
<1>5. CASE RequestBestEffortStop(j, o)
  <2>1. OnlyChanges(j)
    BY <1>1, <1>5 DEF RequestBestEffortStop, OnlyChanges, SameClaim, ServerJob, ServerInv
  <2> QED
    BY <2>1, QuietJob
<1> QED
  BY <1>2, <1>3, <1>4, <1>5 DEF CancelServerJob, Abandon

\* The holder of a fence moves the phase on, or falls back to the VPS.
LEMMA QuietFence ==
    ASSUME ServerInv, NEW f \in fences,
           \/ MarkAgentRunning(f) \/ MarkServerlessRunning(f) \/ MarkVpsRunning(f)
           \/ FallbackServerlessToVps(f) \/ FallbackAgentToVps(f)
    PROVE  QuietStep
<1> DEFINE j == f.job
<1>1. j \in Jobs /\ j \in Present /\ serverJobs[j] \in ServerJob
  BY PresentSound DEF MarkAgentRunning, MarkServerlessRunning, MarkVpsRunning, MarkRunning,
     FallbackServerlessToVps, FallbackAgentToVps, FallbackEligible, Matches, Owned
<1> SUFFICES OnlyChanges(j)
  BY <1>1, QuietJob
<1>2. CASE MarkAgentRunning(f) \/ MarkServerlessRunning(f) \/ MarkVpsRunning(f)
  BY <1>1, <1>2 DEF MarkAgentRunning, MarkServerlessRunning, MarkVpsRunning, MarkRunning,
     OnlyChanges, SameClaim, ServerJob, ServerInv
<1>3. CASE FallbackServerlessToVps(f)
  BY <1>1, <1>3 DEF FallbackServerlessToVps, OnlyChanges, SameClaim, ServerJob, ServerInv
<1>4. CASE FallbackAgentToVps(f)
  BY <1>1, <1>4 DEF FallbackAgentToVps, OnlyChanges, SameClaim, ServerJob, ServerInv
<1> QED
  BY <1>2, <1>3, <1>4

\* A handoff moves jobs to another executor, not to another schedule.
LEMMA QuietHandoff ==
    ASSUME ServerInv, NEW js \in SUBSET Jobs, NEW t \in BOOLEAN, HandoffTo(js, t), js \subseteq Present
    PROVE  QuietStep
<1>1. \A j \in js : serverJobs[j] \in ServerJob
  BY PresentSound
<1>2. \A j \in Jobs : serverJobs'[j] = IF j \in js THEN HandedOff(serverJobs[j], t) ELSE serverJobs[j]
  BY DEF HandoffTo
<1>3. \A j \in js : /\ SameClaim(serverJobs[j], HandedOff(serverJobs[j], t))
                     /\ HandedOff(serverJobs[j], t).completedAge = serverJobs[j].completedAge
  BY <1>1 DEF SameClaim, HandedOff, ServerJob
<1> QED
  BY <1>2, <1>3 DEF QuietStep, Retained, Unpublished, SameClaim, Present

\* A tick makes results older, but neither publishes nor forgets one.
LEMMA QuietAge ==
    ASSUME ServerInv, AgeServerJobs
    PROVE  QuietStep
<1> SUFFICES ASSUME NEW i \in Jobs PROVE Retained(i) /\ Unpublished(i)
  BY DEF QuietStep
<1>1. CASE i \notin Present
  BY <1>1 DEF AgeServerJobs, Retained, Unpublished
<1>2. CASE i \in Present
  <2> DEFINE job == serverJobs[i]
  <2>1. job \in ServerJob /\ job # NoJob
    BY <1>2, PresentSound DEF Present
  <2>2. /\ SameClaim(job, serverJobs'[i])
        /\ serverJobs'[i].completedAge = IF job.completedAge # None /\ job.completedAge <= ResultTTL
                                         THEN job.completedAge + 1 ELSE job.completedAge
    BY <1>2, <2>1 DEF AgeServerJobs, SameClaim, ServerJob
  <2>3. job.completedAge = None <=> serverJobs'[i].completedAge = None
    BY <2>1, <2>2, AbsentJobAssumption DEF ServerJob
  <2> QED
    BY <2>1, <2>2, <2>3 DEF Retained, Unpublished
<1> QED
  BY <1>1, <1>2

-----------------------------------------------------------------------------
(* Publishing, pruning and claiming                                         *)

\* complete_server_job_fenced publishes one result and prunes at once.
LEMMA CompleteRegistry ==
    ASSUME ServerInv, RegistryInv, NEW f \in fences, CompleteFenced(f)
    PROVE  RegistryInv'
<1> DEFINE job == serverJobs[f.job]
           new == [job EXCEPT !.response = f, !.completedAge = 0, !.phase = "completed"]
           sj == [serverJobs EXCEPT ![f.job] = new]
<1>1. f.job \in Jobs /\ job \in ServerJob /\ job # NoJob /\ f \in Fence
  BY PresentSound DEF CompleteFenced, Matches, Owned, Present, ServerInv
<1>2. new \in ServerJob /\ SameClaim(job, new) /\ new.completedAge = 0
  <2>1. f \in Fence \cup {None} /\ 0 \in Nat \cup {None} /\ "completed" \in Phases
    BY <1>1 DEF Phases
  <2>2. new \in ServerJob
    BY <1>1, <2>1, Zenon DEF ServerJob
  <2> QED
    BY <1>1, <2>2 DEF SameClaim, ServerJob
<1>3. serverJobs \in [Jobs -> ServerJob \cup {NoJob}]
  BY DEF ServerInv, SoundJob
<1> HIDE DEF new
<1>4. sj \in [Jobs -> ServerJob \cup {NoJob}]
  BY <1>2, <1>3
<1>5. serverJobs' \in Pruned(sj)
  BY DEF CompleteFenced, new
<1>6. \A i \in Jobs : sj[i] = IF i = f.job THEN new ELSE serverJobs[i]
  BY <1>3
<1> HIDE DEF sj
<1>7. \A i \in Jobs : serverJobs'[i] = sj[i] \/ serverJobs'[i] = NoJob
  BY <1>4, <1>5, PruneOnlyRemoves
<1>8. ASSUME NEW i \in Jobs PROVE Retained(i)
  <2>1. CASE serverJobs'[i] = NoJob
    BY <2>1 DEF Retained
  <2>2. CASE serverJobs'[i] = serverJobs[i]
    BY <2>2 DEF Retained, SameClaim
  <2>3. CASE i = f.job /\ serverJobs'[i] = new
    BY <1>1, <1>2, <2>3, AbsentJobAssumption DEF Retained
  <2> QED
    BY <1>6, <1>7, <2>1, <2>2, <2>3
<1>9. Completed' = ResultsOf(serverJobs')
  BY DEF Completed, Present, ResultsOf
<1>10. Cardinality(Completed') <= MaxResults
  BY <1>4, <1>5, <1>9, PruneBounds
<1> QED
  BY <1>8, <1>10, RetainedKeeps

\* A read of the results prunes.
LEMMA PruneRegistry ==
    ASSUME ServerInv, RegistryInv, PruneCompleted
    PROVE  RegistryInv'
<1>1. serverJobs \in [Jobs -> ServerJob \cup {NoJob}]
  BY DEF ServerInv, SoundJob
<1>2. \A i \in Jobs : serverJobs'[i] = serverJobs[i] \/ serverJobs'[i] = NoJob
  BY <1>1, PruneOnlyRemoves DEF PruneCompleted
<1> QED
  BY <1>2, QuietRemoval, QuietKeeps

\* A claim joins the live jobs only where none of its account works on the same
\* schedule, and only below both capacities.
LEMMA ClaimRegistry ==
    ASSUME ServerInv, RegistryInv, NEW j \in Jobs, NEW o \in Owners,
           NEW scope \in Scopes \cup {None}, NEW fingerprint \in Fingerprints \cup {None},
           NEW budget \in Budgets \cup {None}, Claim(j, o, scope, fingerprint, budget)
    PROVE  RegistryInv'
<1> DEFINE new == NewJob(o, scope, fingerprint, budget)
<1>1. PICK sj \in Pruned(serverJobs) :
         /\ sj[j] = NoJob
         /\ SameSchedule(sj, o, scope, fingerprint) = {}
         /\ Cardinality(Unresolved) < MaxUnresolved
         /\ Cardinality({i \in Unresolved : serverJobs[i].owner = o}) < MaxUnresolvedPerOwner
         /\ serverJobs' = [sj EXCEPT ![j] = new]
  BY DEF Claim
<1>2. serverJobs \in [Jobs -> ServerJob \cup {NoJob}]
  BY DEF ServerInv, SoundJob
<1>3. /\ sj \in [Jobs -> ServerJob \cup {NoJob}]
      /\ \A i \in Jobs : sj[i] = serverJobs[i] \/ sj[i] = NoJob
  BY <1>2, PruneOnlyRemoves
<1>4. /\ new.owner = o /\ new.scope = scope /\ new.fingerprint = fingerprint
      /\ ~new.cancel /\ new.completedAge = None
  BY DEF NewJob
<1> HIDE DEF new
<1>5. \A i \in Jobs : serverJobs'[i] = IF i = j THEN new ELSE sj[i]
  BY <1>1, <1>3
<1>6. /\ Unresolved' \subseteq Unresolved \cup {j}
      /\ \A i \in Unresolved' \ {j} : serverJobs'[i] = serverJobs[i] /\ sj[i] = serverJobs[i]
                                     /\ sj[i] # NoJob /\ sj[i].completedAge = None
  BY <1>3, <1>5 DEF Unresolved, Completed, Present
<1>7. ASSUME NEW i \in Unresolved' \ {j}, serverJobs[i].owner = o, ~serverJobs[i].cancel
      PROVE  /\ scope = None \/ scope # serverJobs[i].scope
             /\ fingerprint = None \/ fingerprint # serverJobs[i].fingerprint
  <2>1. i \in Jobs /\ i \notin SameSchedule(sj, o, scope, fingerprint)
    BY <1>1 DEF Unresolved, Present
  <2> QED
    BY <1>6, <1>7, <2>1 DEF SameSchedule
<1>8. SingleFlight'
  <2> SUFFICES ASSUME NEW i \in Unresolved', NEW k \in Unresolved', i # k,
                      serverJobs'[i].owner = serverJobs'[k].owner,
                      ~serverJobs'[i].cancel, ~serverJobs'[k].cancel
               PROVE  /\ serverJobs'[i].scope = None \/ serverJobs'[i].scope # serverJobs'[k].scope
                      /\ \/ serverJobs'[i].fingerprint = None
                         \/ serverJobs'[i].fingerprint # serverJobs'[k].fingerprint
    BY DEF SingleFlight
  <2>1. j \in Unresolved' => serverJobs'[j] = new
    BY <1>5
  <2>2. CASE i = j
    BY <1>4, <1>6, <1>7, <2>1, <2>2
  <2>3. CASE k = j
    BY <1>4, <1>6, <1>7, <2>1, <2>3
  <2>4. CASE i # j /\ k # j
    BY <1>6, <2>4 DEF RegistryInv, SingleFlight
  <2> QED
    BY <2>2, <2>3, <2>4
<1>9. Cardinality(Unresolved') <= MaxUnresolved
  BY <1>1, <1>6, RegistryFinite, OneMore, ServerJobsAssumption
<1>10. ASSUME NEW p \in Owners
       PROVE  Cardinality({i \in Unresolved' : serverJobs'[i].owner = p}) <= MaxUnresolvedPerOwner
  <2> DEFINE before == {i \in Unresolved : serverJobs[i].owner = p}
             after == {i \in Unresolved' : serverJobs'[i].owner = p}
  <2>1. after \subseteq before \cup {j} /\ (p # o => after \subseteq before)
    BY <1>4, <1>5, <1>6
  <2>2. IsFiniteSet(before) /\ Cardinality(before) \in Nat
    BY RegistryFinite
  <2>3. Cardinality(before) <= MaxUnresolvedPerOwner
    BY DEF RegistryInv, RegistryBounded
  <2>4. p = o => Cardinality(before) < MaxUnresolvedPerOwner
    BY <1>1
  <2> HIDE DEF before, after
  <2>5. CASE p = o
    BY <2>1, <2>2, <2>4, <2>5, OneMore, ServerJobsAssumption DEF after
  <2>6. CASE p # o
    <3>1. Cardinality(after) <= Cardinality(before) /\ Cardinality(after) \in Nat
      BY <2>1, <2>2, <2>6, FS_Subset, FS_CardinalityType
    <3> QED
      BY <2>2, <2>3, <3>1, ServerJobsAssumption DEF after
  <2> QED
    BY <2>5, <2>6 DEF after
<1>11. Cardinality(Completed') <= MaxResults
  <2>1. Completed' = ResultsOf(sj)
    BY <1>1, <1>4, <1>5 DEF Completed, Present, ResultsOf
  <2> QED
    BY <1>2, <2>1, PruneBounds
<1> QED
  BY <1>8, <1>9, <1>10, <1>11 DEF RegistryInv, RegistryBounded

-----------------------------------------------------------------------------
(* Every step, and the theorems                                             *)

LEMMA HandoffRegistry ==
    ASSUME ServerInv, RegistryInv, NEW js \in SUBSET Jobs, NEW t \in BOOLEAN,
           \A j \in js : HandoffEligible(j), HandoffTo(js, t)
    PROVE  RegistryInv'
<1>1. js \subseteq Present
  BY DEF HandoffEligible, IsOpen
<1> QED
  BY <1>1, QuietHandoff, QuietKeeps

LEMMA JobStepRegistry ==
    ASSUME ServerInv, RegistryInv, NEW j \in Jobs, NEW o \in Owners, JobStep(j, o)
    PROVE  RegistryInv'
<1>1. ASSUME NEW scope \in Scopes \cup {None}, NEW fingerprint \in Fingerprints \cup {None},
             NEW budget \in Budgets \cup {None}, Claim(j, o, scope, fingerprint, budget)
      PROVE  RegistryInv'
  BY <1>1, ClaimRegistry
<1>2. ASSUME NEW b \in BOOLEAN,
             \/ SetAgentPreference(j, o, b)
             \/ SetNativeAgentRequired(j, o, b)
             \/ SetBrowserAgentRequired(j, o, b)
      PROVE  RegistryInv'
  BY <1>2, QuietContract, QuietKeeps
<1>3. ASSUME JobHandoffEligible(j, o), HandoffTo({j}, FALSE) PROVE RegistryInv'
  <2>1. {j} \in SUBSET Jobs /\ \A i \in {j} : HandoffEligible(i)
    BY <1>3 DEF JobHandoffEligible
  <2> QED
    BY <1>3, <2>1, HandoffRegistry
<1>4. CASE PrepareAgent(j, o) \/ PrepareServerless(j, o) \/ PrepareVps(j, o)
  BY <1>4, QuietPrepare, QuietKeeps
<1>5. CASE \/ RequestRescue(j, o) \/ CancelServerJob(j, o)
           \/ RequestBestEffortStop(j, o) \/ Abandon(j, o)
  BY <1>5, QuietRequest, QuietKeeps
<1> QED
  BY <1>1, <1>2, <1>3, <1>4, <1>5 DEF JobStep

LEMMA FenceStepRegistry ==
    ASSUME ServerInv, RegistryInv, NEW f \in fences, FenceStep(f)
    PROVE  RegistryInv'
<1>1. CASE CompleteFenced(f)
  BY <1>1, CompleteRegistry
<1>2. CASE \/ MarkAgentRunning(f) \/ MarkServerlessRunning(f) \/ MarkVpsRunning(f)
           \/ FallbackServerlessToVps(f) \/ FallbackAgentToVps(f)
  BY <1>2, QuietFence, QuietKeeps
<1> QED
  BY <1>1, <1>2 DEF FenceStep

LEMMA NextRegistry ==
    ASSUME ServerInv, RegistryInv, [ServerNext]_serverVars
    PROVE  RegistryInv'
<1>1. ASSUME NEW j \in Jobs, NEW o \in Owners, JobStep(j, o) PROVE RegistryInv'
  BY <1>1, JobStepRegistry
<1>2. ASSUME NEW f \in fences, FenceStep(f) PROVE RegistryInv'
  BY <1>2, FenceStepRegistry
<1>3. ASSUME NEW o \in Owners, HandoffTo(OwnerHandoffJobs(o), FALSE) PROVE RegistryInv'
  <2> DEFINE js == OwnerHandoffJobs(o)
  <2>1. js \in SUBSET Jobs /\ \A i \in js : HandoffEligible(i)
    BY DEF OwnerHandoffJobs
  <2>2. HandoffTo(js, FALSE)
    BY <1>3
  <2> HIDE DEF js
  <2> QED
    BY <2>1, <2>2, HandoffRegistry
<1>4. ASSUME NEW js \in SUBSET Jobs, TrustedHandoff(js) PROVE RegistryInv'
  BY <1>4, HandoffRegistry DEF TrustedHandoff, TrustedHandoffEligible
<1>5. CASE PruneCompleted
  BY <1>5, PruneRegistry
<1>6. CASE AgeServerJobs
  BY <1>6, QuietAge, QuietKeeps
<1>7. CASE UNCHANGED serverVars
  BY <1>7, QuietRemoval, QuietKeeps DEF serverVars
<1> QED
  BY <1>1, <1>2, <1>3, <1>4, <1>5, <1>6, <1>7 DEF ServerNext

LEMMA InitRegistry ==
    ASSUME ServerInit
    PROVE  RegistryInv
<1>1. Unresolved = {} /\ Completed = {}
  BY DEF ServerInit, Unresolved, Completed, Present
<1>2. \A o \in Owners : {j \in Unresolved : serverJobs[j].owner = o} = {}
  BY <1>1
<1>3. Cardinality({}) = 0
  BY FS_EmptySet
<1> QED
  BY <1>1, <1>2, <1>3, ServerJobsAssumption DEF RegistryInv, SingleFlight, RegistryBounded

LEMMA RegistrySoundness == ServerSpec => []RegistryInv
<1>1. ServerInit => RegistryInv
  BY InitRegistry
<1>2. ServerInv /\ RegistryInv /\ [ServerNext]_serverVars => RegistryInv'
  BY NextRegistry
<1> QED
  BY <1>1, <1>2, ServerSoundness, PTL DEF ServerSpec

\* However ids are claimed, handed over, cancelled, completed and claimed again, one
\* account never has two live jobs on one schedule scope or one schedule's contents.
THEOREM OneLiveJobPerSchedule == ServerSpec => []SingleFlight
<1>1. RegistryInv => SingleFlight
  BY DEF RegistryInv
<1> QED
  BY <1>1, RegistrySoundness, PTL

\* No order of claims, completions, prunes and lost results exceeds the capacities of the
\* registry: of live jobs for each account and altogether, and of results.
THEOREM RegistryStaysBounded == ServerSpec => []RegistryBounded
<1>1. RegistryInv => RegistryBounded
  BY DEF RegistryInv
<1> QED
  BY <1>1, RegistrySoundness, PTL
=============================================================================
