------------------------ MODULE ServerJobsRefineProofs ------------------------
(***************************************************************************)
(* ServerJobs implements CanonicalJob, for every value of the constants.   *)
(* Four fields of a job decide what is seen of it: phase, generation,      *)
(* cancel and response.  Each operation is shown to change them the way a  *)
(* step of CanonicalJob allows.                                            *)
(***************************************************************************)
EXTENDS ServerJobsRefine, ServerJobsProofs

DeskAt(i) == IF serverJobs[i] = NoJob THEN NoDesk ELSE DeskOf(serverJobs[i])

\* What one step may make of what is seen of a request id.
DeskStep(i) == DeskAt(i)' = DeskAt(i) \/ Promise!Step(DeskAt(i), DeskAt(i)')

\* The job is open: neither answered nor cancelled.
Live(job) == ~job.cancel /\ job.response = None

-----------------------------------------------------------------------------
(* What is seen of one job, before and after                                *)

LEMMA LiveDesk ==
    ASSUME NEW job, Live(job)
    PROVE  DeskOf(job) = [state |-> "open", holder |-> HolderOf(job.phase),
                          term |-> job.generation, answer |-> None]
BY DEF Live, DeskOf

LEMMA SameDesk ==
    ASSUME NEW job, NEW new, new.phase = job.phase, new.generation = job.generation,
           new.cancel = job.cancel, new.response = job.response
    PROVE  DeskOf(new) = DeskOf(job)
BY DEF DeskOf

\* A job that changes its holder.
LEMMA MovedDesk ==
    ASSUME NEW job, NEW new, Live(job), Live(new), new.generation = job.generation + 1,
           <<HolderOf(job.phase), HolderOf(new.phase)>> \in Promise!Routes
    PROVE  Promise!Step(DeskOf(job), DeskOf(new))
<1>1. Promise!Moves(DeskOf(job), DeskOf(new))
  BY LiveDesk DEF Promise!Moves
<1> QED
  BY <1>1 DEF Promise!Step

\* A job in the hands of one executor, queued or running.
LEMMA HeldDesk ==
    ASSUME NEW job, NEW new, Live(job), Live(new), new.generation = job.generation,
           HolderOf(job.phase) = HolderOf(new.phase)
    PROVE  DeskOf(new) = DeskOf(job)
BY LiveDesk

LEMMA PickedUpDesk ==
    ASSUME NEW job, NEW new, Live(job), Live(new), new.generation = job.generation,
           HolderOf(job.phase) = "handover", HolderOf(new.phase) = "agent"
    PROVE  Promise!Step(DeskOf(job), DeskOf(new))
<1>1. Promise!PicksUp(DeskOf(job), DeskOf(new))
  BY LiveDesk DEF Promise!PicksUp
<1> QED
  BY <1>1 DEF Promise!Step

LEMMA PhaseHolders ==
    /\ \A p \in VpsPhases : HolderOf(p) = "vps"
    /\ \A p \in AgentPhases : HolderOf(p) = "agent"
    /\ \A p \in ServerlessPhases : HolderOf(p) = "serverless"
    /\ HolderOf("handoff_to_agent") = "handover"
    /\ \A p \in {"pending", "cancelling", "completed"} : HolderOf(p) = "nobody"
BY PhaseExecutors, AbsentJobAssumption DEF HolderOf, VpsPhases, AgentPhases, ServerlessPhases,
   Executors

\* A step that replaces one job.
LEMMA ReplacedDesk ==
    ASSUME ServerInv, NEW j \in Present, NEW new,
           serverJobs' = [serverJobs EXCEPT ![j] = new],
           \/ DeskOf(new) = DeskOf(serverJobs[j])
           \/ Promise!Step(DeskOf(serverJobs[j]), DeskOf(new))
    PROVE  \A i \in Jobs : DeskStep(i)
<1>1. j \in Jobs /\ serverJobs[j] # NoJob /\ serverJobs'[j] = new
  BY DEF Present, ServerInv
<1>2. CASE new = NoJob
  <2>1. DeskAt(j)' = NoDesk
    BY <1>1, <1>2 DEF DeskAt
  <2>2. Promise!Step(DeskAt(j), DeskAt(j)')
    BY <2>1 DEF Promise!Step, Promise!Forgotten, Promise!Absent, NoDesk
  <2>3. \A i \in Jobs \ {j} : DeskAt(i)' = DeskAt(i)
    BY DEF ServerInv, DeskAt
  <2> QED
    BY <2>2, <2>3 DEF DeskStep
<1>3. CASE new # NoJob
  <2>1. DeskAt(j)' = DeskOf(new) /\ DeskAt(j) = DeskOf(serverJobs[j])
    BY <1>1, <1>3 DEF DeskAt
  <2>2. \A i \in Jobs \ {j} : DeskAt(i)' = DeskAt(i)
    BY DEF ServerInv, DeskAt
  <2> QED
    BY <2>1, <2>2 DEF DeskStep
<1> QED
  BY <1>2, <1>3

\* A step after which every job is as it was, or gone.
LEMMA RemovedDesk ==
    ASSUME \A i \in Jobs : serverJobs'[i] = serverJobs[i] \/ serverJobs'[i] = NoJob
    PROVE  \A i \in Jobs : DeskStep(i)
<1> SUFFICES ASSUME NEW i \in Jobs PROVE DeskStep(i)
  OBVIOUS
<1>1. CASE serverJobs'[i] = serverJobs[i]
  BY <1>1 DEF DeskStep, DeskAt
<1>2. CASE serverJobs'[i] = NoJob
  <2>1. DeskAt(i)' = NoDesk
    BY <1>2 DEF DeskAt
  <2> QED
    BY <2>1 DEF DeskStep, Promise!Step, Promise!Forgotten, Promise!Absent, NoDesk
<1> QED
  BY <1>1, <1>2

-----------------------------------------------------------------------------
(* The operations on one job                                                *)

LEMMA EligibleLive ==
    ASSUME ServerInv, NEW j \in Jobs, NEW o, Eligible(j, o)
    PROVE  /\ j \in Present /\ serverJobs[j] \in ServerJob
           /\ Live(serverJobs[j]) /\ ~serverJobs[j].cancel
<1>1. j \in Present /\ ~serverJobs[j].cancel /\ serverJobs[j].completedAge = None
  BY DEF Eligible, Owned
<1>2. serverJobs[j] \in SoundJob /\ serverJobs[j] \in ServerJob
  BY <1>1, PresentSound
<1> QED
  BY <1>1, <1>2 DEF Live, SoundJob

\* Flags and the watchdog are not seen.
LEMMA FlagsDesk ==
    ASSUME ServerInv, NEW j \in Jobs, NEW o \in Owners, NEW b \in BOOLEAN,
           \/ SetAgentPreference(j, o, b) \/ SetNativeAgentRequired(j, o, b)
           \/ SetBrowserAgentRequired(j, o, b)
           \/ RequestRescue(j, o) \/ RequestBestEffortStop(j, o)
    PROVE  \A i \in Jobs : DeskStep(i)
<1>1. j \in Present /\ serverJobs[j] \in ServerJob
  BY PresentSound DEF SetAgentPreference, SetNativeAgentRequired, SetBrowserAgentRequired,
     RequestRescue, RequestBestEffortStop, Owned, Eligible
<1>2. ASSUME NEW new, serverJobs' = [serverJobs EXCEPT ![j] = new],
             new.phase = serverJobs[j].phase, new.generation = serverJobs[j].generation,
             new.cancel = serverJobs[j].cancel, new.response = serverJobs[j].response
      PROVE  \A i \in Jobs : DeskStep(i)
  BY <1>1, <1>2, SameDesk, ReplacedDesk
<1>3. CASE SetAgentPreference(j, o, b)
  <2> DEFINE new == [serverJobs[j] EXCEPT !.preference = b]
  <2>1. serverJobs' = [serverJobs EXCEPT ![j] = new]
    BY <1>3 DEF SetAgentPreference, ServerInv
  <2> QED
    BY <1>1, <1>2, <2>1 DEF ServerJob
<1>4. CASE SetNativeAgentRequired(j, o, b)
  <2> DEFINE new == IF b THEN Contracted(serverJobs[j], TRUE, FALSE)
                    ELSE [serverJobs[j] EXCEPT !.nativeRequired = FALSE]
  <2>1. serverJobs' = [serverJobs EXCEPT ![j] = new]
    BY <1>4 DEF SetNativeAgentRequired, ServerInv
  <2> QED
    BY <1>1, <1>2, <2>1 DEF ServerJob, Contracted
<1>5. CASE SetBrowserAgentRequired(j, o, b)
  <2> DEFINE new == IF b THEN Contracted(serverJobs[j], FALSE, TRUE)
                    ELSE [serverJobs[j] EXCEPT !.browserRequired = FALSE]
  <2>1. serverJobs' = [serverJobs EXCEPT ![j] = new]
    BY <1>5 DEF SetBrowserAgentRequired, ServerInv
  <2> QED
    BY <1>1, <1>2, <2>1 DEF ServerJob, Contracted
<1>6. CASE RequestRescue(j, o)
  <2> DEFINE new == [serverJobs[j] EXCEPT !.rescueRequested = TRUE, !.preference = FALSE]
  <2>1. serverJobs' = [serverJobs EXCEPT ![j] = new]
    BY <1>6 DEF RequestRescue, ServerInv
  <2> QED
    BY <1>1, <1>2, <2>1 DEF ServerJob
<1>7. CASE RequestBestEffortStop(j, o)
  <2> DEFINE new == [serverJobs[j] EXCEPT !.stop = TRUE]
  <2>1. serverJobs' = [serverJobs EXCEPT ![j] = new]
    BY <1>7 DEF RequestBestEffortStop, ServerInv
  <2> QED
    BY <1>1, <1>2, <2>1 DEF ServerJob
<1> QED
  BY <1>3, <1>4, <1>5, <1>6, <1>7

LEMMA PrepareDesk ==
    ASSUME ServerInv, NEW j \in Jobs, NEW o \in Owners,
           PrepareAgent(j, o) \/ PrepareServerless(j, o) \/ PrepareVps(j, o)
    PROVE  \A i \in Jobs : DeskStep(i)
<1> DEFINE job == serverJobs[j]
<1>1. Eligible(j, o)
  BY DEF PrepareAgent, PrepareServerless, PrepareVps
<1>2. j \in Present /\ job \in ServerJob /\ Live(job)
  BY <1>1, EligibleLive
<1>3. /\ HolderOf("agent_waiting") = "agent" /\ HolderOf("serverless_queued") = "serverless"
      /\ HolderOf("vps_queued") = "vps" /\ HolderOf("pending") = "nobody"
      /\ HolderOf("handoff_to_agent") = "handover"
  BY PhaseHolders, PhaseTypes
<1>4. ASSUME NEW new, serverJobs' = [serverJobs EXCEPT ![j] = new],
             new.cancel = job.cancel, new.response = job.response,
             job.phase = "pending", new.generation = job.generation + 1,
             new.phase \in {"agent_waiting", "serverless_queued", "vps_queued"}
      PROVE  \A i \in Jobs : DeskStep(i)
  <2>1. <<HolderOf(job.phase), HolderOf(new.phase)>> \in Promise!Routes
    BY <1>3, <1>4 DEF Promise!Routes
  <2>2. Live(new)
    BY <1>2, <1>4 DEF Live
  <2> QED
    BY <1>2, <1>4, <2>1, <2>2, MovedDesk, ReplacedDesk
<1>5. ASSUME NEW new, serverJobs' = [serverJobs EXCEPT ![j] = new],
             new.cancel = job.cancel, new.response = job.response,
             new.generation = job.generation,
             \/ new.phase = job.phase
             \/ new.phase = "agent_waiting" /\ job.phase = "handoff_to_agent"
      PROVE  \A i \in Jobs : DeskStep(i)
  <2>1. Live(new)
    BY <1>2, <1>5 DEF Live
  <2>2. CASE new.phase = job.phase
    BY <1>2, <1>5, <2>2, SameDesk, ReplacedDesk
  <2>3. CASE new.phase = "agent_waiting" /\ job.phase = "handoff_to_agent"
    BY <1>2, <1>3, <1>5, <2>1, <2>3, PickedUpDesk, ReplacedDesk
  <2> QED
    BY <1>5, <2>2, <2>3
<1>6. CASE PrepareAgent(j, o)
  <2> DEFINE reserved == [job EXCEPT !.generation = job.generation + 1, !.phase = "agent_waiting",
                                     !.trusted = FALSE, !.elapsed = Started(job)]
             kept == [job EXCEPT !.phase = "agent_waiting", !.elapsed = Started(job)]
  <2>1. \/ job.phase = "pending" /\ serverJobs' = [serverJobs EXCEPT ![j] = reserved]
        \/ /\ job.phase \in {"handoff_to_agent", "agent_waiting"}
           /\ serverJobs' = [serverJobs EXCEPT ![j] = kept]
    BY <1>6 DEF PrepareAgent
  <2>2. /\ reserved.cancel = job.cancel /\ reserved.response = job.response
        /\ reserved.phase = "agent_waiting" /\ reserved.generation = job.generation + 1
        /\ kept.cancel = job.cancel /\ kept.response = job.response
        /\ kept.phase = "agent_waiting" /\ kept.generation = job.generation
    BY <1>2 DEF ServerJob
  <2> HIDE DEF reserved, kept
  <2> QED
    BY <1>4, <1>5, <2>1, <2>2
<1>7. CASE PrepareServerless(j, o)
  <2> DEFINE reserved == [job EXCEPT !.generation = job.generation + 1,
                                     !.phase = "serverless_queued", !.trusted = FALSE,
                                     !.preference = FALSE, !.elapsed = Started(job)]
             kept == [job EXCEPT !.elapsed = Started(job)]
  <2>1. \/ job.phase = "pending" /\ serverJobs' = [serverJobs EXCEPT ![j] = reserved]
        \/ serverJobs' = [serverJobs EXCEPT ![j] = kept]
    BY <1>7 DEF PrepareServerless, ServerInv
  <2>2. /\ reserved.cancel = job.cancel /\ reserved.response = job.response
        /\ reserved.phase = "serverless_queued" /\ reserved.generation = job.generation + 1
        /\ kept.cancel = job.cancel /\ kept.response = job.response
        /\ kept.phase = job.phase /\ kept.generation = job.generation
    BY <1>2 DEF ServerJob
  <2> HIDE DEF reserved, kept
  <2> QED
    BY <1>4, <1>5, <2>1, <2>2
<1>8. CASE PrepareVps(j, o)
  <2> DEFINE reserved == [job EXCEPT !.generation = job.generation + 1, !.phase = "vps_queued",
                                     !.trusted = FALSE, !.elapsed = Started(job)]
             kept == [job EXCEPT !.trusted = FALSE, !.elapsed = Started(job)]
  <2>1. \/ job.phase = "pending" /\ serverJobs' = [serverJobs EXCEPT ![j] = reserved]
        \/ serverJobs' = [serverJobs EXCEPT ![j] = kept]
    BY <1>8 DEF PrepareVps
  <2>2. /\ reserved.cancel = job.cancel /\ reserved.response = job.response
        /\ reserved.phase = "vps_queued" /\ reserved.generation = job.generation + 1
        /\ kept.cancel = job.cancel /\ kept.response = job.response
        /\ kept.phase = job.phase /\ kept.generation = job.generation
    BY <1>2 DEF ServerJob
  <2> HIDE DEF reserved, kept
  <2> QED
    BY <1>4, <1>5, <2>1, <2>2
<1> QED
  BY <1>6, <1>7, <1>8

LEMMA MarkRunningDesk ==
    ASSUME ServerInv, NEW f \in fences,
           MarkAgentRunning(f) \/ MarkServerlessRunning(f) \/ MarkVpsRunning(f)
    PROVE  \A i \in Jobs : DeskStep(i)
<1> DEFINE j == f.job
           job == serverJobs[j]
<1>1. PICK from \in Phases, to \in Phases :
        /\ MarkRunning(f, from, to)
        /\ HolderOf(from) = HolderOf(to)
  <2>1. /\ HolderOf("agent_waiting") = HolderOf("agent_running")
        /\ HolderOf("serverless_queued") = HolderOf("serverless_running")
        /\ HolderOf("vps_queued") = HolderOf("vps_running")
    BY PhaseHolders DEF VpsPhases, AgentPhases, ServerlessPhases
  <2> QED
    BY <2>1 DEF MarkAgentRunning, MarkServerlessRunning, MarkVpsRunning, Phases
<1>2. j \in Jobs
  BY DEF ServerInv, Fence
<1>3. Eligible(j, f.owner) /\ job.phase = from
  BY <1>1 DEF MarkRunning, Matches, Eligible
<1>4. j \in Present /\ job \in ServerJob /\ Live(job)
  BY <1>2, <1>3, EligibleLive
<1> DEFINE new == [job EXCEPT !.phase = to]
<1>5. serverJobs' = [serverJobs EXCEPT ![j] = new]
  BY <1>1, <1>2 DEF MarkRunning, ServerInv
<1>6. /\ new.phase = to /\ new.generation = job.generation
      /\ new.cancel = job.cancel /\ new.response = job.response
  BY <1>4 DEF ServerJob
<1> HIDE DEF new
<1>7. Live(new)
  BY <1>4, <1>6 DEF Live
<1> QED
  BY <1>1, <1>3, <1>4, <1>5, <1>6, <1>7, HeldDesk, ReplacedDesk

LEMMA FallbackDesk ==
    ASSUME ServerInv, NEW f \in fences, FallbackServerlessToVps(f) \/ FallbackAgentToVps(f)
    PROVE  \A i \in Jobs : DeskStep(i)
<1> DEFINE j == f.job
           job == serverJobs[j]
<1>1. j \in Jobs
  BY DEF ServerInv, Fence
<1>2. Eligible(j, f.owner) /\ job.phase \in ServerlessPhases \cup AgentPhases
  BY DEF FallbackServerlessToVps, FallbackAgentToVps, FallbackEligible
<1>3. j \in Present /\ job \in ServerJob /\ Live(job)
  BY <1>1, <1>2, EligibleLive
<1>4. ASSUME NEW new, serverJobs' = [serverJobs EXCEPT ![j] = new],
             new.phase = "vps_queued", new.generation = job.generation + 1,
             new.cancel = job.cancel, new.response = job.response
      PROVE  \A i \in Jobs : DeskStep(i)
  <2>1. Live(new)
    BY <1>3, <1>4 DEF Live
  <2>2. HolderOf(job.phase) \in {"serverless", "agent"} /\ HolderOf(new.phase) = "vps"
    BY <1>2, <1>4, PhaseHolders, PhaseTypes
  <2>3. <<HolderOf(job.phase), HolderOf(new.phase)>> \in Promise!Routes
    BY <2>2 DEF Promise!Routes
  <2> QED
    BY <1>3, <1>4, <2>1, <2>3, MovedDesk, ReplacedDesk
<1>5. CASE FallbackServerlessToVps(f)
  <2> DEFINE new == [job EXCEPT !.generation = job.generation + 1, !.phase = "vps_queued",
                                !.trusted = FALSE, !.preference = FALSE]
  <2>1. serverJobs' = [serverJobs EXCEPT ![j] = new]
    BY <1>5 DEF FallbackServerlessToVps
  <2>2. /\ new.phase = "vps_queued" /\ new.generation = job.generation + 1
        /\ new.cancel = job.cancel /\ new.response = job.response
    BY <1>3 DEF ServerJob
  <2> HIDE DEF new
  <2> QED
    BY <1>4, <2>1, <2>2
<1>6. CASE FallbackAgentToVps(f)
  <2> DEFINE rescue == job.rescueRequested /\ ~job.rescueGranted
             new == [job EXCEPT !.generation = job.generation + 1, !.phase = "vps_queued",
                                !.trusted = FALSE,
                                !.elapsed = IF rescue THEN 0 ELSE job.elapsed,
                                !.preference = IF rescue THEN FALSE ELSE job.preference,
                                !.rescueGranted = IF rescue THEN TRUE ELSE job.rescueGranted,
                                !.rescueRequested = FALSE]
  <2>1. serverJobs' = [serverJobs EXCEPT ![j] = new]
    BY <1>6 DEF FallbackAgentToVps
  <2>2. /\ new.phase = "vps_queued" /\ new.generation = job.generation + 1
        /\ new.cancel = job.cancel /\ new.response = job.response
    BY <1>3 DEF ServerJob
  <2> HIDE DEF new
  <2> QED
    BY <1>4, <2>1, <2>2
<1> QED
  BY <1>5, <1>6

\* The answer is written by the holder, under its term; then old answers are pruned.
LEMMA CompleteDesk ==
    ASSUME ServerInv, NEW f \in fences, CompleteFenced(f)
    PROVE  \A i \in Jobs : DeskStep(i)
<1> DEFINE j == f.job
           job == serverJobs[j]
           new == [job EXCEPT !.response = f, !.completedAge = 0, !.phase = "completed"]
           sj == [serverJobs EXCEPT ![j] = new]
<1>1. f \in Fence /\ j \in Jobs /\ f # None
  BY AbsentJobAssumption DEF ServerInv, Fence
<1>2. Eligible(j, f.owner) /\ f.generation = job.generation /\ f.executor = ExecutorOf(job.phase)
  BY DEF CompleteFenced, Matches, Eligible
<1>3. j \in Present /\ job \in ServerJob /\ Live(job)
  BY <1>1, <1>2, EligibleLive
<1>pruned. serverJobs' \in Pruned(sj)
  BY DEF CompleteFenced
<1>4. HolderOf(job.phase) = f.executor /\ f.executor \in Promise!Workers
  <2>1. f.executor \in {"vps", "agent", "serverless"}
    BY <1>1 DEF Fence, Executors
  <2>2. job.phase # "handoff_to_agent"
    BY <1>2, <2>1, PhaseExecutors, AbsentJobAssumption DEF Executors
  <2> QED
    BY <1>2, <2>1, <2>2, AbsentJobAssumption DEF HolderOf, Executors, Promise!Workers
<1>5. new.response = f /\ new.phase = "completed" /\ new.generation = job.generation
  BY <1>3 DEF ServerJob
<1>6. new \in ServerJob
  BY <1>1, <1>3, PhaseTypes, Zenon DEF ServerJob
<1> HIDE DEF new
<1>7. DeskOf(new) = [state |-> "answered", holder |-> "nobody", term |-> job.generation,
                     answer |-> <<job.generation, f.executor>>]
  BY <1>1, <1>2, <1>5, PhaseHolders DEF DeskOf
<1>8. Promise!Answers(DeskOf(job), DeskOf(new))
  BY <1>3, <1>4, <1>7, LiveDesk DEF Promise!Answers
<1>9. /\ sj \in [Jobs -> ServerJob \cup {NoJob}] /\ sj[j] = new
      /\ \A i \in Jobs \ {j} : sj[i] = serverJobs[i]
  BY <1>1, <1>6, SoundIsPresent DEF ServerInv
<1> HIDE DEF sj
<1>10. \A i \in Jobs : serverJobs'[i] = sj[i] \/ serverJobs'[i] = NoJob
  BY <1>9, <1>pruned, PruneOnlyRemoves
<1>11. ASSUME NEW i \in Jobs PROVE DeskStep(i)
  <2>1. CASE serverJobs'[i] = NoJob
    <3>1. DeskAt(i)' = NoDesk
      BY <2>1 DEF DeskAt
    <3> QED
      BY <3>1 DEF DeskStep, Promise!Step, Promise!Forgotten, Promise!Absent, NoDesk
  <2>2. CASE serverJobs'[i] # NoJob /\ i # j
    BY <1>9, <1>10, <2>2 DEF DeskStep, DeskAt
  <2>3. CASE serverJobs'[i] # NoJob /\ i = j
    <3>1. DeskAt(i) = DeskOf(job) /\ DeskAt(i)' = DeskOf(new)
      BY <1>3, <1>9, <1>10, <2>3 DEF DeskAt, Present
    <3> QED
      BY <1>8, <3>1 DEF DeskStep, Promise!Step
  <2> QED
    BY <2>1, <2>2, <2>3
<1> QED
  BY <1>11

LEMMA CancelDesk ==
    ASSUME ServerInv, NEW j \in Jobs, NEW o \in Owners, CancelServerJob(j, o)
    PROVE  \A i \in Jobs : DeskStep(i)
<1> DEFINE job == serverJobs[j]
           new == [job EXCEPT !.cancel = TRUE, !.generation = job.generation + 1,
                              !.phase = "cancelling"]
<1>1. j \in Present /\ job \in ServerJob
  BY PresentSound DEF CancelServerJob, Owned
<1>2. CASE job.response # None
  <2>1. serverJobs' = [serverJobs EXCEPT ![j] = NoJob]
    BY <1>2 DEF CancelServerJob
  <2> QED
    BY <2>1, RemovedDesk DEF ServerInv
<1>3. CASE job.response = None
  <2>1. serverJobs' = [serverJobs EXCEPT ![j] = new]
    BY <1>3 DEF CancelServerJob
  <2>2. /\ new.cancel /\ new.response = None /\ new.phase = "cancelling"
        /\ new.generation = job.generation + 1
    BY <1>1, <1>3 DEF ServerJob
  <2> HIDE DEF new
  <2>3. DeskOf(new) = [state |-> "cancelled", holder |-> "nobody", term |-> job.generation + 1,
                       answer |-> None]
    BY <2>2, PhaseHolders DEF DeskOf
  <2>4. DeskOf(job).state \in {"open", "cancelled"} /\ DeskOf(job).term = job.generation
    BY <1>3 DEF DeskOf
  <2>5. Promise!Step(DeskOf(job), DeskOf(new))
    BY <2>3, <2>4 DEF Promise!Step, Promise!Cancels
  <2> QED
    BY <1>1, <2>1, <2>5, ReplacedDesk
<1> QED
  BY <1>2, <1>3

\* The id of a forgotten or an answered job is claimed: the claim prunes first.
LEMMA ClaimDesk ==
    ASSUME ServerInv, NEW j \in Jobs, NEW o \in Owners, NEW scope \in Scopes \cup {None},
           NEW fingerprint \in Fingerprints \cup {None}, NEW budget \in Budgets \cup {None},
           Claim(j, o, scope, fingerprint, budget)
    PROVE  \A i \in Jobs : DeskStep(i)
<1> DEFINE new == NewJob(o, scope, fingerprint, budget)
<1>1. PICK sj \in Pruned(serverJobs) : sj[j] = NoJob /\ serverJobs' = [sj EXCEPT ![j] = new]
  BY DEF Claim
<1>2. serverJobs \in [Jobs -> ServerJob \cup {NoJob}]
  BY DEF ServerInv, SoundJob
<1>3. /\ sj \in [Jobs -> ServerJob \cup {NoJob}]
      /\ \A i \in Jobs : \/ sj[i] = serverJobs[i]
                         \/ /\ sj[i] = NoJob /\ serverJobs[i] # NoJob
                            /\ serverJobs[i].completedAge # None
  BY <1>2, PruneOnlyRemoves
<1>4. new # NoJob /\ DeskOf(new) = Promise!Opened
  <2>1. new # NoJob
    BY NewJobSound, SoundIsPresent
  <2>2. DeskOf(new) = Promise!Opened
    BY PhaseHolders DEF NewJob, DeskOf, Promise!Opened
  <2> QED
    BY <2>1, <2>2
<1> HIDE DEF new
<1>5. DeskAt(j)' = Promise!Opened
  BY <1>1, <1>3, <1>4 DEF DeskAt
<1>6. DeskAt(j).state \in {"absent", "answered"}
  <2>1. CASE serverJobs[j] = NoJob
    BY <2>1 DEF DeskAt, NoDesk
  <2>2. CASE serverJobs[j] # NoJob
    <3>1. serverJobs[j] \in SoundJob /\ serverJobs[j].completedAge # None
      BY <1>1, <1>3, <2>2 DEF ServerInv
    <3>2. serverJobs[j].response # None
      BY <3>1 DEF SoundJob
    <3> QED
      BY <2>2, <3>2 DEF DeskAt, DeskOf
  <2> QED
    BY <2>1, <2>2
<1>7. DeskStep(j)
  BY <1>5, <1>6 DEF DeskStep, Promise!Step, Promise!Opens
<1>8. ASSUME NEW i \in Jobs \ {j} PROVE DeskStep(i)
  <2>1. serverJobs'[i] = serverJobs[i] \/ serverJobs'[i] = NoJob
    BY <1>1, <1>3
  <2>2. CASE serverJobs'[i] = serverJobs[i]
    BY <2>2 DEF DeskStep, DeskAt
  <2>3. CASE serverJobs'[i] = NoJob
    <3>1. DeskAt(i)' = NoDesk
      BY <2>3 DEF DeskAt
    <3> QED
      BY <3>1 DEF DeskStep, Promise!Step, Promise!Forgotten, Promise!Absent, NoDesk
  <2> QED
    BY <2>1, <2>2, <2>3
<1> QED
  BY <1>7, <1>8

-----------------------------------------------------------------------------
(* The operations on several jobs                                           *)

LEMMA HandoffDesk ==
    ASSUME ServerInv, NEW js \in SUBSET Jobs, NEW trusted \in BOOLEAN, HandoffTo(js, trusted),
           \A j \in js : HandoffEligible(j) /\ serverJobs[j].phase \in {"pending"} \cup VpsPhases
    PROVE  \A i \in Jobs : DeskStep(i)
<1>1. ASSUME NEW i \in js PROVE DeskStep(i)
  <2> DEFINE job == serverJobs[i]
             new == [job EXCEPT !.generation = job.generation + 1, !.phase = "handoff_to_agent",
                                !.trusted = trusted]
  <2>1. Eligible(i, job.owner)
    BY DEF HandoffEligible, IsOpen, Eligible, Owned
  <2>2. i \in Present /\ job \in ServerJob /\ Live(job)
    BY <2>1, EligibleLive
  <2>3. serverJobs'[i] = new
    BY DEF HandoffTo, HandedOff
  <2>4. new \in ServerJob
    <3>1. job.generation + 1 \in Nat /\ "handoff_to_agent" \in Phases
      BY <2>2, PhaseTypes DEF ServerJob
    <3> QED
      BY <2>2, <3>1, Zenon DEF ServerJob
  <2>5. /\ new.phase = "handoff_to_agent" /\ new.generation = job.generation + 1
        /\ new.cancel = job.cancel /\ new.response = job.response
    BY <2>2 DEF ServerJob
  <2> HIDE DEF new
  <2>6. Live(new)
    BY <2>2, <2>5 DEF Live
  <2>7. HolderOf(job.phase) \in {"nobody", "vps"} /\ HolderOf(new.phase) = "handover"
    BY <2>5, PhaseHolders
  <2>8. <<HolderOf(job.phase), HolderOf(new.phase)>> \in Promise!Routes
    BY <2>7 DEF Promise!Routes
  <2>9. Promise!Step(DeskOf(job), DeskOf(new))
    BY <2>2, <2>5, <2>6, <2>8, MovedDesk
  <2>10. DeskAt(i) = DeskOf(job) /\ DeskAt(i)' = DeskOf(new)
    BY <2>2, <2>3, <2>4, AbsentJobAssumption DEF DeskAt, Present
  <2> QED
    BY <2>9, <2>10 DEF DeskStep
<1>2. ASSUME NEW i \in Jobs \ js PROVE DeskStep(i)
  <2>1. serverJobs'[i] = serverJobs[i]
    BY DEF HandoffTo
  <2> QED
    BY <2>1 DEF DeskStep, DeskAt
<1> QED
  BY <1>1, <1>2

LEMMA AgeDesk ==
    ASSUME ServerInv, AgeServerJobs
    PROVE  \A i \in Jobs : DeskStep(i)
<1> SUFFICES ASSUME NEW i \in Jobs PROVE DeskStep(i)
  OBVIOUS
<1>1. CASE serverJobs[i] = NoJob
  <2>1. serverJobs'[i] = NoJob
    BY <1>1 DEF AgeServerJobs, Present
  <2> QED
    BY <1>1, <2>1 DEF DeskStep, DeskAt
<1>2. CASE serverJobs[i] # NoJob
  <2> DEFINE job == serverJobs[i]
             a == IF job.completedAge # None /\ job.completedAge <= ResultTTL
                  THEN job.completedAge + 1 ELSE job.completedAge
             e == IF job.elapsed # None /\ job.elapsed < job.budget
                  THEN job.elapsed + 1 ELSE job.elapsed
             new == [job EXCEPT !.completedAge = a, !.elapsed = e]
  <2>1. i \in Present /\ job \in ServerJob
    BY <1>2, PresentSound DEF Present
  <2>2. serverJobs'[i] = new
    BY <2>1 DEF AgeServerJobs
  <2>3. /\ new.phase = job.phase /\ new.generation = job.generation
        /\ new.cancel = job.cancel /\ new.response = job.response
    BY <2>1 DEF ServerJob
  <2> HIDE DEF new
  <2>4. DeskOf(new) = DeskOf(job)
    BY <2>3, SameDesk
  <2>5. CASE new = NoJob
    <3>1. DeskAt(i)' = NoDesk
      BY <2>2, <2>5 DEF DeskAt
    <3> QED
      BY <3>1 DEF DeskStep, Promise!Step, Promise!Forgotten, Promise!Absent, NoDesk
  <2>6. CASE new # NoJob
    BY <1>2, <2>2, <2>4, <2>6 DEF DeskStep, DeskAt
  <2> QED
    BY <2>5, <2>6
<1> QED
  BY <1>1, <1>2

-----------------------------------------------------------------------------
LEMMA NextDesk ==
    ASSUME ServerInv, [ServerNext]_serverVars
    PROVE  \A i \in Jobs : DeskStep(i)
<1>1. CASE UNCHANGED serverVars
  BY <1>1, RemovedDesk DEF serverVars
<1>2. ASSUME NEW j \in Jobs, NEW o \in Owners, JobStep(j, o)
      PROVE  \A i \in Jobs : DeskStep(i)
  <2>1. CASE \E scope \in Scopes \cup {None}, fingerprint \in Fingerprints \cup {None},
                budget \in Budgets \cup {None} : Claim(j, o, scope, fingerprint, budget)
    BY <2>1, ClaimDesk
  <2>2. CASE \E b \in BOOLEAN : \/ SetAgentPreference(j, o, b)
                               \/ SetNativeAgentRequired(j, o, b)
                               \/ SetBrowserAgentRequired(j, o, b)
    BY <2>2, FlagsDesk
  <2>3. CASE RequestRescue(j, o) \/ RequestBestEffortStop(j, o)
    BY <2>3, FlagsDesk
  <2>4. CASE JobHandoffEligible(j, o) /\ HandoffTo({j}, FALSE)
    <3>1. \A i \in {j} : HandoffEligible(i) /\ serverJobs[i].phase \in {"pending"} \cup VpsPhases
      BY <2>4 DEF JobHandoffEligible
    <3>2. {j} \in SUBSET Jobs /\ FALSE \in BOOLEAN /\ HandoffTo({j}, FALSE)
      BY <2>4
    <3> QED
      BY <3>1, <3>2, HandoffDesk
  <2>5. CASE PrepareAgent(j, o) \/ PrepareServerless(j, o) \/ PrepareVps(j, o)
    BY <2>5, PrepareDesk
  <2>6. CASE CancelServerJob(j, o)
    BY <2>6, CancelDesk
  <2>7. CASE Abandon(j, o)
    BY <2>7, RemovedDesk DEF Abandon, ServerInv
  <2> QED
    BY <1>2, <2>1, <2>2, <2>3, <2>4, <2>5, <2>6, <2>7 DEF JobStep
<1>3. ASSUME NEW f \in fences, FenceStep(f)
      PROVE  \A i \in Jobs : DeskStep(i)
  BY <1>3, MarkRunningDesk, FallbackDesk, CompleteDesk DEF FenceStep
<1>4. ASSUME NEW o \in Owners, HandoffTo(OwnerHandoffJobs(o), FALSE)
      PROVE  \A i \in Jobs : DeskStep(i)
  <2>1. /\ OwnerHandoffJobs(o) \in SUBSET Jobs
        /\ \A j \in OwnerHandoffJobs(o) :
              HandoffEligible(j) /\ serverJobs[j].phase \in {"pending"} \cup VpsPhases
    BY DEF OwnerHandoffJobs
  <2> QED
    BY <1>4, <2>1, HandoffDesk
<1>5. ASSUME NEW js \in SUBSET Jobs, TrustedHandoff(js)
      PROVE  \A i \in Jobs : DeskStep(i)
  <2>1. \A j \in js : HandoffEligible(j) /\ serverJobs[j].phase \in {"pending"} \cup VpsPhases
    BY <1>5 DEF TrustedHandoff, TrustedHandoffEligible, VpsPhases
  <2> QED
    BY <1>5, <2>1, HandoffDesk DEF TrustedHandoff
<1>6. CASE PruneCompleted
  <2>1. serverJobs \in [Jobs -> ServerJob \cup {NoJob}]
    BY DEF ServerInv, SoundJob
  <2> QED
    BY <1>6, <2>1, PruneOnlyRemoves, RemovedDesk DEF PruneCompleted
<1>7. CASE AgeServerJobs
  BY <1>7, AgeDesk
<1> QED
  BY <1>1, <1>2, <1>3, <1>4, <1>5, <1>6, <1>7 DEF ServerNext

\* Every step of the pool, whatever it does to the flags, contracts and fences of the jobs,
\* is for each job a step that CanonicalJob allows, or none.
THEOREM JobsKeepPromise == ServerSpec => ImplementsPromise
<1>1. ServerInit => Promise!Init
  BY DEF ServerInit, Promise!Init, Promise!Absent, NoDesk
<1>2. ASSUME ServerInv, [ServerNext]_serverVars
      PROVE  [Promise!Next]_([j \in Jobs |-> IF serverJobs[j] = NoJob THEN NoDesk
                                              ELSE DeskOf(serverJobs[j])])
  <2>1. \A i \in Jobs : DeskStep(i)
    BY <1>2, NextDesk
  <2> QED
    BY <2>1 DEF Promise!Next, DeskStep, DeskAt
<1> QED
  BY <1>1, <1>2, ServerSoundness, PTL DEF ServerSpec, ImplementsPromise, Promise!Spec
=============================================================================
