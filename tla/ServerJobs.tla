----------------------------- MODULE ServerJobs -----------------------------
(***************************************************************************)
(* The canonical jobs of the solver pool: the `server_jobs` field of       *)
(* SolverPoolState in rust_api/src/solver_pool.rs.  A canonical job is one *)
(* schedule request the server owns; it moves between three executors (the *)
(* VPS, an Agent, Cloud Run) and publishes one response.  Whoever executes *)
(* it holds a fence <generation, executor>; moving the job to another      *)
(* executor raises the generation, so that an older fence cannot write.    *)
(*                                                                         *)
(* The callers (coordinator threads, HTTP handlers, the Agent broker) are  *)
(* the most general ones: any method at any time, with any fence that was  *)
(* ever issued for the request id.  `fences` and `claims` are history: the *)
(* fences callers may still hold, and how often the id was claimed.  A     *)
(* response is abstracted to the fence of whoever wrote it.                *)
(*                                                                         *)
(* Times are ages: since completion (until the result expires) and since   *)
(* the watchdog started (until the budget is spent).                       *)
(***************************************************************************)
EXTENDS SolverIds

CONSTANTS Scopes,                \* schedule scopes (school and grade); a claim may have none
          Fingerprints,          \* contents of a schedule request; a claim may have none
          Budgets,               \* watchdog budgets, in ticks
          MaxUnresolved,         \* MAX_UNRESOLVED_SERVER_JOBS
          MaxUnresolvedPerOwner, \* MAX_UNRESOLVED_SERVER_JOBS_PER_OWNER
          MaxResults,            \* MAX_SERVER_RESULTS
          ResultTTL,             \* SERVER_RESULT_TTL_MS, in ticks
          MaxGeneration,         \* bound on the execution generation (a u64 in the code)
          MaxClaims,             \* bound on how often one id is claimed
          NoJob, None

ASSUME ServerJobsAssumption ==
    /\ Budgets \subseteq Nat \ {0}
    /\ MaxUnresolved \in Nat /\ MaxUnresolvedPerOwner \in Nat
    /\ MaxResults \in Nat /\ ResultTTL \in Nat
    /\ MaxGeneration \in Nat /\ MaxClaims \in Nat

Executors == {"vps", "agent", "serverless"}

Phases == {"pending", "serverless_queued", "serverless_running", "vps_queued", "vps_running",
           "handoff_to_agent", "agent_waiting", "agent_running", "cancelling", "completed"}

VpsPhases        == {"vps_queued", "vps_running"}
AgentPhases      == {"agent_waiting", "agent_running"}
ServerlessPhases == {"serverless_queued", "serverless_running"}

ExecutorOf(phase) ==
    CASE phase \in ServerlessPhases -> "serverless"
      [] phase \in VpsPhases        -> "vps"
      [] phase \in AgentPhases      -> "agent"
      [] OTHER                      -> None

Fence == [job : Jobs, owner : Owners, claim : Nat, generation : Nat, executor : Executors]

ServerJob == [owner           : Owners,
              scope           : Scopes \cup {None},
              fingerprint     : Fingerprints \cup {None},
              trusted         : BOOLEAN,           \* trusted_worker_eligible
              preference      : BOOLEAN,           \* agent_preference_enabled
              nativeRequired  : BOOLEAN,
              browserRequired : BOOLEAN,
              budget          : Budgets \cup {None},
              elapsed         : Nat \cup {None},   \* since watchdog_started_ms
              rescueRequested : BOOLEAN,           \* no_checkpoint_vps_rescue_requested
              rescueGranted   : BOOLEAN,           \* no_checkpoint_vps_rescue_granted
              cancel          : BOOLEAN,           \* cancel_requested
              stop            : BOOLEAN,           \* best_effort_stop_requested
              phase           : Phases,
              generation      : Nat,
              completedAge    : Nat \cup {None},   \* since completed_ms
              response        : Fence \cup {None}]

ASSUME AbsentJobAssumption ==
    /\ NoJob \notin ServerJob
    /\ None \notin Fence /\ None \notin Nat /\ None \notin Executors
    /\ None \notin Scopes /\ None \notin Fingerprints

VARIABLES serverJobs, fences, claims

serverVars == <<serverJobs, fences, claims>>

-----------------------------------------------------------------------------
Present   == {j \in Jobs : serverJobs[j] # NoJob}
Owned(j, o) == j \in Present /\ serverJobs[j].owner = o
IsOpen(j)   == j \in Present /\ serverJobs[j].completedAge = None
Completed == {j \in Present : serverJobs[j].completedAge # None}
Unresolved == Present \ Completed

\* the job may still change executor
Eligible(j, o) ==
    /\ Owned(j, o)
    /\ ~serverJobs[j].cancel
    /\ serverJobs[j].completedAge = None

AgentOnly(j)   == serverJobs[j].nativeRequired \/ serverJobs[j].browserRequired
RescuePending(j) == serverJobs[j].rescueRequested \/ serverJobs[j].rescueGranted

\* Faulty variant (see PROJECT.json, mutants): reserving an executor leaves the watchdog off.
NeverStarted(job) == job.elapsed

\* start_server_watchdog
Started(job) == IF job.budget # None /\ job.elapsed = None THEN 0 ELSE job.elapsed

FenceOf(j, job, executor) ==
    [job |-> j, owner |-> job.owner, claim |-> claims[j],
     generation |-> job.generation, executor |-> executor]

\* the caller receives a fence for the job as it is after this step
Issue(j, executor) ==
    fences' = fences \cup {FenceOf(j, serverJobs'[j], executor)}

HasGeneration(j) == serverJobs[j].generation < MaxGeneration

\* prune_completed_server_jobs: what expired goes, and then the oldest results
\* above the limit.  Equal ages fall back on creation time and id in the code;
\* that choice is left open here.
ResultsOf(sj) == {j \in Jobs : sj[j] # NoJob /\ sj[j].completedAge # None}
ExpiredOf(sj) == {j \in ResultsOf(sj) : sj[j].completedAge > ResultTTL}

\* Faulty variant: one result too many is kept.
SuperfluousButOne(sj, victims) ==
    LET kept == ResultsOf(sj) \ ExpiredOf(sj) IN
    /\ victims \subseteq kept
    /\ Cardinality(victims) = IF Cardinality(kept) > MaxResults + 1
                              THEN Cardinality(kept) - (MaxResults + 1) ELSE 0
    /\ \A v \in victims, k \in kept \ victims : sj[v].completedAge >= sj[k].completedAge

Superfluous(sj, victims) ==
    LET kept == ResultsOf(sj) \ ExpiredOf(sj) IN
    /\ victims \subseteq kept
    /\ Cardinality(victims) = IF Cardinality(kept) > MaxResults
                              THEN Cardinality(kept) - MaxResults ELSE 0
    /\ \A v \in victims, k \in kept \ victims : sj[v].completedAge >= sj[k].completedAge

Without(sj, dropped) == [j \in Jobs |-> IF j \in dropped THEN NoJob ELSE sj[j]]

\* the registries a prune of sj may leave
Pruned(sj) ==
    {Without(sj, ExpiredOf(sj) \cup victims) :
        victims \in {v \in SUBSET ResultsOf(sj) : Superfluous(sj, v)}}

-----------------------------------------------------------------------------
(* claim_server_job_with_scope_progress_and_watchdog                        *)

\* Faulty variant: the scope of a schedule is not compared, only its contents.
SameContents(sj, o, scope, fingerprint) ==
    {i \in Jobs : /\ sj[i] # NoJob /\ sj[i].owner = o
                  /\ sj[i].completedAge = None /\ ~sj[i].cancel
                  /\ fingerprint # None /\ sj[i].fingerprint = fingerprint}

\* an unresolved job of this account already works on the same schedule
SameSchedule(sj, o, scope, fingerprint) ==
    {i \in Jobs : /\ sj[i] # NoJob /\ sj[i].owner = o
                  /\ sj[i].completedAge = None
                  /\ ~sj[i].cancel
                  /\ \/ fingerprint # None /\ sj[i].fingerprint = fingerprint
                     \/ scope # None /\ sj[i].scope = scope}

NewJob(o, scope, fingerprint, budget) ==
    [owner |-> o, scope |-> scope, fingerprint |-> fingerprint,
     trusted |-> FALSE, preference |-> TRUE, nativeRequired |-> FALSE, browserRequired |-> FALSE,
     budget |-> budget, elapsed |-> None, rescueRequested |-> FALSE, rescueGranted |-> FALSE,
     cancel |-> FALSE, stop |-> FALSE, phase |-> "pending", generation |-> 0,
     completedAge |-> None, response |-> None]

Claim(j, o, scope, fingerprint, budget) ==
    \E sj \in Pruned(serverJobs) :
        /\ sj[j] = NoJob
        /\ SameSchedule(sj, o, scope, fingerprint) = {}
        /\ Cardinality(Unresolved) < MaxUnresolved
        /\ Cardinality({i \in Unresolved : serverJobs[i].owner = o}) < MaxUnresolvedPerOwner
        /\ claims[j] < MaxClaims
        /\ serverJobs' = [sj EXCEPT ![j] = NewJob(o, scope, fingerprint, budget)]
        /\ claims' = [claims EXCEPT ![j] = @ + 1]
        /\ UNCHANGED fences

\* every read of the results prunes first, and so does a claim that is refused
PruneCompleted ==
    /\ serverJobs' \in Pruned(serverJobs)
    /\ UNCHANGED <<fences, claims>>

-----------------------------------------------------------------------------
(* The execution contract of a job                                          *)

SetAgentPreference(j, o, enabled) ==
    /\ Owned(j, o) /\ IsOpen(j)
    /\ enabled => ~RescuePending(j)
    /\ serverJobs' = [serverJobs EXCEPT ![j].preference = enabled]
    /\ UNCHANGED <<fences, claims>>

\* an Agent contract clears whatever rescue was armed
Contracted(job, native, browser) ==
    [job EXCEPT !.nativeRequired = native, !.browserRequired = browser,
                !.preference = TRUE, !.trusted = FALSE,
                !.rescueRequested = FALSE, !.rescueGranted = FALSE]

SetNativeAgentRequired(j, o, required) ==
    /\ Owned(j, o) /\ IsOpen(j)
    /\ required => /\ serverJobs[j].phase \notin VpsPhases
                   /\ ~serverJobs[j].browserRequired
    /\ serverJobs' = [serverJobs EXCEPT ![j] =
          IF required THEN Contracted(@, TRUE, FALSE) ELSE [@ EXCEPT !.nativeRequired = FALSE]]
    /\ UNCHANGED <<fences, claims>>

SetBrowserAgentRequired(j, o, required) ==
    /\ Owned(j, o) /\ IsOpen(j)
    /\ required => /\ serverJobs[j].phase \notin VpsPhases
                   /\ ~serverJobs[j].nativeRequired
    /\ serverJobs' = [serverJobs EXCEPT ![j] =
          IF required THEN Contracted(@, FALSE, TRUE) ELSE [@ EXCEPT !.browserRequired = FALSE]]
    /\ UNCHANGED <<fences, claims>>

-----------------------------------------------------------------------------
(* Handoff to an Agent: the VPS loses the job at once, no fence is issued   *)

HandoffEligible(j) ==
    /\ IsOpen(j)
    /\ ~serverJobs[j].cancel
    /\ ~serverJobs[j].stop
    /\ serverJobs[j].preference
    /\ ~RescuePending(j)

\* Faulty variant: the handoff leaves the generation, and so the old fence, as it was.
HandedOffUnfenced(job, trusted) == [job EXCEPT !.phase = "handoff_to_agent", !.trusted = trusted]

HandedOff(job, trusted) ==
    [job EXCEPT !.generation = @ + 1, !.phase = "handoff_to_agent", !.trusted = trusted]

HandoffTo(js, trusted) ==
    /\ \A j \in js : HasGeneration(j)
    /\ serverJobs' = [j \in Jobs |-> IF j \in js THEN HandedOff(serverJobs[j], trusted)
                                     ELSE serverJobs[j]]
    /\ UNCHANGED <<fences, claims>>

\* request_agent_handoff_for_owner: an Agent of the account said hello
OwnerHandoffJobs(o) ==
    {j \in Jobs : /\ Owned(j, o) /\ HandoffEligible(j)
                  /\ ~serverJobs[j].browserRequired
                  /\ serverJobs[j].phase \in {"pending"} \cup VpsPhases}

\* request_agent_handoff_for_job
JobHandoffEligible(j, o) ==
    /\ Owned(j, o) /\ HandoffEligible(j)
    /\ serverJobs[j].phase \in {"pending"} \cup VpsPhases

\* request_agent_handoff_for_trusted_worker, for one queued request
TrustedHandoffEligible(j) ==
    /\ HandoffEligible(j)
    /\ ~serverJobs[j].browserRequired
    /\ serverJobs[j].phase = "vps_queued"

-----------------------------------------------------------------------------
(* Reserving an executor: the caller gets the fence of the job              *)

\* prepare_agent_execution
PrepareAgent(j, o) ==
    /\ Eligible(j, o)
    /\ serverJobs[j].preference
    /\ ~RescuePending(j)
    /\ \/ /\ serverJobs[j].phase = "pending" /\ HasGeneration(j)
          /\ serverJobs' = [serverJobs EXCEPT ![j] =
                [serverJobs[j] EXCEPT !.generation = @ + 1, !.phase = "agent_waiting",
                                      !.trusted = FALSE, !.elapsed = Started(serverJobs[j])]]
       \/ /\ serverJobs[j].phase \in {"handoff_to_agent", "agent_waiting"}
          /\ serverJobs' = [serverJobs EXCEPT ![j] =
                [serverJobs[j] EXCEPT !.phase = "agent_waiting", !.elapsed = Started(serverJobs[j])]]
    /\ Issue(j, "agent")
    /\ UNCHANGED claims

\* prepare_serverless_execution
PrepareServerless(j, o) ==
    /\ Eligible(j, o)
    /\ ~AgentOnly(j)
    /\ \/ /\ serverJobs[j].phase = "pending" /\ HasGeneration(j)
          /\ serverJobs' = [serverJobs EXCEPT ![j] =
                [serverJobs[j] EXCEPT !.generation = @ + 1, !.phase = "serverless_queued",
                                      !.trusted = FALSE, !.preference = FALSE,
                                      !.elapsed = Started(serverJobs[j])]]
       \/ /\ serverJobs[j].phase = "serverless_queued"
          /\ serverJobs' = [serverJobs EXCEPT ![j].elapsed = Started(serverJobs[j])]
    /\ Issue(j, "serverless")
    /\ UNCHANGED claims

\* prepare_vps_execution
PrepareVps(j, o) ==
    /\ Eligible(j, o)
    /\ ~AgentOnly(j)
    /\ \/ /\ serverJobs[j].phase = "pending" /\ HasGeneration(j)
          /\ serverJobs' = [serverJobs EXCEPT ![j] =
                [serverJobs[j] EXCEPT !.generation = @ + 1, !.phase = "vps_queued",
                                      !.trusted = FALSE, !.elapsed = Started(serverJobs[j])]]
       \/ /\ serverJobs[j].phase = "vps_queued"
          /\ serverJobs' = [serverJobs EXCEPT ![j] =
                [serverJobs[j] EXCEPT !.trusted = FALSE, !.elapsed = Started(serverJobs[j])]]
    /\ Issue(j, "vps")
    /\ UNCHANGED claims

-----------------------------------------------------------------------------
(* What the holder of a fence may do                                        *)

\* Faulty variant: only the account of a fence is compared.
MatchesOwner(f) == Owned(f.job, f.owner)

\* execution_fence_current without its cancellation check
Matches(f) ==
    /\ Owned(f.job, f.owner)
    /\ serverJobs[f.job].generation = f.generation

\* transition_execution
MarkRunning(f, from, to) ==
    /\ Matches(f)
    /\ serverJobs[f.job].phase = from
    /\ ~serverJobs[f.job].cancel
    /\ serverJobs[f.job].completedAge = None
    /\ serverJobs' = [serverJobs EXCEPT ![f.job].phase = to]
    /\ UNCHANGED <<fences, claims>>

MarkAgentRunning(f)      == MarkRunning(f, "agent_waiting", "agent_running")
MarkServerlessRunning(f) == MarkRunning(f, "serverless_queued", "serverless_running")
MarkVpsRunning(f)        == MarkRunning(f, "vps_queued", "vps_running")

\* Faulty variant: the fallback to the VPS forgets the Agent contracts.
FallbackOfAnyContract(f) ==
    /\ Matches(f)
    /\ Eligible(f.job, f.owner)
    /\ HasGeneration(f.job)

FallbackEligible(f) ==
    /\ Matches(f)
    /\ Eligible(f.job, f.owner)
    /\ ~AgentOnly(f.job)
    /\ HasGeneration(f.job)

\* Faulty variant: the VPS continues under the generation of the cloud run.
FallbackSameGeneration(f) ==
    /\ FallbackEligible(f)
    /\ f.executor = "serverless"
    /\ serverJobs[f.job].phase \in ServerlessPhases
    /\ serverJobs' = [serverJobs EXCEPT ![f.job] =
          [serverJobs[f.job] EXCEPT !.phase = "vps_queued", !.trusted = FALSE,
                                    !.preference = FALSE]]
    /\ Issue(f.job, "vps")
    /\ UNCHANGED claims

FallbackServerlessToVps(f) ==
    /\ FallbackEligible(f)
    /\ f.executor = "serverless"
    /\ serverJobs[f.job].phase \in ServerlessPhases
    /\ serverJobs' = [serverJobs EXCEPT ![f.job] =
          [serverJobs[f.job] EXCEPT !.generation = @ + 1, !.phase = "vps_queued",
                                    !.trusted = FALSE, !.preference = FALSE]]
    /\ Issue(f.job, "vps")
    /\ UNCHANGED claims

\* Faulty variant: the watchdog restarts, but nobody notes that the rescue was used.
FallbackForgettingRescue(f) ==
    LET job == serverJobs[f.job] IN
    /\ FallbackEligible(f)
    /\ f.executor = "agent"
    /\ job.phase \in AgentPhases
    /\ serverJobs' = [serverJobs EXCEPT ![f.job] =
          [job EXCEPT !.generation = @ + 1, !.phase = "vps_queued", !.trusted = FALSE,
                      !.elapsed = IF job.rescueRequested THEN 0 ELSE @,
                      !.rescueRequested = FALSE]]
    /\ Issue(f.job, "vps")
    /\ UNCHANGED claims

\* a rescue is granted at most once, and restarts the watchdog
FallbackAgentToVps(f) ==
    LET job == serverJobs[f.job]
        rescue == job.rescueRequested /\ ~job.rescueGranted IN
    /\ FallbackEligible(f)
    /\ f.executor = "agent"
    /\ job.phase \in AgentPhases
    /\ serverJobs' = [serverJobs EXCEPT ![f.job] =
          [serverJobs[f.job] EXCEPT !.generation = @ + 1, !.phase = "vps_queued", !.trusted = FALSE,
                                    !.elapsed = IF rescue THEN 0 ELSE @,
                                    !.preference = IF rescue THEN FALSE ELSE @,
                                    !.rescueGranted = IF rescue THEN TRUE ELSE @,
                                    !.rescueRequested = FALSE]]
    /\ Issue(f.job, "vps")
    /\ UNCHANGED claims

\* request_no_checkpoint_vps_rescue
RequestRescue(j, o) ==
    /\ Eligible(j, o)
    /\ ~serverJobs[j].stop
    /\ serverJobs[j].budget # None
    /\ ~AgentOnly(j)
    /\ serverJobs[j].phase \in AgentPhases
    /\ ~serverJobs[j].rescueGranted
    /\ serverJobs' = [serverJobs EXCEPT ![j].rescueRequested = TRUE, ![j].preference = FALSE]
    /\ UNCHANGED <<fences, claims>>

\* complete_server_job_fenced, with the prune at its end
CompleteFenced(f) ==
    LET job == serverJobs[f.job] IN
    /\ Matches(f)
    /\ ~job.cancel
    /\ job.completedAge = None
    /\ ExecutorOf(job.phase) = f.executor
    /\ serverJobs' \in Pruned([serverJobs EXCEPT ![f.job] =
          [serverJobs[f.job] EXCEPT !.response = f, !.completedAge = 0, !.phase = "completed"]])
    /\ UNCHANGED <<fences, claims>>

-----------------------------------------------------------------------------
\* Faulty variants: a cancelled job keeps its phase; a published job is cancelled in place.
CancelFlagOnly(j, o) ==
    /\ Owned(j, o) /\ serverJobs[j].response = None
    /\ serverJobs' = [serverJobs EXCEPT ![j].cancel = TRUE]
    /\ UNCHANGED <<fences, claims>>

CancelPublished(j, o) ==
    /\ Owned(j, o) /\ HasGeneration(j)
    /\ serverJobs' = [serverJobs EXCEPT ![j] =
          [serverJobs[j] EXCEPT !.cancel = TRUE, !.generation = @ + 1, !.phase = "cancelling"]]
    /\ UNCHANGED <<fences, claims>>

\* cancel_job_for_owner: a result is thrown away, a running job is fenced off
CancelServerJob(j, o) ==
    /\ Owned(j, o)
    /\ \/ /\ serverJobs[j].response # None
          /\ serverJobs' = [serverJobs EXCEPT ![j] = NoJob]
       \/ /\ serverJobs[j].response = None
          /\ HasGeneration(j)
          /\ serverJobs' = [serverJobs EXCEPT ![j] =
                [serverJobs[j] EXCEPT !.cancel = TRUE, !.generation = @ + 1, !.phase = "cancelling"]]
    /\ UNCHANGED <<fences, claims>>

\* request_best_effort_stop_for_owner
RequestBestEffortStop(j, o) ==
    /\ Eligible(j, o)
    /\ serverJobs' = [serverJobs EXCEPT ![j].stop = TRUE]
    /\ UNCHANGED <<fences, claims>>

\* abandon_server_job
Abandon(j, o) ==
    /\ Owned(j, o)
    /\ serverJobs' = [serverJobs EXCEPT ![j] = NoJob]
    /\ UNCHANGED <<fences, claims>>

\* Faulty variant: the watchdog counts down from where it started.
AgeDownwards ==
    /\ serverJobs' = [j \in Jobs |->
          IF j \notin Present THEN NoJob
          ELSE [serverJobs[j] EXCEPT !.elapsed = IF @ # None /\ @ < serverJobs[j].budget
                                                 THEN @ - 1 ELSE @]]
    /\ UNCHANGED <<fences, claims>>

\* a tick: results get older, watchdogs run down
AgeServerJobs ==
    /\ serverJobs' = [j \in Jobs |->
          IF j \notin Present THEN NoJob
          ELSE LET job == serverJobs[j] IN
               [job EXCEPT !.completedAge = IF @ # None /\ @ <= ResultTTL THEN @ + 1 ELSE @,
                           !.elapsed = IF @ # None /\ @ < job.budget THEN @ + 1 ELSE @]]
    /\ UNCHANGED <<fences, claims>>

-----------------------------------------------------------------------------
ServerInit ==
    /\ serverJobs = [j \in Jobs |-> NoJob]
    /\ fences = {}
    /\ claims = [j \in Jobs |-> 0]

JobStep(j, o) ==
    \/ \E scope \in Scopes \cup {None}, fingerprint \in Fingerprints \cup {None},
          budget \in Budgets \cup {None} : Claim(j, o, scope, fingerprint, budget)
    \/ \E b \in BOOLEAN : \/ SetAgentPreference(j, o, b)
                         \/ SetNativeAgentRequired(j, o, b)
                         \/ SetBrowserAgentRequired(j, o, b)
    \/ JobHandoffEligible(j, o) /\ HandoffTo({j}, FALSE)
    \/ PrepareAgent(j, o)
    \/ PrepareServerless(j, o)
    \/ PrepareVps(j, o)
    \/ RequestRescue(j, o)
    \/ CancelServerJob(j, o)
    \/ RequestBestEffortStop(j, o)
    \/ Abandon(j, o)

FenceStep(f) ==
    \/ MarkAgentRunning(f)
    \/ MarkServerlessRunning(f)
    \/ MarkVpsRunning(f)
    \/ FallbackServerlessToVps(f)
    \/ FallbackAgentToVps(f)
    \/ CompleteFenced(f)

TrustedHandoff(js) ==
    /\ \A j \in js : TrustedHandoffEligible(j)
    /\ HandoffTo(js, TRUE)

ServerNext ==
    \/ \E j \in Jobs, o \in Owners : JobStep(j, o)
    \/ \E f \in fences : FenceStep(f)
    \/ \E o \in Owners : HandoffTo(OwnerHandoffJobs(o), FALSE)
    \/ \E js \in SUBSET Jobs : TrustedHandoff(js)
    \/ PruneCompleted
    \/ AgeServerJobs

ServerSpec == ServerInit /\ [][ServerNext]_serverVars

-----------------------------------------------------------------------------
\* Canonical jobs, the fences of their executors and the claims are well formed.
ServerTypeOK ==
    /\ serverJobs \in [Jobs -> ServerJob \cup {NoJob}]
    /\ fences \in SUBSET Fence
    /\ claims \in [Jobs -> Nat]

\* The fences issued for the present life of a request id.
CurrentFences(j) == {f \in fences : f.job = j /\ f.claim = claims[j]}

\* Never two executors with an equally valid fence: however handoffs, fallbacks
\* and reservations interleave, the fences of one life of a job differ in their
\* generation (request_agent_handoff_for_* raise it before the Agent gets one).
OneExecutorPerGeneration ==
    \A j \in Jobs : \A f, g \in CurrentFences(j) : f.generation = g.generation => f = g

\* The response was written under the newest fence of the job: no executor
\* that lost it to a handoff, a fallback or a rescue has published, and none
\* got the job after it was published.
ResultByNewestFence ==
    \A j \in Completed :
        LET r == serverJobs[j].response IN
        r.claim = claims[j] => \A f \in CurrentFences(j) : f.generation <= r.generation

\* A fence that is current names the executor the phase names: while a job is
\* being handed over, waits for its first executor or is cancelled, nobody can write.
WriterMatchesPhase ==
    \A j \in Present : \A f \in CurrentFences(j) :
        f.generation = serverJobs[j].generation =>
            \/ serverJobs[j].phase = "completed"
            \/ f.executor = ExecutorOf(serverJobs[j].phase)

\* "Browser-local is a hard execution contract, not merely a preference": no
\* order of contract changes, handoffs and fallbacks puts such a job on the VPS.
AgentOnlyNeverOnVps ==
    \A j \in Present : AgentOnly(j) => serverJobs[j].phase \notin VpsPhases

\* Whoever executes a job with a budget does so under a running watchdog,
\* whichever way the job reached its executor.
WatchdogArmed ==
    \A j \in Present :
        serverJobs[j].budget # None /\ ExecutorOf(serverJobs[j].phase) # None
            => serverJobs[j].elapsed # None

\* One account never has two live jobs for one schedule scope or for the same
\* schedule contents, however jobs finish, are cancelled and come back: the
\* single flight that keeps two solvers from overwriting one timetable.
SingleFlight ==
    \A i, j \in Unresolved :
        (/\ i # j
         /\ serverJobs[i].owner = serverJobs[j].owner
         /\ ~serverJobs[i].cancel /\ ~serverJobs[j].cancel) =>
            /\ serverJobs[i].scope = None \/ serverJobs[i].scope # serverJobs[j].scope
            /\ serverJobs[i].fingerprint = None
                  \/ serverJobs[i].fingerprint # serverJobs[j].fingerprint

\* What the registry keeps is bounded, for every account and altogether.
RegistryBounded ==
    /\ Cardinality(Completed) <= MaxResults
    /\ Cardinality(Unresolved) <= MaxUnresolved
    /\ \A o \in Owners :
          Cardinality({j \in Unresolved : serverJobs[j].owner = o}) <= MaxUnresolvedPerOwner

SameLife(j) == j \in Present /\ j \in Present' /\ claims'[j] = claims[j]

\* Cancelled is final: no step of a late executor, a rescue or a handoff brings
\* a cancelled job back or publishes a response for it.
CancelIsFinal ==
    [][\A j \in Jobs : SameLife(j) /\ serverJobs[j].cancel =>
          /\ serverJobs'[j].cancel
          /\ serverJobs'[j].phase = "cancelling"
          /\ serverJobs'[j].response = None]_serverVars

\* A published response never changes while it is kept, and neither does the
\* generation it was published under.
ResultIsFinal ==
    [][\A j \in Jobs : SameLife(j) /\ serverJobs[j].response # None =>
          /\ serverJobs'[j].response = serverJobs[j].response
          /\ serverJobs'[j].phase = "completed"
          /\ serverJobs'[j].generation = serverJobs[j].generation]_serverVars

\* "a canonical job can consume this exception at most once": the watchdog of a
\* job only restarts when the rescue is granted, and a granted rescue is not
\* forgotten while the job can still execute.
RescueAtMostOnce ==
    [][\A j \in Jobs : SameLife(j) =>
          LET old == serverJobs[j]  new == serverJobs'[j] IN
          /\ (old.elapsed # None /\ (new.elapsed = None \/ new.elapsed < old.elapsed)) =>
                ~old.rescueGranted /\ new.rescueGranted
          /\ old.rescueGranted /\ ~old.cancel => new.rescueGranted]_serverVars
=============================================================================
