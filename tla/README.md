# A TLA+ model of TKBCherry

TKBCherry makes school timetables. A browser submits a schedule; a Rust server (`rust_api`) admits it,
runs or delegates the solver, and keeps the result until a device fetches it; the browser also has a
timetable engine of its own. This directory holds TLA+ modules of the server's solver pool, of the
browser's side of a server-owned solve and of the browser's engine, TLC configurations that check them,
and TLAPS proofs about all three.

## 1. The system

| Part | Source | State it keeps | Operations | Hard about it |
|---|---|---|---|---|
| Admission | `solver_pool.rs` (`jobs`, `queue`) | running children with their worker tokens, FIFO tickets with a lease | `acquire_or_enqueue_for_owner`, `try_acquire_for_owner`, the guard's `Drop`, touch, prune | capacity and fairness under polls, abandoned tickets, evictions |
| Canonical jobs | `solver_pool.rs` (`server_jobs`) | one record per server-owned request: contract, phase, generation, watchdog, response | claim, contract changes, three handoffs, three reservations, three running marks, two fallbacks, rescue, completion, cancel, stop, abandon, prune | several executors of one job; stale fences; late results |
| Coordinator | `main.rs` 10759-11998, 12350-13013, 6106-6157, ~4590-4720 | one background thread per job, moving through a Cloud Run, a VPS and an Agent branch | submit, poll, fall back, clean up; `/hello`, `/fail`, cancel and stop handlers run beside it | every step is a separate lock; snapshots are stale when used |
| Agent broker | `agent_helper.rs` | workers, leases, candidates, checkpoints, trusted handoffs, pairing | register, heartbeat, claim, submit, checkpoint, reject, take over, revoke | lease expiry, transport replays, take-over races |
| External CP-SAT streams, helper limiter | `main.rs` 99-760 | live streams, pending starts, attestations; permits | start outside the lock, remove, renew, attest; acquire and release | re-use of a lease key; condition variable |
| Serverless ledger | `serverless.rs`, `db.rs` | reservations, usage and quotas in SQLite | reserve, dispatch, cancel, reconcile, release, prune, quota claims | restarts between dispatch and reconciliation; retries |
| Sessions | `auth.rs`, `db.rs` | sessions and one active token per user, in a key-value table | login, replacing login, validate, logout | several store calls per operation |
| Telemetry, limiters | `solver_telemetry.rs` | counters, windows | record, allow | boundaries |
| School store, registry | `main.rs` 4900-5700 | one document per school | read, write, merge | whole documents, last writer wins |
| Solvers | `native_solver.rs`, `solver_runtime/` (Python, CP-SAT) | none between calls | search | size |
| Solve lifecycle of a tab | `tkb-rust-bridge.js` | the recorded job, settled jobs and cancel intents in localStorage; flags, a lease, an abort controller and a timer in the page | solve, resume, observe, apply, save, stop, delete | two asynchronous flows interleave at every await; reloads; lost replies; a save that hangs |
| FET engine: construction | `tkb-fet-engine.js` | placements and, redundantly, one row of cells per class, teacher and room; a move journal | place, take, `getConflictsForSlot`, `randomSwap`, passes | recursive displacement with undo |
| FET engine: optimization | `tkb-fet-engine.js` | the same grids, best metrics, best snapshots, elite archive | some thirty operators, rounds, restarts | hand-written undo in every operator; metrics and schedules kept apart |
| Other pages | `phanmon.js`, `app.js`, `tkb-constraints.js`, ... | the document being edited | edit, save, import | size; whole documents |

How they interact. A submission claims a *canonical job* and starts a coordinator thread. The thread
reserves an executor (the VPS, an Agent, Cloud Run) and gets a *fence* `<generation, executor>`. On the
VPS it polls admission every 100 ms until it gets a guard, runs the child, drops the guard and completes
the job under its fence. An Agent's hello hands a job over by raising the generation; fallbacks and the
rescue hand it back. A cancel or stop handler acts on the canonical job, the queue and the child at once.
In the browser, the sort button or the automatic resume starts a flow that posts a job or attaches to the
recorded one, polls, applies the result to the document in memory and saves it. The FET engine runs in a
worker on a copy of the document: `solve` places what it can, `optimize` improves the result.
`PROJECT.json` lists every component and, under `hazards`, what can go wrong at which line.

For each part, what makes it correct: admission never oversubscribes and never overtakes; a canonical job
has one executor with write access, one final response, and is bounded by one watchdog; a coordinator
never leaves a job nobody is responsible for; a lease produces at most one candidate and an accepted one
is not lost; dispatched cloud work is accounted for once; a replaced session is never accepted again;
a tab applies only a result computed for the schedule it shows, a cancellation reaches the server, and a
recorded job does not stay recorded for ever; the engine's rows agree with its placements, a failed
attempt leaves no trace, and an optimization never gives back less than it was given.

## 2. Modules

    SolverIds                     request ids and accounts
      SolverAdmission             jobs and queue               AdmissionClients  (its callers, fairness)
      ServerJobs                  server_jobs
        SolverPool                both under the pool's mutex, one action per public method
        ServerJobsRefine          refinement mapping to CanonicalJob, the abstract specification
    BridgeSolve                   one tab and, external, the solver server
    FetGrid                       placements, rows, getConflictsForSlot
      FetConstruct                solve and randomSwap
      FetMetrics                  evaluateMetrics, compareMetrics, verifyPlacementIntegrity
        FetSearch                 what optimize promises whatever its operators do
        FetMoves, FetEscapes      the operators
          FetOptimize             optimize, implements FetSearch
    MC*                           instances, symmetry and restricted next-state relations
    SolverAdmissionProofs (AdmissionClientsProofs), ServerJobsProofs (ServerJobsRefineProofs),
    SolverPoolProofs, BridgeSolveProofs, FetConstructProofs, FetSearchProofs       theorems

Every method of `SolverPool` locks one mutex from its first read to its last write, so each is one
action. A method that returns early without a change is a stuttering step, unless it pruned first; then
it is the prune (`AcquireRefused`, `PruneCompleted`).

**SolverAdmission.** `slots[j]` is the entry of `jobs` (`workers`, the two flags a child polls, its
account), `tickets[j]` the entry of `queue`. The positions in the `VecDeque` are the relation `ahead`, and
`QueueIsLine` shows that it always is a line. Instants are replaced by ages: a ticket is stale when
`age > QueueLease`, as in `prune_stale_queue`, and `AgeTickets` is the clock. `HeldTokens` is a set with
one element per token, so that `AllocatedWorkers` is its cardinality and not a recursive sum. What
admission reads of the canonical job (`blocked`, `stop`) is a parameter: arbitrary in `AdmissionNext`,
filled in by SolverPool. A *stale* ticket may remain in `tickets` until the next method prunes it, as in
the code. The guard's `Drop` frees the slot; the flags it resets belong to a child nobody can reach any more.

**AdmissionClients.** The callers: `Poll` is the VPS start gate of `spawn_server_owned_solver`, `Submit`
and `TryOnce` the HTTP submission, `Vanish` a caller that disappears and leaves its ticket, `Withdraw` a
cancellation or handoff. `Tick` lets time pass only while the callers that still poll are within the
lease: the thread polls every 100 ms and a throttled tab once a minute, the lease is 120 s.

**ServerJobs.** `serverJobs[j]` is the `ServerOwnedSolverJob` of an id, field by field except for the
progress display. `fences` is history: every fence ever handed to a caller, any of which may be used at
any later time, which is the most general coordinator. `claims[j]` counts the lives of an id. A response
is represented by the fence that wrote it. `elapsed` and `completedAge` are the times since
`watchdog_started_ms` and `completed_ms`. `Pruned` drops the expired results and then the oldest above
`MAX_SERVER_RESULTS`; among equal ages the code compares creation time and id, here the choice is open.
The ids in a claim are compared after normalisation, so scope and contents are plain values.

**SolverPool.** Takes the action of either part and adds what joins them: `Blocked` (the phase check at the
top of both acquires), `StopRequested` (copied by `insert_job`), and the eviction of tickets and flagging
of children in handoffs, cancellation and completion. The eviction of a handoff goes by id, that of a
cancellation by id and account, as in the code.

**CanonicalJob, ServerJobsRefine.** What the pool promises, without reservations, contracts, watchdogs,
fences or prunes: a job has a holder and a term, moves along `Routes`, and is answered once, by its holder. In
the mapping the term is the execution generation, the holder the executor of the phase
(`handoff_to_agent` is a holder of its own), the answer the generation and executor of the fence that
wrote it. One call of the pool may move several jobs (handoffs by account), so a step of CanonicalJob
is a step or a stutter of each job.

**BridgeSolve.** `browser` is one tab on one schedule: what survives a reload (`pending`, `settled`,
`intents`, `suppressed`, `tombstone`, the stored schedule) and what does not (`active`, `lease`, `due` for
the resume timer, `halted` for the stop flag, `busy`, `resuming`, `run` for the run id, `ctl` for the
active abort controller, the deferred settlement, the saves in flight). `flow["auto"]` is the single-flight
`resumePendingBackendJobOnce`, `flow["click"]` the handler of the sort button; `pc` names the await a flow stands
at, and an action is the code up to the next one. `watch` marks a flow in `observeBackendJob`, `solve` one
in `postSolve`; otherwise it is in `reattachExistingServerJobPollOnly`. A schedule is a revision and the job whose result
it holds, which is its own fingerprint. The server is external, modelled as the bridge sees it: a POST
creates a job, attaches to a live one of the same schedule, or is refused; jobs end and are forgotten, a cancel is
answered `ok` whether or not the job is known. Every request may be lost before or after it took effect. `job` is what a
flow polls, `own` the id it will settle: a 202 for another job makes that one its own, a 409 does not. `Fail` ends a
turn and settles its id, `Refuse` ends it and leaves the id recorded, `Detach` also arms the resume timer.

**FetGrid, FetConstruct.** A grid is `place` (`actPlacement`) and `cells` (the rows of `classGrid`,
`teacherGrid`, `roomGrid` as one function of resources, -1, -2 and -3 meaning free, off and fixed as in the code). `Take` writes
back what the code writes back, which is not always what stood there; `Put` overwrites.
`Possible` and `Clashes` are the two answers of `getConflictsForSlot`. The recursion of `randomSwap` is a
stack of frames, each with its journal mark and the candidate list computed when it began; a step is the
code between two recursive calls. Random numbers, penalties, the call budget and the deadline are free
choices. `before` in a frame and `entry` are history, for the properties.

**FetMetrics, FetMoves, FetEscapes, FetOptimize.** An operator is the set of grids its next kept move may
lead to; which candidate is tried first, and how many are cut off by sampling, is left open, so that the
model allows all the shuffles of the code. A try that `getConflictsForSlot` refuses, or whose metrics are not good enough,
is put back; where the rows agree with the placements that changes nothing, and it is left out. Three operators put back
onto cells that may be another lesson's, and there the failed try is a step: the cross-subject swap and the augmenting
chain (`Crossed`), which do not ask every teacher, and `tryVacateTeacherSessions` (`VacateTurn`), which after an accepted move
goes on with the slots it found before it. Of such an operator the state is the grid, `currentBest` and `anyImproved` together. `Program` is the order of a round, `Leave` the integrity gate that wraps every
operator together with what `optimize` does with the answer, `SaveBestSnapshot`, `Judge`, `BranchFromElite`, `EndRound`, `Restart`
and `Finish` the rest of the loop. Deadlines and the stop button may end an operator or the rounds at any point.

**FetSearch.** The bookkeeping of `optimize` around operators it knows nothing about: an operator may leave any grid,
good or broken, and need only report the metrics of the grid it leaves if that grid passes the gate (`Change`). The
gate, what becomes of an answer, `saveBestSnapshot` and the final choice are defined here and used by FetOptimize, whose
`KeepsGuard` says that with its operators, rounds and escapes it implements FetSearch. A move that is
measured before a later put-back changes the grid may report other metrics, but `Change` asks for the truth only of grids
that pass the gate. `KeepsGuard` is about lessons of at most one teacher, as in its instance. With two, the code breaks the promise: the
gate does not compare the rows of teachers and rooms with the placements, the put-back of a rejected cross-subject swap or
augmenting chain may free a cell of the second teacher's row that another lesson still needs, and metrics are counted from
these rows, also in the final check of `optimize`; a move that is really for the worse may be kept as an improvement.
Rows of rooms are in the instance; they do not enter the
metrics, and that they agree is part of `ResultIsHardValid`.

Definitions introduced by "Faulty variant" are not part of the model: each is a plausible mistake in one
definition, and `PROJECT.json` says which property notices it.

## 3. Runs

| Run | Instance | Distinct states | Shows |
|---|---|---|---|
| `admission` | 3 ids, 2 accounts, 4 tokens, 2 children, demands 0, 2 and 5 (below, inside, above the limits), lease 1 | 13 815 | types, no oversubscription, the line, no overtaking, places kept |
| `clients` | 3 ids, 1 account, 3 tokens, 2 children, demands 1 and 5 | 44 790 | a poller never loses its ticket and is eventually served |
| `job_life` | 1 id with 2 lives, budget 2, up to 5 generations | 97 623 | fences, contracts, watchdog, cancellation, result; implements CanonicalJob |
| `registry` | 4 ids, 2 accounts, 1 scope, 1 contents, limits 3 / 2 / 1 | 310 391 | single flight, bounded registry |
| `pool` | 2 ids, 1 account, 1 child, 2 generations | 338 358 | line and children follow the canonical jobs |
| `fet_construct` | 5 activities (one of two periods) of 2 classes, 3 teachers, a room, a fixed lesson, closed slots; 1 day of 2 x 3 slots; depth 3, 2 passes | 78 003 | rows agree with placements, undo is exact, candidate lists stay true, nothing lost, limits, termination |
| `fet_contiguity` | 4 lessons of one class | violation | lessons of a subject left apart in a session |
| `fet_optimize` | 21 activities of 5 classes in 6 partial schedules, both modes; 2 days of 2 x 3 slots; 1 restart | 16 832 | the gate, metrics with their schedule, never worse than the start; implements FetSearch |
| `fet_hard_valid` | as `fet_optimize` | violation | a result that breaks hard constraints |
| `bridge` | 1 tab, 2 jobs, 1 click, 1 of edit, delete, stop, reload | 302 130 | cancels reach the server, only fitting results are applied, recorded jobs resolve |
| `bridge_stop` | as `bridge`, events: stop | violation | Stop loses to a result whose body is being read |
| `bridge_recover` | as `bridge`, events: reload | violation | a result is settled while its save is undecided |

*Bounds.* Demands need three classes because only the clamp distinguishes them. Three requests are the
least for a line with a middle, and two limits (tokens and children) both bind. One id suffices in
`job_life` since no operation on a job reads another one, except claim and prune, which `registry`
explores with four ids (one more than the limit) and fewer operations. Two lives let a fence of
the first meet the second. `MaxGeneration` and `MaxClaims` are the only bounds on counters: an action
that would pass them is disabled. Five generations are enough for a reservation, a handoff, a fallback,
another handoff and a rescue. In `pool` two ids of one account compete for one child, with lease and
result lifetime 0 so that a single tick expires them; that ids of different accounts may collide is
covered by the proofs, which are for every set of accounts. Symmetry is used only in runs without
liveness.

In `fet_construct` seven slots are left for five activities, so that blocks must displace each other, and depth 3 is
one more than the depth from which a frame tries one slot only, so that both kinds of frame fail and
backtrack. The bounds that are CONSTANTS (`MaxLevel` 16, `MaxPasses` 20, and so on, in the code) change
how often the same steps repeat, not which steps there are. In `fet_optimize` each of the six schedules gives some operators their
move, so that all fifteen fire, and one lets an
augmenting chain be rejected and lose a lesson when it is put back, so that the gate has something to catch. In another, of a class with six subjects,
a teacher's session is vacated and the stale put-back after it overwrites a lesson. The grids keep
to what `canLoadPlacement` admits; the activities it does not place are exempt from the gate, as those that
could not be placed are in the code. `MaxStagnant` is 11 because the elite branch needs 10 stagnant rounds. In `bridge` two
jobs are the least for a recorded job beside a posted one, and a single event at any of the awaits of
either flow already reaches every end of a flow; two events make the run too long to check liveness.

*Deadlock.* Not checked where the system ends: `solve` and `optimize` return, and a tab with nothing
recorded is at rest. The runs of the pool check it; the pool never stops.

*Fairness.* In `clients`: weak fairness of `Poll` (the thread loops and sleeps 100 ms), of `Finish` (a child has a
deadline and is killed at its end) and of `Tick`. Submissions, vanishing and withdrawals have none.
In `fet_construct`: weak fairness of the whole next-state relation, since `solve` is one synchronous loop; no deadline is needed for `Terminates`.
In `bridge`: weak fairness of the timer, of what a flow awaits, of the server's jobs and of cancel requests being answered or lost.
Strong fairness of a state probe and of a poll being answered: a request repeated for ever is answered at
last, for without it no result ever comes. Weak fairness of `Wake`, the user who comes back to the page: a few
ends of a turn leave a recorded job without a timer, and only the listeners of `visibilitychange`,
`pageshow` and `online` rearm it. `PendingResolves` says of itself that it rests on this.

*What the violations show.* Each is a disagreement between the code and a text of the repository, under `findings`.
(1) The adjacency of a subject's lessons in a session is tested for the lesson being placed, but a
displacement chain may take the middle lesson away. (2) `tryIntraClassCrossSubjectSingletonSwap` asks only
the teachers, and the integrity gate does not look at rooms, subject limits or subject hours either. (3) The resume path reads the
result's body and applies it without looking at the stop flag again. (4) The resume path settles a result even when
the watchdog gave its save up, so that a save that then fails cannot be repeated from the server.

## 4. Theorems

The proofs hold for every value of the constants under the named assumptions: `PoolAssumption` (what
`from_env` clamps the configuration to), `JobsAssumption` and `OwnersAssumption` (finitely many ids, some
account), `ServerJobsAssumption`, `BridgeAssumption` (a run id, finite bounds on events and clicks), the
distinctness of the "absent" values, `ConstructAssumption` (natural bounds) and `GridAssumption`: finitely many
activities of one to `PERIODS_PER_SESSION` lessons; a class is not a teacher or a room, as each kind has rows of its
own; and one natural limit for a class and a subject. The code takes the limit by the name of the subject and counts
its lessons by the canonical key, so names with one key are assumed to have one limit; a limit that is not whole acts
as its floor. `SearchAssumption`: the rows of an initial grid agree with its placements, since a saved schedule is loaded
lesson by lesson, each through `canLoadPlacement`, and repaired through `randomSwap`; finitely many classes and scored
teachers; no other mode than the two modelled; an archive of at least one.

* **SolverAdmissionProofs.** Type correctness and `QueueIsLine` are inductive together; capacity follows
  from the cardinality of `HeldTokens` when one child is added or removed (`HasRoom` is checked in the
  step that takes the tokens). `AdmissionFIFO` and `AdmissionPlaces` are properties of single steps from
  the same invariants; a child starts only from the front or over an empty live queue.
* **AdmissionClientsProofs.** `CallersUseAdmission` is `ClientSpec => AdmissionSpec`: a poll, a submission, an
  abandoned ticket and the end of a run are steps of admission, so that its theorems hold of the callers.
  `PollersKeepPlaces` needs what a prune may take: only tickets past the lease, and a poller's is never that old,
  because a tick waits for whoever is due to poll.
* **ServerJobsProofs.** Three invariants. `ServerInv` says of each job alone that phase, contract, watchdog, response,
  cancellation and rescue fit (`SoundJob`); types, the Agent-only contract and the watchdog follow. It is
  needed because, for example, `WatchdogArmed` is preserved by a fallback only if every Agent or
  serverless phase was entered with a started watchdog. What one step may do to a job is one lemma per action (`Progress`, `Change`), from
  which the finality of cancellation, result and rescue follow. `FenceInv` relates *all* fences ever issued
  in the present life to the job: none is newer than its generation, and those of the current generation
  name its account and the executor of its phase, so that there are none while a job waits, is handed over or is cancelled.
  With the generation that `ServerInv` ties to the response, the result was written under the newest fence.
  `OneExecutorPerGeneration` alone is not inductive, because `prepare_agent_execution`
  issues a fence without raising the generation.
  A third invariant, `RegistryInv`, is `SingleFlight` and `RegistryBounded` together with the types. Most actions
  are *quiet*: they add no entry and make none live again, and a quiet step keeps both. That leaves the claim,
  which refuses a second live job of the scope or contents and counts before it adds, and the completion, which prunes
  in the same step. `PruneBounds` counts what a prune retains; the bounds would be false of a completion without it.
* **ServerJobsRefineProofs.** `JobsKeepPromise` is `ServerSpec => ImplementsPromise`: the initial states map
  to initial states and every step to a step or a stutter of each job. A lemma for each
  kind of action (reservations, running marks, fallbacks, handoffs, completion, cancellation, claims) says
  which step of CanonicalJob it is. They rest on `ServerInv` alone: that an answered job stands under the
  generation of its answer, and that a phase fits the job's contract and cancellation.
* **SolverPoolProofs.** `PoolImplementsParts` shows that each behaviour of the composed pool implements both parts
  (`PoolSpec => AdmissionSpec /\ ServerSpec`), so their theorems carry over (`PoolCapacity`, `PoolOneExecutor`). The joint invariant
  `PoolJoint` is proved from a lemma on steps (`JointStep`): a step that neither adds a ticket nor forgets
  a flag, and takes from the VPS only jobs whose tickets it drops and whose children it tells, keeps it.

* **BridgeSolveProofs.** `StopReachesServer` and `ResultIsOfItsSchedule` are not inductive. A stopped job must also be
  past its POST (one still on its way could turn live without a cancellation), and an answer may drop the
  intent only because the server has cancelled the job in the same step. A result belongs to its schedule because the
  *recorded* job and the guard of *each* flow name the schedule the job was posted for, also
  when another flow recorded it. `BridgeInv` says this of a page and a server (`Sound`). The steps are chains
  of operations on the page, so each operation is shown to keep a sound page sound, and each step of the server
  to leave every sound page sound (`Evolves`: a post, its schedule and a live job's cancellation are never taken
  back). The number of jobs, events and clicks is arbitrary.

* **FetConstructProofs.** All six safety properties of the construction, for any timetable, depth, number of passes
  and order of candidates. Two ideas carry it. First, a sound grid is *determined* by its placements
  (`GridDetermined`): `Take` and `Put` keep a grid sound where `getConflictsForSlot` agreed (`LiftedIsSound`,
  `PutIsSound`, `PossibleFits`), so a rollback that restores the placements restores every row, although
  `unplaceActivity` does not write back everything that stood in a cell (`RestoredIsGround`: where a lesson can stand, it
  does). Second, `RollbackIsExact` and `NothingLost` are not inductive. `FetInv` adds the grid at
  each length of the journal (`past`; it exists, it is not a variable), each of them sound and within the limits, with
  `Undone` leading from one to the next (`Traces`); each frame began at its mark, its candidate list was true
  there, and below it everything that was placed when the attempt began, or that a frame placed, is placed or
  *owed*: it waits in a frame above (`Reached`). What a frame or `solve` has yet to try (`Pending`) is never
  placed, which is why `jrnPlace` always meets an activity without a slot. A failed branch returns to the grid at
  its mark, where the list still holds. The displaced set is finite, and its removals in any order are undone in
  the reverse one (`Unwinding`, by induction over a set of naturals from the well-foundedness of <). `FetInv`, with `past` computed by
  `RolledBack`, was also model-checked on the 78,003 states of `fet_construct`.

* **FetSearchProofs.** The three safety properties of the optimization, for any initial schedules and any operators that
  keep the promise of `Change`. Each relates what is kept in different variables, so the invariant `SearchInv` joins
  them: every kept snapshot passes the gate, carries its own metrics and places every lesson that was placed, and a
  reported result that passes is measured on the grid it left (`Honest`). It holds at the start because a
  schedule whose rows agree passes its own gate (`ConsistentPasses`). `NothingGetsWorse` needs that what beats
  something not worse than the initial schedule is not worse either (`NeverWorseAgain`): the comparison is
  lexicographic, over other counts in each mode, and a veto on one count comes before it.

*Only model-checked:* `PollersServed`, `PendingResolves` and `Terminates`, as liveness under fairness is out of the prover's
reach; and `KeepsGuard`, since the operators of FetMoves and FetEscapes are recursive definitions, for which the prover has no
arithmetic. The theorems of FetSearch therefore hold of FetOptimize as far as `KeepsGuard` does. `RolledBack` in FetConstruct is a
recursive function instead, and the proof unfolds it one entry at a time (`RollbackFollows`).

The theorems on fences speak of one life of an id. Across lives the code restarts the generation at 0 and
nothing in the pool keeps an old fence from matching; whether a caller can still hold one is a question
about the coordinator (see `hazards`).

## 5. Not modelled

*Pool.* The progress metrics of a running job, and the unused methods `complete_server_job`, `cancel_job`,
`try_acquire` and `touch_queued_job`. A poisoned mutex (every method has a fallback for it). The string
normalisation of scopes and fingerprints. The wrap-around of the 64-bit generation, which saturates.

*Bridge.* The graceful stop that keeps the best result so far (`setBestEffortStopPending` and its escalation timer),
the trial mode of the Windows agent, the suspension after a lost login, the shapes of answers of older
servers, several tabs on one localStorage, and within `postSolve` the local workers, hybrid races and
refinements that lie between the post and the poll. The expiry of a recorded job by age. Reading the code
for the model turned up orders of events that the properties do not speak about: the `finally`
of a reattach clears the busy flags whoever set them; a second deletion during a sweep does not cancel the
job recorded since; the deletion of a schedule while `applyPayload` awaits is overwritten by the result;
a solve settles its job before it applies an incomplete best-effort result (the model settles after the save);
a solve that ends in an error restores and saves the schedule it started from, over later edits; a cancel
that overtakes the POST of its job is answered `ok` and forgotten (`hazards`).

*Engine.* `buildActivities` and the loading of a saved schedule, `repairHardConflicts` (the optimizer starts from any
schedule it may leave), `tryEjectionChain`, the value of `getPlacementPenalty` (it orders candidates, and the
order is free here), the operators and rounds of the modes `optimize_gap1` and `optimize_gap2`,
`tryLnsRuinAndRecreate`, `tryRelatedClusterRuin`, `optimizeAll` with its stage locks, `optimizeGap2WithBorrow`,
and `tryVacateTeacherDay`, which nothing calls. Without the cluster ruin the model has one way fewer to leave a plateau;
it ends in the same gate and the same comparison. `MAX_ROUNDS` is not counted: the rounds may stop at any time.

Everything else is marked `not_modelled` in `PROJECT.json`, with its reason: the native and Python solvers
are sequential searches whose state is a timetable; export, editors, page rendering, mail and deployment are I/O
and forms over one document. The map covers a small share of the implementation, because most of it is
such code.

## 6. Plan

In this order:

1. `SolverCoordinator`: the thread of `spawn_server_owned_solver` with its three branches and the handlers
   that race it, over ServerJobs and an abstract Agent broker. Properties: every unresolved job has a
   thread or handler that will still act on it; no thread acts on a later life of its id; every job is
   eventually resolved. The candidates for findings are in `hazards` (`main.rs` 4687, 6109, 10821).
   With it, BridgeSolve's external server can be replaced by the modelled one.
2. The engine's gap modes and `optimizeAll`; the graceful stop of the bridge.
3. `AgentHelper`: workers, leases, candidates, checkpoints, trusted handoff capacity; then composed with
   the coordinator in place of the abstract broker.
4. `ExternalStreams` and `ProcessLimiter`: starts outside the lock, attestations, the condition variable.
5. `ServerlessLedger`: reservations with crashes between transactions; quotas.
6. `AuthSession` over single store calls; the limiters; progress metrics and candidate comparators as pure
   operators; the browser's save guard.

Proofs to add, with the modules they are about: lease exclusivity of `AgentHelper` and single accounting of
`ServerlessLedger`; and of the optimization, once the operators' recursive definitions are functions,
`KeepsGuard` itself, beginning with the operators that move lessons only by `Take` and `Put` where `Possible` holds: they
leave the grid sound by the lemmas of FetConstructProofs, and report what they measured.
