----------------------------- MODULE FetSearch -----------------------------
(***************************************************************************)
(* What optimize promises whatever its operators do (optimize and the gate *)
(* around GUARDED_OPERATORS in tkb-fet-engine.js).                         *)
(*                                                                         *)
(* An operator may leave any grid behind; all that is asked of it is that  *)
(* the metrics it reports are those of the grid it leaves, if that grid    *)
(* passes the gate.  Which operator runs when, the rounds and the          *)
(* escapes are left to FetOptimize, which implements this specification.   *)
(***************************************************************************)
EXTENDS FetMetrics

CONSTANTS
    InitialGrids,   \* what loadExistingSchedule and repairHardConflicts may leave
    Modes,          \* of "optimize_singletons", "optimize_sessions"
    EliteSize       \* snapshots in eliteArchive: 3 in the code

VARIABLES
    grid, mode,
    initial,        \* initialStateSnap
    snap,           \* the grid when the operator of this step began
    cur,            \* currentBest of the operator
    moved,          \* anyImproved
    best,           \* bestMetrics
    globalBest,     \* [metrics, grid]: __globalBestM and __globalBestSnap
    elite,          \* eliteArchive, the newest first
    phase           \* "rounds", "portfolio", "done"

searchVars == <<grid, mode, initial, snap, cur, moved, best, globalBest, elite, phase>>

\* A saved schedule is loaded lesson by lesson, each only where it meets nothing, and
\* repaired by randomSwap: whatever was stored, the rows agree with the placements.
ASSUME SearchAssumption ==
    /\ \A g \in InitialGrids : Consistent(g)
    /\ Modes \subseteq {"optimize_singletons", "optimize_sessions"}
    /\ EliteSize \in Nat \ {0}
    /\ IsFiniteSet(Scored) /\ IsFiniteSet(Classes)

\* optimize called by itself holds no stage locks.
Locks == [k \in {} |-> 0]
Exempt == Act \ Placed(initial)
Baseline == StudentHoles(initial)
Passes(g) == Intact(g, Exempt, Baseline)

(***************************************************************************)
(* saveBestSnapshot, called with the new bestMetrics                       *)
(***************************************************************************)
Total(acts) == MapThenSumSet(LAMBDA a : Duration[a], acts)

Refused(g) == Total(Placed(g)) < Total(Placed(initial)) \/ StudentHoles(g) > Baseline

Snapshot(m, g) == [metrics |-> m, grid |-> g]
BeatsAll(m) == Better(m, globalBest.metrics, mode, Locks)

Archived(m, g) ==
    IF Len(elite) < EliteSize \/ Better(m, elite[1].metrics, mode, Locks)
    THEN SubSeq(<<Snapshot(m, g)>> \o elite, 1,
                IF Len(elite) < EliteSize THEN Len(elite) + 1 ELSE EliteSize)
    ELSE elite

SaveBestSnapshot(m, g) ==
    IF Refused(g) THEN UNCHANGED <<elite, globalBest>>
    ELSE /\ elite' = Archived(m, g)
         /\ globalBest' = IF BeatsAll(m) THEN Snapshot(m, g) ELSE globalBest

(***************************************************************************)
(* The guarded wrapper around every operator, and what optimize does with  *)
(* the operator's answer                                                   *)
(***************************************************************************)
\* Faulty variant: the result of a rejected operator is still reported.
AcceptedRejected(g) == moved /\ Better(cur, best, mode, Locks)

\* The wrapper answers null when the gate fails; the answer must beat bestMetrics.
AcceptedResult(g) == moved /\ Passes(g) /\ Better(cur, best, mode, Locks)

\* Faulty variant: the wrapper only checks operators that report a success.
GuardedReporting(g) == IF moved /\ ~Passes(g) THEN snap ELSE g

Guarded(g) == IF Passes(g) THEN g ELSE snap

\* bestMetrics and the schedules kept after the operator that leaves grid.
Answered ==
    IF AcceptedResult(grid) THEN best' = cur /\ SaveBestSnapshot(cur, Guarded(grid))
    ELSE UNCHANGED <<best, elite, globalBest>>

(***************************************************************************)
(* The steps.  The next step begins on some grid, with nothing moved.      *)
(***************************************************************************)
Begin == phase' = "rounds" /\ snap' = grid' /\ moved' = FALSE

\* An operator changes the grid and what it would report, which is true of a grid that passes.
Change ==
    /\ phase = "rounds"
    /\ moved' \in BOOLEAN
    /\ moved' /\ Passes(grid') => cur' = Metrics(grid')
    /\ UNCHANGED <<mode, initial, snap, best, globalBest, elite, phase>>

\* The operator returns, through the gate.
Answer ==
    /\ phase = "rounds" /\ grid' = Guarded(grid) /\ Answered
    /\ Begin \/ (phase' = "portfolio" /\ UNCHANGED <<snap, cur, moved>>)
    /\ UNCHANGED <<mode, initial>>

\* Between operators the search goes on from its grid, from a schedule of the archive,
\* or from one that passes the gate.
GoOn ==
    /\ phase = "rounds" /\ Begin
    /\ grid' = snap \/ (\E i \in DOMAIN elite : grid' = elite[i].grid) \/ Passes(grid')
    /\ UNCHANGED <<mode, initial, best, globalBest, elite>>

Stop ==
    /\ phase = "rounds" /\ phase' = "portfolio"
    /\ UNCHANGED <<grid, mode, initial, snap, cur, moved, best, globalBest, elite>>

\* A restart measures the schedule it starts from anew.
Again ==
    /\ phase = "portfolio" /\ Begin /\ best' = Metrics(grid')
    /\ grid' \in {initial, globalBest.grid} \/ Passes(grid')
    /\ UNCHANGED <<mode, initial, globalBest, elite>>

\* The best of all restarts is put back, and checked once more against the initial one.
Finished ==
    LET g == globalBest.grid
        kept == Passes(g) /\ ~Worse(Metrics(g), Metrics(initial), mode, Locks)
    IN  /\ grid' = IF kept THEN g ELSE initial
        /\ best' = IF kept THEN globalBest.metrics ELSE Metrics(initial)

End ==
    /\ phase = "portfolio" /\ phase' = "done" /\ Finished
    /\ UNCHANGED <<mode, initial, snap, cur, moved, globalBest, elite>>

SearchInit ==
    /\ initial \in InitialGrids /\ mode \in Modes /\ grid = initial
    /\ snap = grid /\ moved = FALSE
    /\ best = Metrics(initial) /\ cur = best
    /\ globalBest = Snapshot(best, initial) /\ elite = <<globalBest>>
    /\ phase = "rounds"

SearchNext == Change \/ Answer \/ GoOn \/ Stop \/ Again \/ End

SearchSpec == SearchInit /\ [][SearchNext]_searchVars

(***************************************************************************)
(* Properties                                                              *)
(***************************************************************************)
\* Whatever an operator tried, kept or failed to put back, the next one begins on a
\* schedule that passed the integrity gate, and so does every schedule kept for later
\* (the wrapper installed over GUARDED_OPERATORS).
OperatorsLeaveIntact ==
    /\ Passes(snap)
    /\ Passes(globalBest.grid)
    /\ \A i \in DOMAIN elite : Passes(elite[i].grid)

\* Metrics and schedule are kept and restored apart, but they belong together: those of the
\* best schedule, of the elite archive, and those optimize returns with its result.
MetricsDescribeSchedule ==
    /\ globalBest.metrics = Metrics(globalBest.grid)
    /\ \A i \in DOMAIN elite : elite[i].metrics = Metrics(elite[i].grid)
    /\ phase = "done" => best = Metrics(grid)

\* Through perturbed restarts and elite branches the best schedule kept is never worse than
\* the one the user started from (the comment at the seeding of __globalBestM), and it still
\* places every lesson that was placed.
NeverWorseThanInitial ==
    /\ ~Worse(Metrics(globalBest.grid), Metrics(initial), mode, Locks)
    /\ Placed(initial) \subseteq Placed(globalBest.grid)
=============================================================================
