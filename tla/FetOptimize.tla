---------------------------- MODULE FetOptimize ----------------------------
(***************************************************************************)
(* optimize in tkb-fet-engine.js, in its modes optimize_singletons and     *)
(* optimize_sessions: rounds of operators that each pass the integrity     *)
(* gate, the best schedule of the run and the best of all restarts, the    *)
(* escapes of rounds without progress, restarts, and the final check.      *)
(*                                                                         *)
(* The run starts from a schedule already loaded and repaired, whatever it *)
(* looks like.  Deadlines, the stop button and the cuts of the candidate   *)
(* lists are free choices: an operator may end before its next move and a  *)
(* run of rounds before its next round (also because of MAX_ROUNDS).       *)
(***************************************************************************)
EXTENDS FetSearch, FetEscapes

CONSTANTS
    MaxStagnant,    \* maxStagnantRounds: 25 and 18 in the code
    MaxRestarts,    \* options.optimizeMaxRestarts: 20 in the code
    PerturbMoves    \* 6 + 3 * restartCount in the code

VARIABLES
    step,           \* the position in Program(mode), or Len + 1 after the last
    improved,       \* improvedInRound
    stagnant,       \* consecutiveUnimprovedRounds
    restarts,
    struck          \* the operators' deadline was set back when the goal was met

vars == <<grid, mode, initial, step, snap, cur, moved, best, globalBest, elite,
          improved, stagnant, restarts, struck, phase>>

Strict == mode # "optimize_singletons"

Goal(m) == IF mode = "optimize_singletons" THEN m.soBuoiDay1 ELSE m.tsBuoiDay
Met(m) == Goal(m) = 0 \/ (mode = "optimize_singletons" /\ m.soBuoiDay1 <= 1)

Downhill ==
    [optimize_singletons |->
        <<"fast", "relabel", "fixDay", "obliterate", "cross", "augment", "reinforce",
          "consolidate">>,
     optimize_sessions |->
        <<"vacate", "vacateThin", "obliterateThin", "obliterate", "consolidate">>]

Escapes == <<"sessionSwap", "deepChain", "ejection", "walk">>

Program == Downhill[mode] \o <<"judge">> \o Escapes \o <<"elite", "endRound">>
At(name) == phase = "rounds" /\ Program[step] = name
AtOperator == phase = "rounds" /\ Program[step] \notin {"judge", "elite", "endRound"}

\* Operators that measure the grid themselves when they begin.
Measuring == {"obliterate", "cross", "augment", "obliterateThin"}

\* The conditions on an escape; downhill operators are always due.
Due(name) ==
    LET k == stagnant
        stuck == Bottlenecks(grid, mode) # {}
    IN  CASE name = "sessionSwap" -> k % 4 = 1
          [] name = "deepChain" -> ~improved /\ stuck /\ (k % 4 = 2 \/ k >= 5)
          [] name = "ejection" -> ~improved /\ stuck /\ k >= 6
          [] name = "walk" -> ~improved /\ k >= 4 /\ k % 3 = 0
          [] name = "elite" -> ~improved /\ k >= 10 /\ Len(elite) > 1
          [] OTHER -> TRUE

\* The program goes on at position i with grid g and best metrics b.
GoTo(i, g, b) ==
    /\ step' = i /\ grid' = g /\ snap' = g /\ moved' = FALSE
    /\ cur' = IF Program[i] \in Measuring THEN Metrics(g) ELSE b

(***************************************************************************)
(* The operators.  Their next kept move, from the grid as it is.           *)
(***************************************************************************)
Now == [grid |-> grid, cur |-> cur, moved |-> moved]

\* What an operator has come to: its grid, currentBest, and whether it kept a move.
Becomes(outcomes) ==
    /\ ~struck
    /\ \E v \in outcomes \ {Now} : grid' = v.grid /\ cur' = v.cur /\ moved' = v.moved
    /\ UNCHANGED <<mode, initial, step, snap, best, globalBest, elite, improved,
                   stagnant, restarts, struck, phase>>

\* Faulty variant: the metrics reported are those of the grid before the move.
MoveMeasuredBefore(moves) ==
    Becomes({[grid |-> h, cur |-> Metrics(grid), moved |-> TRUE] : h \in moves})

Move(moves) == Becomes({[grid |-> h, cur |-> Metrics(h), moved |-> TRUE] : h \in moves})

TryFastSingletonRepair ==
    At("fast") /\ Move(FastSingletonRepair(grid, cur, Baseline, Strict))
TrySingletonRelabelCycles ==
    At("relabel") /\ Move(SingletonRelabelCycles(grid, cur, Baseline, Strict, Locks))
TryFixDaySingletons == At("fixDay") /\ Move(FixDaySingletons(grid, cur, Strict))
TryObliterateSingletons ==
    At("obliterate") /\ Move(ObliterateTeacherSingletons(grid, cur, Strict))
TryCrossSubjectSwap == At("cross") /\ Becomes(CrossSubjectSingletonSwap(Now))
TryAugmentingChain == At("augment") /\ Becomes(AugmentingChain(Now))
TryReinforceSingletons ==
    At("reinforce") /\ Move(ReinforceTeacherSingletons(grid, cur, Strict))
TryConsolidateSingletons ==
    At("consolidate") /\ Move(ConsolidateTeacherSingletons(grid, cur, Strict))
TryVacateSessions ==
    /\ At("vacate")
    /\ Becomes({VacateTurn(Now, t, x, best, Strict) : t \in Scored, x \in Sessions})
\* The loop over thin sessions ends with the first one vacated.
TryVacateThin == At("vacateThin") /\ ~moved /\ Move(VacateThinSessions(grid, best, Locks))
TryObliterateThin ==
    At("obliterateThin") /\ Move(ObliterateThinSessions(grid, cur, Exempt, Baseline, Locks))

\* Those that end with their first success.
TrySessionSwap ==
    /\ At("sessionSwap") /\ Due("sessionSwap") /\ ~moved
    /\ Move(WholeSessionSwap(grid, cur, mode, Strict, Locks))
TryDeepChain ==
    /\ At("deepChain") /\ Due("deepChain") /\ ~moved
    /\ \E ts \in Sliced(Bottlenecks(grid, mode), 5) :
          Move(DeepEjectionChain(grid, ts, cur, mode, Strict, Locks))
TryNeutralWalk ==
    /\ At("walk") /\ Due("walk") /\ ~moved
    /\ Move(NeutralPlateauWalk(grid, cur, mode, Strict, Locks))

TryEjectionChain ==
    /\ At("ejection") /\ Due("ejection")
    /\ \E ts \in Sliced(Bottlenecks(snap, mode), 8) :
          Move(SingletonEjectionChain(grid, snap, ts, cur, mode, Strict, Locks))

(***************************************************************************)
(* The operator returns through the gate.                                  *)
(***************************************************************************)
Leave ==
    /\ AtOperator
    /\ LET escape == step > Len(Downhill[mode]) + 1
           won == AcceptedResult(grid)
           b == IF won THEN cur ELSE best
       IN
       /\ Answered
       /\ struck' = (struck \/ (won /\ ~Refused(grid) /\ BeatsAll(cur) /\ Goal(cur) = 0))
       /\ improved' = (improved \/ won)
       /\ stagnant' = IF won /\ escape THEN 0 ELSE stagnant
       /\ IF At("fast") /\ b.soBuoiDay1 <= 1
          THEN /\ phase' = "portfolio" /\ grid' = Guarded(grid)
               /\ UNCHANGED <<step, snap, cur, moved>>
          ELSE phase' = phase /\ GoTo(step + 1, Guarded(grid), b)
    /\ UNCHANGED <<mode, initial, restarts>>

(***************************************************************************)
(* The rest of the round                                                   *)
(***************************************************************************)
Judge ==
    /\ At("judge")
    /\ stagnant' = IF improved THEN 0 ELSE stagnant + 1
    /\ GoTo(IF improved THEN Len(Program) ELSE step + 1, grid, best)
    /\ UNCHANGED <<mode, initial, best, globalBest, elite, improved, restarts,
                   struck, phase>>

\* A random elite schedule replaces the grid; the answer of the walk from it is not read.
BranchFromElite ==
    /\ At("elite")
    /\ IF Due("elite")
       THEN \E i \in DOMAIN elite :
               \E g \in {elite[i].grid} \cup NeutralPlateauWalk(elite[i].grid, best, mode, Strict, Locks) :
                  GoTo(step + 1, IF Passes(g) THEN g ELSE elite[i].grid, best)
       ELSE GoTo(step + 1, grid, best)
    /\ UNCHANGED <<mode, initial, best, globalBest, elite, improved, stagnant, restarts, struck, phase>>

EndRound ==
    /\ At("endRound")
    /\ improved' = FALSE
    /\ IF Met(best) \/ stagnant >= MaxStagnant
       THEN phase' = "portfolio" /\ UNCHANGED <<step, grid, snap, cur, moved>>
       ELSE phase' = phase /\ GoTo(1, grid, best)
    /\ UNCHANGED <<mode, initial, best, globalBest, elite, stagnant, restarts, struck>>

\* The stop button and the deadlines are looked at before each round; MAX_ROUNDS ends
\* the loop there as well.
StopRounds ==
    /\ phase = "rounds" /\ step = 1 /\ ~moved /\ phase' = "portfolio"
    /\ UNCHANGED <<grid, mode, initial, step, snap, cur, moved, best, globalBest, elite,
                   improved, stagnant, restarts, struck>>

(***************************************************************************)
(* perturbForRestart and the restart                                       *)
(***************************************************************************)
RECURSIVE Perturbed(_, _)
Perturbed(g, n) ==
    IF n = 0 THEN {g}
    ELSE UNION {Perturbed(h, n - 1) :
            h \in UNION {{g} \cup RandomSwap(Take(g, a), a, Slots, Strict) : a \in Placed(g)}}

MayRestart ==
    /\ phase = "portfolio" /\ mode = "optimize_singletons"
    /\ ~Met(globalBest.metrics) /\ restarts < MaxRestarts

\* Faulty variant: the best of all restarts is seeded anew with the perturbed start.
RestartReseeding ==
    /\ MayRestart
    /\ restarts' = restarts + 1 /\ stagnant' = 0 /\ improved' = FALSE
    /\ \E g \in Perturbed(initial, PerturbMoves) :
          LET start == IF Passes(g) THEN g ELSE initial IN
          /\ best' = Metrics(start) /\ GoTo(1, start, Metrics(start))
          /\ globalBest' = Snapshot(Metrics(start), start)
    /\ phase' = "rounds"
    /\ UNCHANGED <<mode, initial, elite, struck>>

Restart ==
    /\ MayRestart
    /\ restarts' = restarts + 1 /\ stagnant' = 0 /\ improved' = FALSE
    /\ \E g \in IF restarts % 2 = 0 THEN Perturbed(initial, PerturbMoves) ELSE {globalBest.grid} :
          LET start == IF Passes(g) THEN g ELSE initial IN
          best' = Metrics(start) /\ GoTo(1, start, Metrics(start))
    /\ phase' = "rounds"
    /\ UNCHANGED <<mode, initial, globalBest, elite, struck>>

Finish ==
    /\ phase = "portfolio" /\ phase' = "done" /\ Finished
    /\ UNCHANGED <<mode, initial, step, snap, cur, moved, globalBest, elite, improved,
                   stagnant, restarts, struck>>

Init ==
    /\ SearchInit
    /\ step = 1 /\ improved = FALSE /\ stagnant = 0 /\ restarts = 0 /\ struck = FALSE

Operator ==
    \/ TryFastSingletonRepair \/ TrySingletonRelabelCycles \/ TryFixDaySingletons
    \/ TryObliterateSingletons \/ TryCrossSubjectSwap \/ TryAugmentingChain
    \/ TryReinforceSingletons \/ TryConsolidateSingletons
    \/ TryVacateSessions \/ TryVacateThin \/ TryObliterateThin
    \/ TrySessionSwap \/ TryDeepChain \/ TryEjectionChain \/ TryNeutralWalk

Next ==
    \/ Operator \/ Leave \/ Judge \/ BranchFromElite \/ EndRound \/ StopRounds
    \/ Restart \/ Finish

Spec == Init /\ [][Next]_vars

(***************************************************************************)
(* Properties                                                              *)
(***************************************************************************)
\* The rounds, escapes and restarts are a search of FetSearch: each operator reports the
\* metrics of what it leaves, or leaves what does not pass the gate, and only schedules
\* that passed it or were kept before are gone on from.  This is for lessons of at most one
\* teacher: the gate does not look at the rows of teachers, and Crossed may leave that of a
\* second teacher wrong, so that a report made before such a put-back may be untrue.
KeepsGuard == SearchSpec

\* The result keeps what getConflictsForSlot makes hard (the comment above
\* optimizeAll: lessons placed and hard-valid come before every metric), and its rows of
\* classes, teachers and rooms agree with the lessons placed.
ResultIsHardValid ==
    phase = "done" /\ HardValid(initial) => HardValid(grid)
=============================================================================
