--------------------------- MODULE FetSearchProofs ---------------------------
(***************************************************************************)
(* What optimize promises, proved of FetSearch for any timetable and any   *)
(* operators: the schedules it keeps pass the integrity gate, have the     *)
(* metrics kept with them, and are never worse than the first one.         *)
(*                                                                         *)
(* Vetoed lets two metrics be worse than each other, so that "never worse" *)
(* is no order to begin with; NeverWorseAgain shows that it survives what  *)
(* saveBestSnapshot compares.                                              *)
(***************************************************************************)
EXTENDS FetSearch, FiniteSetTheorems, SequenceTheorems, TLAPS

(***************************************************************************)
(* Metrics are natural numbers, and so are the holes of the classes.       *)
(***************************************************************************)
MetricsSet ==
    [soBuoiDay1 : Nat, soBuoiDay2 : Nat, soBuoiDay3 : Nat, tsBuoiDay : Nat,
     soBuoiTrong1 : Nat, soBuoiTrong2 : Nat, tsNgayDay : Nat, soNgayMotTiet : Nat]

\* Counting the members of a product of which one side is an interval.
LEMMA CountsInProduct ==
    ASSUME NEW S, IsFiniteSet(S), NEW n \in Int, NEW C, C \subseteq S \X (0 .. n)
    PROVE  Cardinality(C) \in Nat
<1>1. IsFiniteSet(0 .. n) BY FS_Interval
<1>2. IsFiniteSet(S \X (0 .. n)) BY <1>1, FS_Product
<1>3. IsFiniteSet(C) BY <1>2, FS_Subset
<1> QED BY <1>3, FS_CardinalityType

\* evaluateMetrics counts sessions and days of the scored teachers.
LEMMA MetricsTyped == ASSUME NEW g PROVE Metrics(g) \in MetricsSet
<1>1. IsFiniteSet(Scored) BY SearchAssumption
<1>2. Days * 2 - 1 \in Int /\ Days - 1 \in Int BY GridAssumption
<1>3. \A C \in SUBSET (Scored \X Sessions) : Cardinality(C) \in Nat
  BY <1>1, <1>2, CountsInProduct DEF Sessions
<1>4. \A C \in SUBSET (Scored \X (0 .. Days - 1)) : Cardinality(C) \in Nat
  BY <1>1, <1>2, CountsInProduct
<1>5. /\ Metrics(g).soBuoiDay1 \in Nat /\ Metrics(g).soBuoiDay2 \in Nat
      /\ Metrics(g).soBuoiDay3 \in Nat /\ Metrics(g).tsBuoiDay \in Nat
      /\ Metrics(g).soBuoiTrong1 \in Nat /\ Metrics(g).soBuoiTrong2 \in Nat
  BY <1>3 DEF Metrics, SessionsWhere
<1>6. Metrics(g).tsNgayDay \in Nat /\ Metrics(g).soNgayMotTiet \in Nat
  BY <1>4 DEF Metrics, DaysWhere
<1> QED BY <1>5, <1>6 DEF MetricsSet, Metrics

\* countStudentHoles is a number, so that a grid has no more holes than it has itself.
LEMMA HolesTyped == ASSUME NEW g PROVE StudentHoles(g) \in Nat
<1>1. IsFiniteSet(Classes) BY SearchAssumption
<1>2. Days * 2 * Periods - 1 \in Int BY GridAssumption
<1>3. \A C \in SUBSET (Classes \X Slots) : Cardinality(C) \in Nat
  BY <1>1, <1>2, CountsInProduct DEF Slots
<1> QED BY <1>3 DEF StudentHoles

(***************************************************************************)
(* The comparison of two metrics                                           *)
(***************************************************************************)
SixNumbers == [1 .. 6 -> Nat]

\* The metrics compared one after the other form a strict order.
LEMMA LexTransitive ==
    ASSUME NEW p \in SixNumbers, NEW q \in SixNumbers, NEW r \in SixNumbers,
           LexLess(p, q), LexLess(q, r)
    PROVE  LexLess(p, r)
<1>1. PICK i \in 1 .. 6 : p[i] < q[i] /\ \A j \in 1 .. i - 1 : p[j] = q[j]
  BY DEF LexLess, SixNumbers
<1>2. PICK k \in 1 .. 6 : q[k] < r[k] /\ \A j \in 1 .. k - 1 : q[j] = r[j]
  BY DEF LexLess, SixNumbers
<1> DEFINE n == IF i < k THEN i ELSE k
<1>3. n \in 1 .. 6 OBVIOUS
<1>4. p[n] < r[n]
  <2>1. \A j \in 1 .. 6 : p[j] \in Nat /\ q[j] \in Nat /\ r[j] \in Nat BY DEF SixNumbers
  <2>2. CASE i < k BY <1>1, <1>2, <2>1, <2>2
  <2>3. CASE i = k BY <1>1, <1>2, <2>1, <2>3
  <2>4. CASE k < i BY <1>1, <1>2, <2>1, <2>4
  <2> QED BY <2>2, <2>3, <2>4
<1>5. \A j \in 1 .. n - 1 : p[j] = r[j] BY <1>1, <1>2
<1> QED BY <1>3, <1>4, <1>5 DEF LexLess, SixNumbers

LEMMA RankTyped ==
    ASSUME NEW m \in MetricsSet, NEW v \in {"optimize_singletons", "optimize_sessions"}
    PROVE  Rank(m, v) \in SixNumbers
BY DEF Rank, Thin, MetricsSet, SixNumbers

\* Without stage locks only the veto and the ranks count.
LEMMA Unlocked ==
    ASSUME NEW a, NEW b, NEW v
    PROVE  /\ Better(a, b, v, Locks) <=> ~Vetoed(a, b, v, Locks) /\ LexLess(Rank(a, v), Rank(b, v))
           /\ Worse(a, b, v, Locks) <=> Vetoed(a, b, v, Locks) \/ LexLess(Rank(b, v), Rank(a, v))
<1>1. DOMAIN Locks = {} BY DEF Locks
<1>2. {k \in DOMAIN Locks : a[k] > Locks[k]} = {} /\ {k \in DOMAIN Locks : b[k] > Locks[k]} = {}
  BY <1>1
<1>3. LockViolations(a, Locks) = 0 /\ LockViolations(b, Locks) = 0
  BY <1>2, FS_EmptySet DEF LockViolations
<1> QED BY <1>3 DEF Better, Worse

\* What beats metrics that are not worse than others is not worse than those either.
LEMMA NeverWorseAgain ==
    ASSUME NEW a \in MetricsSet, NEW b \in MetricsSet, NEW c \in MetricsSet,
           NEW v \in {"optimize_singletons", "optimize_sessions"},
           ~Worse(b, c, v, Locks), Better(a, b, v, Locks)
    PROVE  ~Worse(a, c, v, Locks)
<1>1. ~Vetoed(b, c, v, Locks) /\ ~LexLess(Rank(c, v), Rank(b, v)) BY Unlocked
<1>2. ~Vetoed(a, b, v, Locks) /\ LexLess(Rank(a, v), Rank(b, v)) BY Unlocked
<1>3. ~Vetoed(a, c, v, Locks)
  <2>1. CASE v = "optimize_singletons" BY <2>1 DEF Vetoed
  <2>2. CASE v = "optimize_sessions" BY <1>1, <1>2, <2>2 DEF Vetoed, MetricsSet
  <2> QED BY <2>1, <2>2
<1>4. ~LexLess(Rank(c, v), Rank(a, v)) BY <1>1, <1>2, RankTyped, LexTransitive
<1> QED BY <1>3, <1>4, Unlocked

(***************************************************************************)
(* The gate lets the first schedule through.                               *)
(***************************************************************************)
\* Rows that agree with the placements pass the gate, against their own holes and gaps.
LEMMA ConsistentPasses ==
    ASSUME NEW g, Consistent(g)
    PROVE  Intact(g, Act \ Placed(g), StudentHoles(g))
<1> USE GridAssumption
<1>1. ASSUME NEW a \in Placed(g), NEW s \in Covered(a, g.place[a]), NEW r \in Uses(a)
      PROVE  s \in Slots /\ Ground(r, s) = Free /\ r \in Resources
  BY <1>1 DEF Consistent, Placed, Uses, Resources
<1>2. ASSUME NEW a \in Placed(g), NEW s \in Covered(a, g.place[a])
      PROVE  g.cells[ClassOf[a]][s] = a
  <2> DEFINE c == ClassOf[a]
             here == {b \in Placed(g) : c \in Uses(b) /\ s \in Covered(b, g.place[b])}
  <2>1. c \in Uses(a) BY DEF Uses
  <2>2. \A b \in here : b = a BY <2>1 DEF Consistent
  <2>3. here = {a} BY <2>1, <2>2
  <2>4. g.cells[c][s] = CellOf(g, c, s) BY <1>1, <2>1 DEF Consistent
  <2> QED BY <2>3, <2>4 DEF CellOf
<1>3. ASSUME NEW a \in Placed(g), NEW s \in Covered(a, g.place[a])
      PROVE  Ground(ClassOf[a], s) = Free /\ \A t \in TeachersOf[a] : <<t, s>> \notin TeacherOff
  BY <1>1 DEF Uses, Ground, OffPairs, Free, Off
<1>4. ASSUME NEW a \in Placed(g), NEW b \in Placed(g), a # b, TeachersOf[a] \cap TeachersOf[b] # {}
      PROVE  Covered(a, g.place[a]) \cap Covered(b, g.place[b]) = {}
  BY <1>4 DEF Consistent, Uses
<1>5. ASSUME NEW c \in Classes, NEW s \in Slots, Taken(g, c, s)
      PROVE  g.place[g.cells[c][s]] # Unplaced
                /\ s \in Covered(g.cells[c][s], g.place[g.cells[c][s]])
  <2> DEFINE here == {b \in Placed(g) : c \in Uses(b) /\ s \in Covered(b, g.place[b])}
  <2>1. g.cells[c][s] = CellOf(g, c, s) BY DEF Consistent, Resources
  <2>2. Ground(c, s) \notin Act BY DEF Ground, Off, FixedCell, Free
  <2>3. here # {} BY <1>5, <2>1, <2>2 DEF CellOf, Taken
  <2>4. g.cells[c][s] \in here BY <2>1, <2>3 DEF CellOf
  <2> QED BY <2>4 DEF Placed
<1>6. StudentHoles(g) <= StudentHoles(g) BY HolesTyped
<1> QED BY <1>2, <1>3, <1>4, <1>5, <1>6 DEF Intact

(***************************************************************************)
(* The inductive invariant                                                 *)
(***************************************************************************)
\* A snapshot that passes the gate and was kept with its own metrics.
Kept(s) == Passes(s.grid) /\ s.metrics = Metrics(s.grid)

\* An answer that will be accepted describes the grid it is given with: the metrics an
\* operator reports are compared only while its grid passes the gate.
Honest == phase = "rounds" /\ moved /\ Passes(grid) => cur = Metrics(grid)

SearchInv ==
    /\ mode \in Modes
    /\ Passes(initial) /\ Passes(snap)
    /\ Kept(globalBest)
    /\ \E S : elite \in Seq(S)
    /\ \A i \in DOMAIN elite : Kept(elite[i])
    /\ ~Worse(Metrics(globalBest.grid), Metrics(initial), mode, Locks)
    /\ Honest
    /\ phase = "done" => best = Metrics(grid)

\* The first schedule passes its own gate.
LEMMA FirstPasses ==
    ASSUME initial \in InitialGrids PROVE Passes(initial)
BY ConsistentPasses, SearchAssumption DEF Passes, Exempt, Baseline

\* saveBestSnapshot keeps only what passed, and replaces the best only by a better one.
LEMMA SavingKeeps ==
    ASSUME SearchInv, NEW g, Passes(g),
           SaveBestSnapshot(Metrics(g), g), UNCHANGED <<initial, mode>>
    PROVE  /\ Kept(globalBest')
           /\ \E S : elite' \in Seq(S)
           /\ \A i \in DOMAIN elite' : Kept(elite'[i])
           /\ ~Worse(Metrics(globalBest'.grid), Metrics(initial), mode, Locks)
<1> DEFINE new == Snapshot(Metrics(g), g)
<1>1. new.grid = g /\ new.metrics = Metrics(g) BY DEF Snapshot
<1>2. Kept(new) BY <1>1 DEF Kept
<1>3. CASE Refused(g)
  <2>1. elite' = elite /\ globalBest' = globalBest BY <1>3 DEF SaveBestSnapshot
  <2> QED BY <2>1 DEF SearchInv
<1>4. CASE ~Refused(g)
  <2>1. elite' = Archived(Metrics(g), g)
        /\ globalBest' = IF BeatsAll(Metrics(g)) THEN new ELSE globalBest
    BY <1>4 DEF SaveBestSnapshot
  <2>2. Kept(globalBest') BY <1>2, <2>1 DEF SearchInv
  <2>3. PICK S : elite \in Seq(S) BY DEF SearchInv
  <2>4. (\E T : elite' \in Seq(T)) /\ \A i \in DOMAIN elite' : Kept(elite'[i])
    <3> DEFINE n == IF Len(elite) < EliteSize THEN Len(elite) + 1 ELSE EliteSize
               all == <<new>> \o elite
               T == S \cup {new}
    <3>1. CASE elite' = elite BY <2>3, <3>1 DEF SearchInv
    <3>2. CASE elite' = SubSeq(all, 1, n)
      <4>1. <<new>> \in Seq(T) /\ elite \in Seq(T) BY <2>3
      <4>2. all \in Seq(T) /\ Len(all) = 1 + Len(elite) BY <4>1
      <4>3. n \in 1 .. Len(all) BY <4>2, <2>3, SearchAssumption
      <4>4. elite' \in Seq(T) /\ Len(elite') = n /\ \A i \in 1 .. n : elite'[i] = all[i]
        BY <3>2, <4>2, <4>3, SubSeqProperties
      <4>5. \A i \in 1 .. Len(all) : all[i] = IF i = 1 THEN new ELSE elite[i - 1]
        BY <4>1, ConcatProperties
      <4>6. \A i \in 1 .. Len(all) : Kept(all[i])
        BY <1>2, <2>3, <4>2, <4>5 DEF SearchInv
      <4> QED BY <4>3, <4>4, <4>6
    <3> QED BY <2>1, <3>1, <3>2 DEF Archived
  <2>5. ~Worse(Metrics(globalBest'.grid), Metrics(initial), mode, Locks)
    <3>1. CASE BeatsAll(Metrics(g))
      <4>1. globalBest'.grid = g BY <1>1, <2>1, <3>1
      <4>2. Better(Metrics(g), Metrics(globalBest.grid), mode, Locks)
        BY <3>1 DEF BeatsAll, SearchInv, Kept
      <4>3. mode \in {"optimize_singletons", "optimize_sessions"}
        BY SearchAssumption DEF SearchInv
      <4> QED BY <4>1, <4>2, <4>3, MetricsTyped, NeverWorseAgain DEF SearchInv
    <3>2. CASE ~BeatsAll(Metrics(g)) BY <2>1, <3>2 DEF SearchInv
    <3> QED BY <3>1, <3>2
  <2> QED BY <2>2, <2>4, <2>5
<1> QED BY <1>3, <1>4

(***************************************************************************)
(* Every step keeps the invariant.                                         *)
(***************************************************************************)
\* The gate looks at the first schedule, which no step changes.
LEMMA GateStays ==
    ASSUME UNCHANGED initial
    PROVE  /\ \A g : Passes(g)' <=> Passes(g)
           /\ \A s : Kept(s)' <=> Kept(s)
<1>1. \A g : Passes(g)' <=> Passes(g) BY DEF Passes, Exempt, Baseline
<1> QED BY <1>1 DEF Kept

\* A step that keeps the schedules has only the grid, its metrics and snap to account for.
LEMMA SchedulesStay ==
    ASSUME SearchInv, UNCHANGED <<mode, initial, globalBest, elite>>,
           Passes(snap'), Honest', phase' = "done" => best' = Metrics(grid')
    PROVE  SearchInv'
<1>1. (\A g : Passes(g)' <=> Passes(g)) /\ (\A s : Kept(s)' <=> Kept(s)) BY GateStays
<1>2. Passes(initial)' /\ Passes(snap)' /\ Kept(globalBest)' BY <1>1 DEF SearchInv
<1>3. (\A i \in DOMAIN elite : Kept(elite[i]))' BY <1>1 DEF SearchInv
<1>4. (phase = "done" => best = Metrics(grid))' OBVIOUS
<1> QED BY <1>2, <1>3, <1>4 DEF SearchInv, Locks

\* A new operator begins with nothing moved.
LEMMA BeginIsHonest == ASSUME Begin PROVE Honest' /\ phase' # "done" /\ snap' = grid'
BY DEF Begin, Honest

LEMMA ChangeKeeps == ASSUME SearchInv, Change PROVE SearchInv'
<1>1. \A g : Passes(g)' <=> Passes(g) BY GateStays DEF Change
<1>2. Honest' BY <1>1 DEF Change, Honest, SearchInv
<1> QED BY <1>2, SchedulesStay DEF Change, SearchInv

\* The gate answers with a grid that passes, or puts back the one the operator began with.
LEMMA AnswerKeeps == ASSUME SearchInv, Answer PROVE SearchInv'
<1>1. Passes(grid') BY DEF Answer, Guarded, SearchInv
<1>2. (\A g : Passes(g)' <=> Passes(g)) /\ (\A s : Kept(s)' <=> Kept(s))
  BY GateStays DEF Answer
<1>3. Passes(snap') /\ Honest' /\ phase' # "done"
  BY <1>1, BeginIsHonest DEF Answer, SearchInv, Honest
<1>4. CASE AcceptedResult(grid)
  <2>1. Passes(grid) /\ cur = Metrics(grid) /\ Guarded(grid) = grid
    BY <1>4 DEF AcceptedResult, Guarded, Answer, SearchInv, Honest
  <2>2. SaveBestSnapshot(Metrics(grid), grid) BY <1>4, <2>1 DEF Answer, Answered
  <2>3. /\ Kept(globalBest')
        /\ \E S : elite' \in Seq(S)
        /\ \A i \in DOMAIN elite' : Kept(elite'[i])
        /\ ~Worse(Metrics(globalBest'.grid), Metrics(initial), mode, Locks)
    BY <2>1, <2>2, SavingKeeps DEF Answer
  <2>4. Kept(globalBest)' /\ (\A i \in DOMAIN elite : Kept(elite[i]))' BY <1>2, <2>3
  <2>5. Passes(initial)' /\ Passes(snap)' BY <1>2, <1>3 DEF Answer, SearchInv
  <2>6. (~Worse(Metrics(globalBest.grid), Metrics(initial), mode, Locks))'
    BY <2>3 DEF Answer, Locks
  <2>7. mode' \in Modes BY DEF Answer, SearchInv
  <2>8. (phase = "done" => best = Metrics(grid))' BY <1>3
  <2> QED BY <1>3, <2>3, <2>4, <2>5, <2>6, <2>7, <2>8 DEF SearchInv
<1>5. CASE ~AcceptedResult(grid)
  <2>1. UNCHANGED <<mode, initial, globalBest, elite>> BY <1>5 DEF Answer, Answered
  <2> QED BY <1>3, <2>1, SchedulesStay
<1> QED BY <1>4, <1>5

LEMMA GoOnKeeps == ASSUME SearchInv, GoOn PROVE SearchInv'
<1>1. \A g : Passes(g)' <=> Passes(g) BY GateStays DEF GoOn
<1>2. Passes(grid') BY <1>1 DEF GoOn, SearchInv, Kept
<1> QED BY <1>2, BeginIsHonest, SchedulesStay DEF GoOn

LEMMA StopKeeps == ASSUME SearchInv, Stop PROVE SearchInv'
<1>1. Honest' /\ phase' # "done" BY DEF Stop, Honest
<1> QED BY <1>1, SchedulesStay DEF Stop, SearchInv

LEMMA AgainKeeps == ASSUME SearchInv, Again PROVE SearchInv'
<1>1. \A g : Passes(g)' <=> Passes(g) BY GateStays DEF Again
<1>2. Passes(grid') BY <1>1 DEF Again, SearchInv, Kept
<1> QED BY <1>2, BeginIsHonest, SchedulesStay DEF Again

\* The result is the best of all restarts, or the first schedule measured once more.
LEMMA EndKeeps == ASSUME SearchInv, End PROVE SearchInv'
<1>1. Honest' BY DEF End, Honest
<1>2. best' = Metrics(grid') BY DEF End, Finished, SearchInv, Kept
<1> QED BY <1>1, <1>2, SchedulesStay DEF End, SearchInv

LEMMA SearchStarts == ASSUME SearchInit PROVE SearchInv
<1>1. Passes(initial) BY FirstPasses DEF SearchInit
<1>2. globalBest = Snapshot(Metrics(initial), initial) /\ elite = <<globalBest>>
  BY DEF SearchInit
<1>3. Kept(globalBest) BY <1>1, <1>2 DEF Kept, Snapshot
<1>4. elite \in Seq({globalBest}) /\ \A i \in DOMAIN elite : Kept(elite[i]) BY <1>2, <1>3
<1>5. ~Worse(Metrics(globalBest.grid), Metrics(initial), mode, Locks)
  <2>1. globalBest.grid = initial BY <1>2 DEF Snapshot
  <2>2. mode \in {"optimize_singletons", "optimize_sessions"}
    BY SearchAssumption DEF SearchInit
  <2>3. Metrics(initial) \in MetricsSet BY MetricsTyped
  <2>4. ~Vetoed(Metrics(initial), Metrics(initial), mode, Locks)
    BY <2>2, <2>3 DEF Vetoed, MetricsSet
  <2>5. Rank(Metrics(initial), mode) \in SixNumbers BY <2>2, <2>3, RankTyped
  <2>6. ~LexLess(Rank(Metrics(initial), mode), Rank(Metrics(initial), mode))
    BY <2>5 DEF LexLess, SixNumbers
  <2> QED BY <2>1, <2>4, <2>6, Unlocked
<1> QED BY <1>1, <1>3, <1>4, <1>5 DEF SearchInit, SearchInv, Honest

LEMMA StepKeeps == ASSUME SearchInv, [SearchNext]_searchVars PROVE SearchInv'
<1>1. CASE Change BY <1>1, ChangeKeeps
<1>2. CASE Answer BY <1>2, AnswerKeeps
<1>3. CASE GoOn BY <1>3, GoOnKeeps
<1>4. CASE Stop BY <1>4, StopKeeps
<1>5. CASE Again BY <1>5, AgainKeeps
<1>6. CASE End BY <1>6, EndKeeps
<1>7. CASE UNCHANGED searchVars
  <2>1. Honest' BY <1>7, GateStays DEF searchVars, SearchInv, Honest
  <2> QED BY <1>7, <2>1, SchedulesStay DEF searchVars, SearchInv
<1> QED BY <1>1, <1>2, <1>3, <1>4, <1>5, <1>6, <1>7 DEF SearchNext

(***************************************************************************)
(* Theorems                                                                *)
(***************************************************************************)
THEOREM SearchStaysSound == SearchSpec => []SearchInv
<1>1. SearchInit => SearchInv BY SearchStarts
<1>2. SearchInv /\ [SearchNext]_searchVars => SearchInv' BY StepKeeps
<1> QED BY <1>1, <1>2, PTL DEF SearchSpec

\* The gate around GUARDED_OPERATORS: whatever an operator leaves behind, the next one, the
\* archive and the best of all restarts have a schedule that passed verifyPlacementIntegrity.
THEOREM SchedulesStayIntact == SearchSpec => []OperatorsLeaveIntact
<1>1. SearchInv => OperatorsLeaveIntact BY DEF SearchInv, OperatorsLeaveIntact, Kept
<1> QED BY <1>1, SearchStaysSound, PTL

\* Metrics and schedules, replaced at different moments by saveBestSnapshot, restarts and the
\* final check, stay those of one another.
THEOREM MetricsStayTrue == SearchSpec => []MetricsDescribeSchedule
<1>1. SearchInv => MetricsDescribeSchedule
  BY DEF SearchInv, MetricsDescribeSchedule, Kept
<1> QED BY <1>1, SearchStaysSound, PTL

\* The best of all restarts is never worse than the first schedule and places what it placed.
THEOREM NothingGetsWorse == SearchSpec => []NeverWorseThanInitial
<1>1. SearchInv => Placed(initial) \subseteq Placed(globalBest.grid)
  BY DEF SearchInv, Kept, Passes, Intact, Exempt, Placed
<1>2. SearchInv => NeverWorseThanInitial BY <1>1 DEF SearchInv, NeverWorseThanInitial
<1> QED BY <1>2, SearchStaysSound, PTL
=============================================================================
