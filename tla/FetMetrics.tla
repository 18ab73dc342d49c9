----------------------------- MODULE FetMetrics -----------------------------
(***************************************************************************)
(* How the FET engine measures a grid and compares two measurements, and   *)
(* the integrity gate every operator of the optimizer passes through.      *)
(***************************************************************************)
EXTENDS FetGrid, FiniteSetsExt, SequencesExt, Functions

CONSTANTS
    Scored,         \* SUBSET Teachers: isScoredTeacher
    LessonBlocks    \* classSubjectLessonBlocks: [class, subject, len, min, max]

Sessions == 0 .. Days * 2 - 1
DayOf(x) == x \div 2
SlotsIn(x) == {s \in Slots : SessionOf(s) = x}

Taught(g, t, x) == {s \in SlotsIn(x) : Teaches(g, t, s)}
TaughtDay(g, t, d) == {s \in Slots : DayOf(SessionOf(s)) = d /\ Teaches(g, t, s)}

(***************************************************************************)
(* evaluateMetrics                                                         *)
(***************************************************************************)
SessionsWhere(g, P(_)) ==
    Cardinality({tx \in Scored \X Sessions : P(Taught(g, tx[1], tx[2]))})
DaysWhere(g, P(_)) ==
    Cardinality({td \in Scored \X (0 .. Days - 1) : P(TaughtDay(g, td[1], td[2]))})

Metrics(g) ==
    [soBuoiDay1   |-> SessionsWhere(g, LAMBDA ts : Cardinality(ts) = 1),
     soBuoiDay2   |-> SessionsWhere(g, LAMBDA ts : Cardinality(ts) = 2),
     soBuoiDay3   |-> SessionsWhere(g, LAMBDA ts : Cardinality(ts) = 3),
     tsBuoiDay    |-> SessionsWhere(g, LAMBDA ts : ts # {}),
     soBuoiTrong1 |-> SessionsWhere(g, LAMBDA ts : GapsIn(ts) = 1),
     soBuoiTrong2 |-> SessionsWhere(g, LAMBDA ts : GapsIn(ts) >= 2),
     tsNgayDay    |-> DaysWhere(g, LAMBDA ts : ts # {}),
     soNgayMotTiet |-> DaysWhere(g, LAMBDA ts : Cardinality(ts) = 1)]

(***************************************************************************)
(* lockViolations, compareMetrics, compareTuple.  A lock caps a metric.    *)
(***************************************************************************)
LockViolations(m, locks) == Cardinality({k \in DOMAIN locks : m[k] > locks[k]})

LexLess(p, q) ==
    \E i \in DOMAIN p : p[i] < q[i] /\ \A j \in 1 .. i - 1 : p[j] = q[j]

Thin(m) == m.soBuoiDay2 * 2 + m.soBuoiDay3

Rank(m, mode) ==
    CASE mode = "optimize_singletons" ->
            <<m.soBuoiDay1, m.soBuoiTrong2, m.tsBuoiDay, m.soBuoiTrong1,
              m.soNgayMotTiet, m.tsNgayDay>>
      [] mode = "optimize_gap2" ->
            <<m.soBuoiTrong2, m.soBuoiDay1, m.tsBuoiDay, m.soBuoiTrong1, m.tsNgayDay>>
      [] mode = "optimize_sessions" ->
            <<m.soBuoiDay1, m.soBuoiTrong2, m.tsBuoiDay, Thin(m), m.soBuoiTrong1,
              m.tsNgayDay>>
      [] mode = "optimize_gap1" ->
            <<m.soBuoiDay1, m.soBuoiTrong2, m.tsBuoiDay, m.soBuoiTrong1>>

\* What makes a worse than b before any ranking: the order is not total.
Vetoed(a, b, mode, locks) ==
    CASE mode = "optimize_singletons" -> FALSE
      [] mode = "optimize_gap2" ->
            /\ "soBuoiDay1" \notin DOMAIN locks
            /\ a.soBuoiTrong2 < b.soBuoiTrong2 /\ a.soBuoiDay1 > b.soBuoiDay1
      [] OTHER -> a.soBuoiDay1 > b.soBuoiDay1 \/ a.soBuoiTrong2 > b.soBuoiTrong2

Better(a, b, mode, locks) ==
    LET la == LockViolations(a, locks)
        lb == LockViolations(b, locks)
    IN  \/ la < lb
        \/ /\ la = lb /\ ~Vetoed(a, b, mode, locks)
           /\ LexLess(Rank(a, mode), Rank(b, mode))

Worse(a, b, mode, locks) ==
    LET la == LockViolations(a, locks)
        lb == LockViolations(b, locks)
    IN  \/ la > lb
        \/ /\ la = lb
           /\ Vetoed(a, b, mode, locks) \/ LexLess(Rank(b, mode), Rank(a, mode))

MetricTuple(m) == <<m.soBuoiDay1, m.soBuoiTrong2, m.tsBuoiDay, m.soBuoiTrong1, m.tsNgayDay>>

TupleBetter(a, b, locks) ==
    LET la == LockViolations(a, locks)
        lb == LockViolations(b, locks)
    IN  la < lb \/ (la = lb /\ LexLess(MetricTuple(a), MetricTuple(b)))

(***************************************************************************)
(* countStudentHoles: free cells before the last lesson of a class session *)
(***************************************************************************)
StudentHoles(g) ==
    Cardinality({cs \in Classes \X Slots :
        /\ g.cells[cs[1]][cs[2]] = Free
        /\ \E t \in SlotsOfSession(cs[2]) : t > cs[2] /\ Teaches(g, cs[1], t)})

(***************************************************************************)
(* isLessonBlockSafe: the number of runs of each ruled subject, looked at  *)
(* only for the classes of the activities moved                            *)
(***************************************************************************)
RunsOf(g, rule) ==
    LET here == {s \in Slots :
                    \/ Taken(g, rule.class, s) /\ SubjectOf[g.cells[rule.class][s]] = rule.subject
                    \/ g.cells[rule.class][s] = FixedCell
                         /\ FixedSubjectAt(rule.class, s, rule.subject)}
    IN  Cardinality({s \in here :
            /\ PeriodOf(s) + rule.len <= Periods
            /\ s .. s + rule.len - 1 \subseteq here
            /\ ~(PeriodOf(s) > 0 /\ s - 1 \in here)})

LessonBlockSafe(g, acts) ==
    \A rule \in LessonBlocks :
        rule.class \in {ClassOf[a] : a \in acts} => RunsOf(g, rule) \in rule.min .. rule.max

(***************************************************************************)
(* verifyPlacementIntegrity.  exempt is __permanentUnplaced and baseline   *)
(* __studentHoleBaseline.  Room rows are not looked at, nor is anything    *)
(* getConflictsForSlot asks beyond off cells, fixed cells and clashes.     *)
(***************************************************************************)
Intact(g, exempt, baseline) ==
    /\ \A a \in Act \ Placed(g) : a \in exempt
    /\ \A a \in Placed(g) : \A s \in Covered(a, g.place[a]) :
          /\ g.cells[ClassOf[a]][s] = a
          /\ Ground(ClassOf[a], s) = Free
          /\ \A t \in TeachersOf[a] : <<t, s>> \notin TeacherOff
    /\ \A a \in Placed(g), b \in Placed(g) :
          a # b /\ TeachersOf[a] \cap TeachersOf[b] # {} =>
              Covered(a, g.place[a]) \cap Covered(b, g.place[b]) = {}
    /\ \A c \in Classes, s \in Slots :
          Taken(g, c, s) => LET a == g.cells[c][s] IN
              g.place[a] # Unplaced /\ s \in Covered(a, g.place[a])
    /\ StudentHoles(g) <= baseline

\* What getConflictsForSlot makes hard for every activity it places.
HardValid(g) ==
    /\ Consistent(g)
    /\ WithinLimits(g)
    /\ \A a \in Placed(g) :
          /\ Shift[ClassOf[a]] \in {"any", SessionName(g.place[a])}
          /\ \A s \in Covered(a, g.place[a]) : <<SubjectOf[a], s>> \notin SubjectOff
=============================================================================
