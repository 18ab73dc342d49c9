------------------------------ MODULE FetGrid ------------------------------
(***************************************************************************)
(* The placement matrices of the browser's FET engine (tkb-fet-engine.js). *)
(*                                                                         *)
(* An activity is a lesson block of a class.  The engine keeps where each  *)
(* activity is (actPlacement) and, redundantly, one row of cells for every *)
(* class, teacher and room (classGrid, teacherGrid, roomGrid).  All the    *)
(* operators of the engine go through the two primitives Put and Take and  *)
(* through the test getConflictsForSlot.  The rows of classes, teachers    *)
(* and rooms behave alike and are one function here: a resource is a       *)
(* class, a teacher or a room.                                             *)
(***************************************************************************)
EXTENDS Integers, FiniteSets, Sequences

CONSTANTS
    Days,            \* DAYS_LIST.length: 6 in the code
    Periods,         \* PERIODS_PER_SESSION: 5 in the code
    Classes, Teachers, Rooms,
    Act,             \* the movable activities: indices, so not negative
    ClassOf,         \* [Act -> Classes]
    TeachersOf,      \* [Act -> SUBSET Teachers]: parseTeacherList(act.gv)
    RoomsOf,         \* [Act -> SUBSET Rooms]: none or one
    SubjectOf,       \* [Act -> subjects]: the canonical subject key
    Duration,        \* [Act -> 1..Periods]
    Shift,           \* [Classes -> {"any", "sang", "chieu"}]: lop.ca
    ClassOff,        \* blocked <<class, slot>> pairs, and those of ...
    TeacherOff, RoomOff, SubjectOff,
    Fixed,           \* fixed cells: [class, slot, subject, teachers, rooms]
    SessionLimit     \* [Classes -> [subjects -> Nat]]: getSubjectSessionLimit

Slots == 0 .. Days * 2 * Periods - 1
Unplaced == -1
Free == -1
Off == -2
FixedCell == -3

Resources == Classes \cup Teachers \cup Rooms

Uses(a) == {ClassOf[a]} \cup TeachersOf[a] \cup RoomsOf[a]

ASSUME GridAssumption ==
    /\ Days \in Nat \ {0} /\ Periods \in Nat \ {0}
    /\ Act \subseteq Nat /\ IsFiniteSet(Act)
    /\ Classes \cap (Teachers \cup Rooms) = {} /\ Teachers \cap Rooms = {}
    /\ ClassOf \in [Act -> Classes]
    /\ TeachersOf \in [Act -> SUBSET Teachers]
    /\ RoomsOf \in [Act -> SUBSET Rooms]
    /\ Duration \in [Act -> 1 .. Periods]
    /\ \A a \in Act : SessionLimit[ClassOf[a]][SubjectOf[a]] \in Nat

(***************************************************************************)
(* slotToDetails                                                           *)
(***************************************************************************)
SessionOf(s) == s \div Periods
PeriodOf(s) == s % Periods
SessionName(s) == IF SessionOf(s) % 2 = 0 THEN "sang" ELSE "chieu"
SlotsOfSession(s) == {t \in Slots : SessionOf(t) = SessionOf(s)}
SlotsOfDay(s) == {t \in Slots : t \div (2 * Periods) = s \div (2 * Periods)}

Covered(a, s) == s .. s + Duration[a] - 1

(***************************************************************************)
(* init: the cells before any activity is placed.  An off constraint wins  *)
(* over a fixed lesson because it is scanned later.                        *)
(***************************************************************************)
FixedUses(f) == {f.class} \cup f.teachers \cup f.rooms

OffPairs == ClassOff \cup TeacherOff \cup RoomOff

Ground(r, s) ==
    IF <<r, s>> \in OffPairs THEN Off
    ELSE IF \E f \in Fixed : f.slot = s /\ r \in FixedUses(f) THEN FixedCell
    ELSE Free

EmptyGrid ==
    [place |-> [a \in Act |-> Unplaced],
     cells |-> [r \in Resources |-> [s \in Slots |-> Ground(r, s)]]]

(***************************************************************************)
(* unplaceActivity (of several activities, Lifted), placeActivityDirect    *)
(*                                                                         *)
(* What is written back is not the ground: only a class row remembers its  *)
(* fixed cells, and a room row nothing.                                    *)
(***************************************************************************)
Restored(r, s) ==
    IF r \in Classes THEN Ground(r, s)
    ELSE IF <<r, s>> \in TeacherOff THEN Off
    ELSE Free

Lifted(g, acts) ==
    [place |-> [a \in Act |-> IF a \in acts THEN Unplaced ELSE g.place[a]],
     cells |-> [r \in Resources |-> [t \in Slots |->
         LET a == g.cells[r][t] IN
         IF a \in acts /\ r \in Uses(a) /\ t \in Covered(a, g.place[a])
         THEN Restored(r, t) ELSE a]]]

Take(g, a) == IF g.place[a] = Unplaced THEN g ELSE Lifted(g, {a})

\* Whatever stands in the cells is overwritten.
Put(g, a, s) ==
    [place |-> [b \in Act |-> IF b = a THEN s ELSE g.place[b]],
     cells |-> [r \in Resources |-> [t \in Slots |->
         IF r \in Uses(a) /\ t \in Covered(a, s) THEN a ELSE Take(g, a).cells[r][t]]]]

\* F(v), where TLC computes v once however often F uses it.
Once(v, F(_)) == CHOOSE w \in {F(u) : u \in {v}} : TRUE

(***************************************************************************)
(* getConflictsForSlot                                                     *)
(***************************************************************************)
Taken(g, r, s) == g.cells[r][s] \in Act

Teaches(g, r, s) == Taken(g, r, s) \/ g.cells[r][s] = FixedCell

\* Faulty variant: rooms are forgotten.
ClashesOfPeople(g, a, s) ==
    {g.cells[r][t] : r \in Uses(a) \ Rooms, t \in Covered(a, s)} \cap (Act \ {a})

\* The activities that would have to leave for a to start at s.
Clashes(g, a, s) ==
    {g.cells[r][t] : r \in Uses(a), t \in Covered(a, s)} \cap (Act \ {a})

\* No cell of the block is blocked for the class, its subject, a teacher or the room.
Unblocked(g, a, s) ==
    \A t \in Covered(a, s) :
        /\ Ground(ClassOf[a], t) = Free
        /\ <<SubjectOf[a], t>> \notin SubjectOff
        /\ \A r \in TeachersOf[a] \cup RoomsOf[a] :
              <<r, t>> \notin OffPairs /\ g.cells[r][t] \notin {Off, FixedCell}

\* Slots of the session that row r teaches once the clashes are gone and a stands at s.
TaughtWith(g, r, a, s) ==
    {t \in SlotsOfSession(s) :
        \/ t \in Covered(a, s)
        \/ g.cells[r][t] = FixedCell
        \/ Taken(g, r, t) /\ g.cells[r][t] \notin {a} \cup Clashes(g, a, s)}

SpanOf(ts) == IF ts = {} THEN 0
              ELSE (CHOOSE m \in ts : \A t \in ts : t <= m)
                     - (CHOOSE m \in ts : \A t \in ts : m <= t) + 1
GapsIn(ts) == SpanOf(ts) - Cardinality(ts)

\* strictFetGaps: at most one idle period in a session of each teacher (which
\* implies the bound on consecutive idle periods the code tests first).
GapSafe(g, a, s) ==
    \A r \in TeachersOf[a] : GapsIn(TaughtWith(g, r, a, s)) <= 1

FixedSubjectAt(c, t, m) ==
    \E f \in Fixed : f.class = c /\ f.slot = t /\ f.subject = m

\* Slots of the session in which class c has subject m, the activities in gone not counted.
SubjectSlots(g, c, m, s, gone) ==
    {t \in SlotsOfSession(s) :
        \/ Taken(g, c, t) /\ g.cells[c][t] \notin gone /\ SubjectOf[g.cells[c][t]] = m
        \/ ~Taken(g, c, t) /\ FixedSubjectAt(c, t, m)}

\* The cells of a itself count when it has not been taken off the grid.
SubjectWith(g, a, s) ==
    Covered(a, s) \cup SubjectSlots(g, ClassOf[a], SubjectOf[a], s, Clashes(g, a, s))

\* Faulty variant: one lesson too many is let in.
PossibleOverLimit(g, a, s, strict) ==
    /\ PeriodOf(s) + Duration[a] <= Periods
    /\ Shift[ClassOf[a]] \in {"any", SessionName(s)}
    /\ Unblocked(g, a, s)
    /\ strict => GapSafe(g, a, s)
    /\ Cardinality(SubjectWith(g, a, s)) - 1 <= SessionLimit[ClassOf[a]][SubjectOf[a]]
    /\ GapsIn(SubjectWith(g, a, s)) = 0

Possible(g, a, s, strict) ==
    /\ PeriodOf(s) + Duration[a] <= Periods
    /\ Shift[ClassOf[a]] \in {"any", SessionName(s)}
    /\ Unblocked(g, a, s)
    /\ strict => GapSafe(g, a, s)
    /\ Cardinality(SubjectWith(g, a, s)) <= SessionLimit[ClassOf[a]][SubjectOf[a]]
    /\ GapsIn(SubjectWith(g, a, s)) = 0

\* A slot where a can start and nothing has to leave.
Open(g, a, s, strict) == Possible(g, a, s, strict) /\ Clashes(g, a, s) = {}

(***************************************************************************)
(* What every operator of the engine relies on.                            *)
(***************************************************************************)
Placed(g) == {a \in Act : g.place[a] # Unplaced}

CellOf(g, r, s) ==
    LET here == {a \in Placed(g) : r \in Uses(a) /\ s \in Covered(a, g.place[a])}
    IN  IF here = {} THEN Ground(r, s) ELSE CHOOSE a \in here : TRUE

\* The redundant rows say what the placements say, no cell is shared, and no
\* activity stands on an off or fixed cell of a resource it uses.
Consistent(g) ==
    /\ \A r \in Resources, s \in Slots : g.cells[r][s] = CellOf(g, r, s)
    /\ \A a \in Placed(g), b \in Placed(g) :
          a # b /\ Uses(a) \cap Uses(b) # {} =>
              Covered(a, g.place[a]) \cap Covered(b, g.place[b]) = {}
    /\ \A a \in Placed(g) : \A r \in Uses(a), s \in Covered(a, g.place[a]) :
          s \in Slots /\ Ground(r, s) = Free

WithinLimits(g) ==
    \A a \in Placed(g) :
        Cardinality(SubjectSlots(g, ClassOf[a], SubjectOf[a], g.place[a], {}))
            <= SessionLimit[ClassOf[a]][SubjectOf[a]]
=============================================================================
