---------------------------- MODULE FetConstruct ----------------------------
(***************************************************************************)
(* The construction phase of the FET engine (solve in tkb-fet-engine.js):  *)
(* every activity is placed by randomSwap, a recursive displacement search *)
(* whose mutations are recorded in a journal and undone by reverse replay  *)
(* when a branch fails.                                                    *)
(*                                                                         *)
(* The recursion is a stack of frames.  A step of the model is a stretch   *)
(* of randomSwap between two recursive calls.  The choices the code makes  *)
(* with its random numbers and penalties are free here, as are the moments *)
(* at which the budget of calls or the deadline ends a call.  tabuMap is   *)
(* left out: it is written only for an activity that already has a slot    *)
(* and solve never passes one.                                             *)
(***************************************************************************)
EXTENDS FetGrid, FiniteSetsExt, SequencesExt

CONSTANTS
    MaxLevel,       \* MAX_RECURSION_LEVEL: 16 in the code
    CutLevel,       \* a frame this deep tries one slot only: 6 in the code
    MaxPasses,      \* passes over what is left: 20 in the code
    RelaxedPass,    \* the first pass without the guards: 6 in the code
    MinTwoGuard     \* options.minTwoGuard

VARIABLES
    grid,
    moveJournal,    \* <<[op, act, slot]>>: every mutation since the attempt began
    stack,          \* the frames of randomSwap, the innermost last
    swapped,        \* swappedInBranch
    result,         \* what the call that just returned answered, or "none"
    phase,          \* where solve is: "main", "passes", "lastMile", "done"
    todo,           \* the activities this stretch of solve has yet to try
    passNo,
    strict,         \* strictFetGaps
    guard,          \* __minTwoGuardActive
    entry           \* history: the grid when the running attempt began

ASSUME ConstructAssumption ==
    /\ MaxLevel \in Nat /\ CutLevel \in Nat /\ MaxPasses \in Nat /\ RelaxedPass \in Nat
    /\ MinTwoGuard \in BOOLEAN

vars == <<grid, moveJournal, stack, swapped, result, phase, todo, passNo,
          strict, guard, entry>>

search == <<grid, moveJournal, swapped>>
control == <<phase, todo, passNo, strict, guard, entry>>

Left(g) == Act \ Placed(g)

(***************************************************************************)
(* jrnPlace, jrnUnplace, jrnRollback.  In solve the activity placed has    *)
(* no slot yet, so jrnPlace records one entry.                             *)
(***************************************************************************)
Did(op, a, s) == [op |-> op, act |-> a, slot |-> s]

Undone(h, entryOfJournal) ==
    LET a == entryOfJournal.act
        s == entryOfJournal.slot
    IN  Once(h, LAMBDA g : IF entryOfJournal.op = "U" THEN Put(g, a, s)
                           ELSE IF g.place[a] = s THEN Take(g, a)
                           ELSE g)

\* Faulty variant: the oldest entry is undone first.
RolledForward(g, journal, mark) ==
    FoldLeft(Undone, g, SubSeq(journal, mark + 1, Len(journal)))

\* The grid after the journal is popped down to its first mark entries: after[n] is the
\* one after n of them, the newest first.
RolledBack(g, journal, mark) ==
    LET after[n \in 0 .. Len(journal) - mark] ==
          IF n = 0 THEN g ELSE Undone(after[n - 1], journal[Len(journal) - n + 1])
    IN  after[Len(journal) - mark]

(***************************************************************************)
(* computeTeacherWeeklyLoad, teacherSessionRequirement and the test        *)
(* opensUnaffordableSession of randomSwap                                  *)
(***************************************************************************)
WeeklyLoad(r) ==
    MapThenSumSet(LAMBDA a : Duration[a], {a \in Act : r \in TeachersOf[a]})
        + Cardinality({s \in Slots : Ground(r, s) = FixedCell})

TaughtIn(g, r, x) == Cardinality({s \in Slots : SessionOf(s) = x /\ Teaches(g, r, s)})

SessionRequirement(g, r) ==
    MapThenSumSet(LAMBDA x : Max({2, TaughtIn(g, r, x)}),
                  {x \in 0 .. Days * 2 - 1 : TaughtIn(g, r, x) > 0})

OpensUnaffordable(g, a, s) ==
    \E r \in TeachersOf[a] :
        /\ TeachersOf[a] = {r} /\ WeeklyLoad(r) >= 2
        /\ TaughtIn(g, r, SessionOf(s)) = 0
        /\ SessionRequirement(g, r) + 2 > WeeklyLoad(r)

(***************************************************************************)
(* randomSwap                                                              *)
(***************************************************************************)
Frame(a, slots, mark) ==
    [act |-> a, slots |-> slots, at |-> "enter",
     cands |-> <<>>,             \* slot -> the activities that must leave
     moved |-> {},               \* the activities displaced for the current slot
     waiting |-> {},             \* those of them not yet placed again
     child |-> Unplaced,             \* the one the running call is about
     slot |-> Unplaced, mark |-> mark,
     before |-> grid.place]      \* history: the placements at the mark

Top == stack[Len(stack)]
Level == Len(stack) - 1
SetTop(f) == stack' = [stack EXCEPT ![Len(stack)] = f]
Return(answer) ==
    /\ stack' = SubSeq(stack, 1, Len(stack) - 1)
    /\ result' = answer

Running(at) == stack # <<>> /\ result = "none" /\ Top.at = at

\* The slots randomSwap looks at: the guard does not apply to a restricted call.
Considered(f) ==
    {s \in f.slots :
        /\ ~(guard /\ f.slots = Slots /\ OpensUnaffordable(grid, f.act, s))
        /\ Possible(grid, f.act, s, strict)}

\* The level, the budget of calls or the deadline ends the call before it looks.
GiveUp ==
    /\ Running("enter")
    /\ Return("failed")
    /\ UNCHANGED <<search, control>>

PlaceFree ==
    /\ Running("enter") /\ Level < MaxLevel
    /\ \E s \in Considered(Top) :
          /\ Clashes(grid, Top.act, s) = {}
          /\ grid' = Put(grid, Top.act, s)
          /\ moveJournal' = Append(moveJournal, Did("P", Top.act, s))
    /\ Return("placed")
    /\ UNCHANGED <<swapped, control>>

\* No free slot: the slots and the activities in the way are listed once.
Evaluate ==
    /\ Running("enter") /\ Level < MaxLevel
    /\ \A s \in Considered(Top) : Clashes(grid, Top.act, s) # {}
    /\ SetTop([Top EXCEPT !.at = "try", !.mark = Len(moveJournal),
                          !.cands = [s \in Considered(Top) |-> Clashes(grid, Top.act, s)]])
    /\ UNCHANGED <<search, result, control>>

\* A slot none of whose occupants is already being moved in this branch.
Acyclic(f) == {s \in DOMAIN f.cands : f.cands[s] \cap swapped = {}}

\* The displaced activities as journal entries, in some order.
Removals(S) == SetToSeq({Did("U", a, grid.place[a]) : a \in S})

Displaced(g, q) == Lifted(g, {q[i].act : i \in DOMAIN q})

Displace ==
    /\ Running("try")
    /\ \E s \in Acyclic(Top) :
          /\ \A t \in Acyclic(Top) : Cardinality(Top.cands[s]) <= Cardinality(Top.cands[t])
          /\ LET q == Removals(Top.cands[s]) IN
             /\ grid' = Put(Displaced(grid, q), Top.act, s)
             /\ moveJournal' = moveJournal \o q \o <<Did("P", Top.act, s)>>
          /\ swapped' = swapped \cup Top.cands[s]
          /\ SetTop([Top EXCEPT !.at = "wait", !.slot = s, !.moved = Top.cands[s],
                                !.waiting = Top.cands[s]])
    /\ UNCHANGED <<result, control>>

NoCandidate ==
    /\ Running("try") /\ Acyclic(Top) = {}
    /\ Return("failed")
    /\ UNCHANGED <<search, control>>

Recurse ==
    /\ Running("wait")
    /\ \E c \in Top.waiting :
          stack' = Append([stack EXCEPT ![Len(stack)].child = c],
                          Frame(c, Slots, Len(moveJournal)))
    /\ UNCHANGED <<search, result, control>>

\* Faulty variant: one displaced activity placed again is taken for all of them.
NextDisplacedOne ==
    /\ result = "placed" /\ stack # <<>>
    /\ Return("placed") /\ swapped' = swapped \ Top.moved
    /\ UNCHANGED <<grid, moveJournal, control>>

\* A displaced activity found a place; the caller goes on with the next one.
NextDisplaced ==
    /\ result = "placed" /\ stack # <<>>
    /\ IF Top.waiting = {Top.child}
       THEN Return("placed") /\ swapped' = swapped \ Top.moved
       ELSE /\ SetTop([Top EXCEPT !.waiting = @ \ {Top.child}])
            /\ result' = "none" /\ swapped' = swapped
    /\ UNCHANGED <<grid, moveJournal, control>>

\* Faulty variant: the first removal of the branch is not undone.
BacktrackShort ==
    /\ result = "failed" /\ stack # <<>>
    /\ grid' = RolledBack(grid, moveJournal, Top.mark + 1)
    /\ moveJournal' = SubSeq(moveJournal, 1, Top.mark + 1)
    /\ swapped' = swapped \ Top.moved
    /\ IF Level >= CutLevel
       THEN Return("failed")
       ELSE /\ SetTop([Top EXCEPT !.at = "try", !.moved = {}, !.waiting = {},
                          !.cands = [s \in DOMAIN @ \ {Top.slot} |-> @[s]]])
            /\ result' = "none"
    /\ UNCHANGED control

\* Faulty variant: the slot that failed stays in the list.
BacktrackRetrying ==
    /\ result = "failed" /\ stack # <<>>
    /\ grid' = RolledBack(grid, moveJournal, Top.mark)
    /\ moveJournal' = SubSeq(moveJournal, 1, Top.mark)
    /\ swapped' = swapped \ Top.moved
    /\ SetTop([Top EXCEPT !.at = "try", !.moved = {}, !.waiting = {}])
    /\ result' = "none"
    /\ UNCHANGED control

\* A displaced activity found none: the branch is undone.
Backtrack ==
    /\ result = "failed" /\ stack # <<>>
    /\ grid' = RolledBack(grid, moveJournal, Top.mark)
    /\ moveJournal' = SubSeq(moveJournal, 1, Top.mark)
    /\ swapped' = swapped \ Top.moved
    /\ IF Level >= CutLevel
       THEN Return("failed")
       ELSE /\ SetTop([Top EXCEPT !.at = "try", !.moved = {}, !.waiting = {},
                          !.cands = [s \in DOMAIN @ \ {Top.slot} |-> @[s]]])
            /\ result' = "none"
    /\ UNCHANGED control

(***************************************************************************)
(* solve                                                                   *)
(***************************************************************************)
Idle == stack = <<>> /\ result = "none"

\* computeDifficultiesAndSort puts the longer blocks first.
Longest(S) == {a \in S : \A b \in S : Duration[b] <= Duration[a]}

\* lastMileEjectionRepair: the class is busy there and the teachers are free.
LastMileSlots(a) ==
    {s \in Slots : /\ Taken(grid, ClassOf[a], s)
                   /\ \A r \in TeachersOf[a] : grid.cells[r][s] = Free}

Attempt(a, slots) ==
    /\ stack' = <<Frame(a, slots, 0)>>
    /\ moveJournal' = <<>>
    /\ entry' = grid
    /\ todo' = todo \ {a}
    /\ UNCHANGED <<grid, swapped, result, phase, passNo, strict, guard>>

TryMain ==
    /\ Idle /\ phase \in {"main", "passes"}
    /\ \E a \in Longest(todo) : Attempt(a, Slots)

TryLastMile ==
    /\ Idle /\ phase = "lastMile"
    /\ \E a \in Longest(todo) :
          IF LastMileSlots(a) # {} THEN Attempt(a, LastMileSlots(a))
          ELSE /\ todo' = todo \ {a}
               /\ UNCHANGED <<search, stack, result, phase, passNo, strict, guard, entry>>

Answered ==
    /\ stack = <<>> /\ result # "none"
    /\ result' = "none"
    /\ UNCHANGED <<search, stack, control>>

\* A pass over what is left; the late ones drop both guards.
NextPass ==
    /\ Idle /\ phase \in {"main", "passes"} /\ todo = {}
    /\ passNo < MaxPasses /\ Left(grid) # {}
    /\ phase' = "passes" /\ passNo' = passNo + 1 /\ todo' = Left(grid)
    /\ strict' = (passNo < RelaxedPass)
    /\ guard' = (guard /\ passNo < RelaxedPass)
    /\ UNCHANGED <<search, stack, result, entry>>

\* Everything is placed, the passes are used up, or the deadline or a class
\* with too few free cells makes another pass pointless.
EndPasses ==
    /\ Idle /\ phase \in {"main", "passes"} /\ todo = {}
    /\ phase' = "lastMile" /\ todo' = Left(grid)
    /\ guard' = FALSE
    /\ UNCHANGED <<search, stack, result, passNo, strict, entry>>

Finish ==
    /\ Idle /\ phase = "lastMile"
    /\ phase' = "done" /\ todo' = {}
    /\ UNCHANGED <<search, stack, result, passNo, strict, guard, entry>>

Init ==
    /\ grid = EmptyGrid /\ moveJournal = <<>> /\ stack = <<>> /\ swapped = {}
    /\ result = "none" /\ phase = "main" /\ todo = Act /\ passNo = 0
    /\ strict = TRUE /\ guard = MinTwoGuard /\ entry = EmptyGrid

RandomSwap ==
    \/ GiveUp \/ PlaceFree \/ Evaluate \/ Displace \/ NoCandidate
    \/ Recurse \/ NextDisplaced \/ Backtrack \/ Answered

Solve == TryMain \/ TryLastMile \/ NextPass \/ EndPasses \/ Finish

Next == RandomSwap \/ Solve

\* solve is one synchronous loop: it runs as long as a step is possible.
Spec == Init /\ [][Next]_vars /\ WF_vars(Next)

(***************************************************************************)
(* Properties                                                              *)
(***************************************************************************)
\* The type of the state: a grid over the slots, frames of activities with marks inside
\* the journal (solve and randomSwap).
TypeOK ==
    /\ grid.place \in [Act -> Slots \cup {Unplaced}]
    /\ grid.cells \in [Resources -> [Slots -> Act \cup {Free, Off, FixedCell}]]
    /\ swapped \subseteq Act /\ todo \subseteq Act
    /\ result \in {"none", "placed", "failed"}
    /\ phase \in {"main", "passes", "lastMile", "done"}
    /\ passNo \in 0 .. MaxPasses
    /\ \A i \in DOMAIN stack :
          /\ stack[i].act \in Act /\ stack[i].mark \in 0 .. Len(moveJournal)
          /\ stack[i].at \in {"enter", "try", "wait"}

\* Whatever branch has been opened, undone or kept, the rows of classes, teachers and
\* rooms agree with the placements: no lesson silently overwrote another.  (The comment
\* above jrnUnplace tells of lessons lost that way before the journal.)
GridConsistent == Consistent(grid)

\* Undoing the journal down to the mark of any open frame gives back the placements of
\* the moment the frame began (jrnRollback), so a failed branch leaves no trace.
RollbackIsExact ==
    \A i \in DOMAIN stack :
        RolledBack(grid, moveJournal, stack[i].mark).place = stack[i].before

\* The list randomSwap made when it began is still true when its next slot is tried:
\* each slot is possible and its occupants are those of the list.
CandidatesAreFresh ==
    Running("try") =>
        \A s \in DOMAIN Top.cands :
            /\ Possible(grid, Top.act, s, strict)
            /\ Clashes(grid, Top.act, s) = Top.cands[s]

\* An attempt of randomSwap may fail, but it never costs a lesson that was placed before
\* it, and a failed one changes nothing.
NothingLost ==
    stack = <<>> =>
        /\ Placed(entry) \subseteq Placed(grid)
        /\ result = "failed" => grid = entry

\* The limit of lessons of a subject in a session (getSubjectSessionLimit) holds for the
\* whole grid, not only for the activity that was placed last.
LimitsHold == WithinLimits(grid)

\* solve ends even if the deadline never strikes: recursion, candidate lists and passes
\* are bounded.
Terminates == <>(phase = "done")

\* The comment in getConflictsForSlot: lessons of a subject in one session of a class
\* must stand next to each other ("BAT BUOC PHAI XEP LIEN NHAU", without accents).
SubjectsContiguous ==
    phase = "done" =>
        \A a \in Placed(grid) :
            GapsIn(SubjectSlots(grid, ClassOf[a], SubjectOf[a], grid.place[a], {})) = 0
=============================================================================
