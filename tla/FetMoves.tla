------------------------------ MODULE FetMoves ------------------------------
(***************************************************************************)
(* The operators of the FET engine's optimizer, part one: the moves that   *)
(* merge lone lessons of a teacher and vacate sessions.                    *)
(*                                                                         *)
(* An operator is the set of grids its next accepted move may lead to from *)
(* g: which of the candidates is taken, and in which order they are tried, *)
(* is left free (the code shuffles them, cuts the lists, and sometimes     *)
(* takes the best).  cur is currentBest, best is bestMetrics as optimize   *)
(* passed it.                                                              *)
(*                                                                         *)
(* A move is a sequence of [act, slot]: its activities are all lifted off  *)
(* the grid, each is tested alone, and then they are put down one by one.  *)
(***************************************************************************)
EXTENDS FetMetrics

CONSTANT SwapDepth      \* MAX_RECURSION_LEVEL of randomSwap: 16 in the code

To(a, s) == [act |-> a, slot |-> s]
ActsOf(move) == {move[i].act : i \in DOMAIN move}

\* The activities of move, none of which stands on g, are put down one after the other.
PutAll(g, move) ==
    LET covering(r, t) == {i \in DOMAIN move :
            r \in Uses(move[i].act) /\ t \in Covered(move[i].act, move[i].slot)}
    IN  [place |-> [i \in Act |-> IF i \in ActsOf(move)
                                 THEN (CHOOSE m \in Range(move) : m.act = i).slot
                                 ELSE g.place[i]],
         cells |-> [r \in Resources |-> [t \in Slots |->
             IF covering(r, t) = {} THEN g.cells[r][t] ELSE move[Max(covering(r, t))].act]]]

Relocated(g, move) == Once(Lifted(g, ActsOf(move)), LAMBDA h : PutAll(h, move))

\* Each activity fits at its slot of the grid without all of them.
Fits(g, move, strict) ==
    Once(Lifted(g, ActsOf(move)), LAMBDA h :
        \A i \in DOMAIN move : Open(h, move[i].act, move[i].slot, strict))

\* The activities of q each take the slot of the next one.
Rotation(g, q) == [i \in DOMAIN q |-> To(q[i], g.place[q[IF i = Len(q) THEN 1 ELSE i + 1]])]

Single(a) == Duration[a] = 1
Sole(a, t) == TeachersOf[a] = {t}
SoleTeachers(a) == {t \in Teachers : Sole(a, t)}
SinglesOf(g, c) == {a \in Placed(g) : ClassOf[a] = c /\ Single(a)}
OccupantOf(g, a, s) == {g.cells[ClassOf[a]][s]} \cap Act
IdleAt(g, t, s) == ~Teaches(g, t, s)

\* The lessons of t in session x that an operator sees: blocks longer than one are skipped.
Loose(g, t, x) ==
    {s \in Taught(g, t, x) : g.cells[t][s] = FixedCell \/ Single(g.cells[t][s])}

\* The activity that looks like the only lesson of t in session x.
Lone(g, t, x) ==
    {g.cells[t][s] : s \in {r \in Loose(g, t, x) : Loose(g, t, x) = {r}}} \cap Act

\* The slots of session x where t is idle.
IdleSlots(g, t, x) == {s \in SlotsIn(x) : IdleAt(g, t, s)}
Partial(g, t, x) == Taught(g, t, x) # {} /\ Cardinality(Taught(g, t, x)) < Periods
SameHalf(x, y) == x % 2 = y % 2

\* The grids after those moves of the set that Try lets through.
Outcomes(g, moves, Try(_)) ==
    {ih[2] : ih \in {jk \in {<<m, Relocated(g, m)>> : m \in {n \in moves : Try(n)}} :
                      LessonBlockSafe(jk[2], ActsOf(jk[1]))}}

Accepted(g, moves, strict, Gate(_)) ==
    {h \in Outcomes(g, moves, LAMBDA m : Fits(g, m, strict)) : Gate(Metrics(h))}

(***************************************************************************)
(* tryFastSingletonRepair.  The chains that bring a, a lesson of t, to s:  *)
(* into a free cell, or by rotating two to four lessons of the class, each *)
(* of a teacher of its own who is idle where the lesson goes.              *)
(***************************************************************************)
Chains(g, a, t, s, thirds) ==
    LET s1 == g.place[a]
        c == ClassOf[a]
        at(u) == g.place[u]
        good(q) ==  \* the lessons after a, the last of which goes to s1
            /\ \A i \in DOMAIN q : Single(q[i]) /\ SoleTeachers(q[i]) # {} /\ ~Sole(q[i], t)
            /\ \A i, j \in DOMAIN q : i # j => TeachersOf[q[i]] # TeachersOf[q[j]]
            /\ \A i \in DOMAIN q : \A u \in TeachersOf[q[i]] :
                  IdleAt(g, u, IF i = Len(q) THEN s1 ELSE at(q[i + 1]))
            /\ Len(q) > 1 => \A u \in TeachersOf[q[1]] : ~IdleAt(g, u, s1)
        more == {b \in SinglesOf(g, c) : at(b) \in thirds \ {s, s1}}
        tails == UNION {{<<b>>} \cup {<<b, d>> : d \in more}
                           \cup {<<b, de[1], de[2]>> : de \in {x \in more \X more : x[1] # x[2]}}
                         : b \in OccupantOf(g, a, s)}
    IN  IF Taken(g, c, s) THEN {Rotation(g, <<a>> \o q) : q \in {p \in tails : good(p)}}
        ELSE {<<To(a, s)>>}

\* The lone lesson moves out to another day, or a lesson of a session of three moves in.
FastRepairMoves(g) ==
    UNION {UNION {
        UNION {Chains(g, a, t, s, Slots) :
                s \in UNION {IdleSlots(g, t, y) : y \in {z \in Sessions :
                        DayOf(z) # DayOf(x) /\ SameHalf(z, x) /\ Partial(g, t, z)}}}
        \cup UNION {Chains(g, b, t, s, {r \in Slots : SameHalf(SessionOf(r), x)}) :
                s \in IdleSlots(g, t, x),
                b \in UNION {{g.cells[t][r] : r \in Loose(g, t, y)} \cap Act :
                        y \in {z \in Sessions \ {x} : SameHalf(z, x) /\
                            Cardinality({g.cells[t][r] : r \in Loose(g, t, z)} \cap Act) >= 3}}}
            : a \in Lone(g, t, x)}
        : t \in Scored, x \in Sessions}

FastSingletonRepair(g, cur, baseline, strict) ==
    {h \in Accepted(g, FastRepairMoves(g), strict,
            LAMBDA m : /\ m.soBuoiDay1 < cur.soBuoiDay1
                       /\ m.soBuoiTrong2 <= cur.soBuoiTrong2
                       /\ m.soNgayMotTiet <= cur.soNgayMotTiet)
        : StudentHoles(h) <= baseline}

(***************************************************************************)
(* tryConsolidateTeacherSingletons, tryReinforceTeacherSingletons and      *)
(* obliterateAllTeacherSingletons: a goes to s by a swap with the lesson   *)
(* there or by a rotation with a third lesson of the class.                *)
(***************************************************************************)
Swap(g, a, b) == Rotation(g, <<a, b>>)

PlainSwaps(g, a, s) ==
    {Swap(g, a, b) : b \in {x \in OccupantOf(g, a, s) : Single(x) /\
        \E t \in SoleTeachers(x) : IdleAt(g, t, g.place[a])}}

Triangles(g, a, s) ==
    {Rotation(g, <<a, bc[1], bc[2]>>) :
        bc \in {x \in (OccupantOf(g, a, s) \cap SinglesOf(g, ClassOf[a]))
                         \X SinglesOf(g, ClassOf[a]) : x[2] \notin {a, x[1]}}}

Closed(g, a, s) == PlainSwaps(g, a, s) \cup Triangles(g, a, s)

ActsIn(g, t, ss) == {g.cells[t][s] : s \in ss} \cap Act

\* Of the lone lesson of session x into a session of the set the operator looks at.
LoneInto(g, t, x, sessions) ==
    UNION {Closed(g, a, s) : a \in Lone(g, t, x),
             s \in UNION {IdleSlots(g, t, y) : y \in sessions \ {x}}}

ConsolidateTeacherSingletons(g, cur, strict) ==
    Accepted(g, UNION {LoneInto(g, t, x, {y \in Sessions :
                           Loose(g, t, y) # {} /\ Lone(g, t, y) = {}})
                       : t \in Scored, x \in Sessions}, strict,
        LAMBDA m : m.soBuoiDay1 < cur.soBuoiDay1 /\ m.soBuoiTrong2 <= cur.soBuoiTrong2)

ReinforceTeacherSingletons(g, cur, strict) ==
    Accepted(g, UNION {UNION {Closed(g, a, s) :
                           s \in {r \in IdleSlots(g, tx[1], tx[2]) :
                                     Cardinality(Taught(g, tx[1], tx[2])) = 1},
                           a \in UNION {ActsIn(g, tx[1], Loose(g, tx[1], y)) :
                                     y \in {z \in Sessions \ {tx[2]} :
                                               Cardinality(Taught(g, tx[1], z)) >= 3}}}
                       : tx \in Scored \X Sessions}, strict,
        LAMBDA m : m.soBuoiDay1 < cur.soBuoiDay1 /\ m.soBuoiTrong2 <= cur.soBuoiTrong2)

ObliterateTeacherSingletons(g, cur, strict) ==
    Accepted(g, UNION {LoneInto(g, t, x, {y \in Sessions : Partial(g, t, y)})
                       : t \in Scored, x \in Sessions}, strict,
        LAMBDA m : /\ \/ m.soBuoiDay1 < cur.soBuoiDay1
                      \/ m.soBuoiDay1 = cur.soBuoiDay1 /\ m.tsBuoiDay < cur.tsBuoiDay
                   /\ m.soBuoiTrong2 <= cur.soBuoiTrong2)

(***************************************************************************)
(* fixDaySingletons: the only lesson of a day.  Gaps do not count here.    *)
(***************************************************************************)
LoneOfDay(g, t, d) ==
    LET seen == UNION {Loose(g, t, x) : x \in {y \in Sessions : DayOf(y) = d}}
    IN  {g.cells[t][s] : s \in {r \in seen : seen = {r}}} \cap Act

IntoFree(g, a, s) == {<<To(a, s)>> : r \in {u \in {s} : g.cells[ClassOf[a]][u] = Free}}

FixDayMoves(g) ==
    UNION {UNION {
        UNION {IntoFree(g, a, s) \cup PlainSwaps(g, a, s) :
                 s \in UNION {IdleSlots(g, td[1], y) :
                          y \in {z \in Sessions : DayOf(z) # td[2] /\ Partial(g, td[1], z)}}}
        \cup UNION {Triangles(g, a, s) : s \in Slots \ {g.place[a]}}
            : a \in LoneOfDay(g, td[1], td[2])}
        : td \in Scored \X (0 .. Days - 1)}

FixDaySingletons(g, cur, strict) ==
    Accepted(g, FixDayMoves(g), strict,
        LAMBDA m : \/ m.soNgayMotTiet < cur.soNgayMotTiet
                   \/ m.soNgayMotTiet = cur.soNgayMotTiet /\ m.soBuoiDay1 < cur.soBuoiDay1)

(***************************************************************************)
(* tryIntraClassCrossSubjectSingletonSwap and                              *)
(* tryAugmentingSingletonEjectionChain.  They only ask whether the named   *)
(* teachers are idle; getConflictsForSlot is not called.  So a try may     *)
(* overwrite cells of another lesson, in the row of a second teacher, of a *)
(* room or of a class, and putting the moved lessons back does not bring   *)
(* those cells back.  v is the grid, currentBest and anyImproved.          *)
(***************************************************************************)
BetterCrossing(m, cur) ==
    /\ m.soBuoiTrong2 <= cur.soBuoiTrong2
    /\ \/ m.soBuoiDay1 < cur.soBuoiDay1
       \/ m.soBuoiDay1 = cur.soBuoiDay1 /\ m.soBuoiTrong2 < cur.soBuoiTrong2

\* The slots of other days, same half, in sessions where t teaches something.
OtherDays(g, t, x) ==
    UNION {SlotsIn(y) : y \in {z \in Sessions :
        DayOf(z) # DayOf(x) /\ SameHalf(z, x) /\ Partial(g, t, z)}}

CrossSubjectSwaps(g) ==
    UNION {{Swap(g, ab[1], ab[2]) :
        ab \in {p \in Lone(g, tx[1], tx[2]) \X Act :
            /\ g.place[p[2]] \in OtherDays(g, tx[1], tx[2])
            /\ ClassOf[p[2]] = ClassOf[p[1]] /\ Single(p[2])
            /\ IdleAt(g, tx[1], g.place[p[2]])
            /\ \E u \in SoleTeachers(p[2]) \ {tx[1]} : IdleAt(g, u, g.place[p[1]])}}
        : tx \in Scored \X Sessions}

\* The third lesson of a chain is of another class, so that the second one may come to
\* stand on a lesson of its class.
AugmentingChains(g) ==
    UNION {{<<To(abc[1], g.place[abc[2]]), To(abc[2], g.place[abc[3]]), To(abc[3], g.place[abc[1]])>> :
        abc \in {p \in Lone(g, tx[1], tx[2]) \X Placed(g) \X Placed(g) :
            /\ g.place[p[2]] \in OtherDays(g, tx[1], tx[2])
            /\ ClassOf[p[2]] = ClassOf[p[1]] /\ ClassOf[p[3]] # ClassOf[p[1]]
            /\ Single(p[2]) /\ Single(p[3])
            /\ g.place[p[3]] \notin {g.place[p[1]], g.place[p[2]]}
            /\ IdleAt(g, tx[1], g.place[p[2]])
            /\ \E u \in SoleTeachers(p[2]) \ {tx[1]}, v \in SoleTeachers(p[3]) \ {tx[1]} :
                  u # v /\ IdleAt(g, u, g.place[p[3]]) /\ IdleAt(g, v, g.place[p[1]])}}
        : tx \in Scored \X Sessions}

PutBack(g, h, move) == Relocated(h, [i \in DOMAIN move |-> To(move[i].act, g.place[move[i].act])])

Crossed(v, moves) ==
    {LET h == Relocated(v.grid, q) IN
     IF BetterCrossing(Metrics(h), v.cur)
     THEN [grid |-> h, cur |-> Metrics(h), moved |-> TRUE]
     ELSE [v EXCEPT !.grid = PutBack(@, h, q)] : q \in moves}

\* A pass does not begin without a lone lesson, but one that has removed the last goes on.
Searching(v) == v.cur.soBuoiDay1 > 0 \/ v.moved

CrossSubjectSingletonSwap(v) == Crossed(v, {q \in CrossSubjectSwaps(v.grid) : Searching(v)})
AugmentingChain(v) == Crossed(v, {q \in AugmentingChains(v.grid) : Searching(v)})

(***************************************************************************)
(* tryVacateTeacherSessions: the turn of session x of teacher t.  The one  *)
(* or two lessons found there are tried in every other session with room   *)
(* for them, the fullest first, each in exchange for the lesson its class  *)
(* has there.  A success ends only the tries in that session: the further  *)
(* sessions are tried with the slots found at first, where the exchanged   *)
(* lessons stand by then, and a try that fails is put back onto them.      *)
(***************************************************************************)
Found(g, t, x) ==
    LET acts == ActsIn(g, t, Loose(g, t, x))
    IN  IF Cardinality(acts) # Cardinality(Loose(g, t, x)) \/ Cardinality(acts) \notin {1, 2}
        THEN <<>>
        ELSE LET a == CHOOSE b \in acts : \A d \in acts : g.place[b] <= g.place[d]
             IN  <<To(a, g.place[a])>> \o SetToSeq({To(b, g.place[b]) : b \in acts \ {a}})

\* The slots to try, one for each lesson found, in the same session; and their order.
Tries(g, t, x, n) ==
    LET roomy == {y \in Sessions \ {x} : Taught(g, t, y) # {} /\
                      Cardinality(Taught(g, t, y)) + n <= Periods}
    IN  UNION {{to \in [1 .. n -> SlotsIn(y)] : IsInjective(to)} : y \in roomy}

Earliest(g, t, tries) ==
    LET key(to) == <<-Cardinality(Taught(g, t, SessionOf(to[1])))>> \o to
    IN  CHOOSE p \in tries : \A q \in tries \ {p} : LexLess(key(p), key(q))

Vacates(m, cur, best) ==
    /\ m.soBuoiDay1 <= best.soBuoiDay1 /\ m.soNgayMotTiet <= best.soNgayMotTiet
    /\ \/ m.tsBuoiDay < cur.tsBuoiDay
       \/ /\ m.tsBuoiDay = cur.tsBuoiDay
          /\ Thin(m) < Thin(cur) \/ m.tsNgayDay < cur.tsNgayDay

\* left is what is still to be tried, in the order of g, where the turn began.
RECURSIVE VacateInto(_, _, _, _, _, _, _)
VacateInto(v, g, t, found, left, best, strict) ==
    IF left = {} THEN v
    ELSE LET to == Earliest(g, t, left)
             there == [i \in DOMAIN found |-> v.grid.cells[ClassOf[found[i].act]][to[i]]]
             due == \A i \in DOMAIN found :
                 /\ IdleAt(v.grid, t, to[i]) /\ there[i] \in Act /\ Single(there[i])
                 /\ \E u \in SoleTeachers(there[i]) : IdleAt(v.grid, u, found[i].slot)
             out == [i \in DOMAIN found |-> To(found[i].act, to[i])]
                       \o [i \in DOMAIN found |-> To(there[i], found[i].slot)]
             back == found \o [i \in DOMAIN found |-> To(there[i], to[i])]
             after == Relocated(v.grid, out)
             kept == /\ Fits(v.grid, out, strict) /\ LessonBlockSafe(after, ActsOf(out))
                     /\ Vacates(Metrics(after), v.cur, best)
             goOn(w, rest) == VacateInto(w, g, t, found, rest, best, strict)
         IN  IF ~due THEN goOn(v, left \ {to})
             ELSE IF kept
             THEN goOn([grid |-> after, cur |-> Metrics(after), moved |-> TRUE],
                       {q \in left : SessionOf(q[1]) # SessionOf(to[1])})
             ELSE goOn([v EXCEPT !.grid = Relocated(@, back)], left \ {to})

VacateTurn(v, t, x, best, strict) ==
    LET found == Found(v.grid, t, x)
    IN  IF found = <<>> THEN v
        ELSE VacateInto(v, v.grid, t, found, Tries(v.grid, t, x, Len(found)), best, strict)

(***************************************************************************)
(* randomSwap, as the set of grids in which it may have placed a on one of *)
(* the slots of open.  closed holds cells forbidden for the time being.    *)
(* (FetConstruct models the same search step by step.)                     *)
(***************************************************************************)
RECURSIVE Swapped(_, _, _, _, _, _, _), Resettled(_, _, _, _, _, _)

Swapped(g, a, open, closed, moved, strict, depth) ==
    LET here == {s \in open : Possible(g, a, s, strict) /\
                     (TeachersOf[a] \X Covered(a, s)) \cap closed = {}}
        free == {s \in here : Clashes(g, a, s) = {}}
        pushing(s) == LET gone == Clashes(g, a, s) IN
            Once(Put(Lifted(g, gone), a, s), LAMBDA h :
                Resettled(h, gone, closed, moved \cup gone, strict, depth - 1))
    IN  IF depth = 0 THEN {}
        ELSE IF free # {} THEN {Put(g, a, s) : s \in free}
        ELSE UNION {pushing(s) : s \in {r \in here : Clashes(g, a, r) \cap moved = {}}}

Resettled(g, gone, closed, moved, strict, depth) ==
    IF gone = {} THEN {g}
    ELSE LET a == CHOOSE b \in gone : TRUE IN
         UNION {Resettled(h, gone \ {a}, closed, moved, strict, depth) :
                    h \in Swapped(g, a, Slots, closed, moved, strict, depth)}

RandomSwap(g, a, open, strict) == Swapped(g, a, open, {}, {}, strict, SwapDepth)

(***************************************************************************)
(* tryVacateTeacherSession: all lessons of t leave session x, which is     *)
(* closed to t while they are placed again.                                *)
(***************************************************************************)
Vacated(g, t, x) ==
    LET ss == Taught(g, t, x)
        acts == ActsIn(g, t, ss)
    IN  IF \/ Cardinality(ss) \notin 1 .. 3 \/ \E s \in SlotsIn(x) : g.cells[t][s] = FixedCell
        THEN {}
        ELSE FoldSet(LAMBDA a, hs : UNION {Swapped(h, a, Slots, {t} \X SlotsIn(x), {}, TRUE, SwapDepth)
                                              : h \in hs},
                     {Lifted(g, acts)}, acts)

VacateTeacherSession(g, t, x, best, mode, locks) ==
    {h \in Vacated(g, t, x) :
        LessonBlockSafe(h, Act) /\ Better(Metrics(h), best, mode, locks)}

\* obliterateAllThinTeacherSessions: of any teacher, also one that is not scored.  Each
\* session it vacates passes the integrity gate by itself.
ObliterateThinSessions(g, cur, exempt, baseline, locks) ==
    {h \in UNION {VacateTeacherSession(g, tx[1], tx[2], cur, "optimize_sessions", locks) :
            tx \in {p \in Teachers \X Sessions : Cardinality(Taught(g, p[1], p[2])) \in {1, 2}}} :
        Intact(h, exempt, baseline)}

\* The thin sessions of scored teachers that optimize vacates itself.
VacateThinSessions(g, best, locks) ==
    UNION {VacateTeacherSession(g, tx[1], tx[2], best, "optimize_sessions", locks) :
        tx \in {p \in Scored \X Sessions : Cardinality(Taught(g, p[1], p[2])) \in {1, 2}}}
=============================================================================
