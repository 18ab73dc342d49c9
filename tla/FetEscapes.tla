----------------------------- MODULE FetEscapes -----------------------------
(***************************************************************************)
(* The operators of the FET engine's optimizer, part two: cycles through a *)
(* class, and the moves tried when a round brought nothing.  As in         *)
(* FetMoves, an operator is the set of grids its next kept move may give.  *)
(***************************************************************************)
EXTENDS FetMoves

CONSTANT WalkSteps      \* moves of a walk on the plateau: 12 or 8 in the code

\* The activities are all lifted, then each is tested with those before it put down.
RECURSIVE FitsInTurn(_, _, _)
FitsInTurn(g, move, strict) ==
    \/ move = <<>>
    \/ /\ Open(g, move[1].act, move[1].slot, strict)
       /\ Once(Put(g, move[1].act, move[1].slot), LAMBDA h : FitsInTurn(h, Tail(move), strict))

InTurn(g, move, strict) ==
    Once(Lifted(g, ActsOf(move)), LAMBDA h : FitsInTurn(h, move, strict))

(***************************************************************************)
(* trySingletonRelabelCycles.  A lesson enters an occupied slot of its     *)
(* class and pushes the lesson there on, up to seven times, until one can  *)
(* take the slot the first has left.                                       *)
(***************************************************************************)
CanLand(g, b, s, pushed) ==
    /\ Ground(ClassOf[b], s) = Free
    /\ \A t \in TeachersOf[b] : g.cells[t][s] \in {Free, b} \cup pushed

RECURSIVE Pushed(_, _, _, _, _)
Pushed(g, from, path, b, depth) ==
    LET pushed == ActsOf(path)
        row == g.cells[ClassOf[b]]
    IN  IF depth = 0 \/ ~Single(b) THEN {}
        ELSE IF CanLand(g, b, from, pushed) THEN {Append(path, To(b, from))}
        ELSE UNION {Pushed(g, from, Append(path, To(b, s)), row[s], depth - 1) :
                s \in {r \in Slots : row[r] \in Act /\ CanLand(g, b, r, pushed)
                           /\ r \notin {from} \cup {path[i].slot : i \in DOMAIN path}}}

Cycles(g, a, s) ==
    LET c == ClassOf[a]
    IN  IF Ground(c, s) # Free THEN {}
        ELSE IF Taken(g, c, s) THEN Pushed(g, g.place[a], <<To(a, s)>>, g.cells[c][s], 7)
        ELSE {<<To(a, s)>>}

Edges(ss) == {s \in ss : (\A r \in ss : r <= s) \/ (\A r \in ss : s <= r)}

\* The lessons of t that may join the lone one: other lone ones, and the edges of long sessions.
Donors(g, t, x) ==
    {a \in UNION {ActsIn(g, t, IF Cardinality(Taught(g, t, y)) = 1 THEN Taught(g, t, y)
                               ELSE Edges(Taught(g, t, y))) :
                  y \in {z \in Sessions \ {x} : Cardinality(Taught(g, t, z)) \notin {0, 2}}}
        : Single(a)}

Near(g, t, ss, x) ==
    {s \in SlotsIn(x) : g.cells[t][s] = Free /\ \E r \in ss : r - 2 <= s /\ s <= r + 2}

RelabelMoves(g) ==
    UNION {LET t == tx[1] x == tx[2] alone == Taught(g, t, x) lone == ActsIn(g, t, alone) IN
        IF \E a \in lone : ~Single(a) THEN {}
        ELSE UNION {Cycles(g, a, s) : a \in Donors(g, t, x), s \in Near(g, t, alone, x)}
             \cup UNION {Cycles(g, a, s) : a \in lone,
                    s \in UNION {Near(g, t, Taught(g, t, y), y) :
                            y \in {z \in Sessions \ {x} : Partial(g, t, z)}}}
        : tx \in {p \in Scored \X Sessions : Cardinality(Taught(g, p[1], p[2])) = 1}}

SingletonRelabelCycles(g, cur, baseline, strict, locks) ==
    {h \in Outcomes(g, RelabelMoves(g), LAMBDA m : InTurn(g, m, strict)) :
        StudentHoles(h) <= baseline /\ Better(Metrics(h), cur, "optimize_singletons", locks)}

(***************************************************************************)
(* The teachers the escapes start from.                                    *)
(***************************************************************************)
SessionsOf(g, t, P(_)) == {x \in Sessions : P(Cardinality(Taught(g, t, x)))}

Bottlenecks(g, mode) ==
    {t \in Scored :
        IF mode = "optimize_singletons" THEN SessionsOf(g, t, LAMBDA n : n = 1) # {}
        ELSE \/ Cardinality(SessionsOf(g, t, LAMBDA n : n > 0)) >= 4
             \/ SessionsOf(g, t, LAMBDA n : n \in {2, 3}) # {}}

(***************************************************************************)
(* tryWholeSessionSwap: a class exchanges the same half of two days.       *)
(***************************************************************************)
StartsIn(g, c, x) == {a \in Placed(g) : ClassOf[a] = c /\ SessionOf(g.place[a]) = x}

Swappable(g, c, x) == \A s \in SlotsIn(x) : Ground(c, s) = Free

Shifted(g, c, x, y) ==
    LET acts == SetToSortSeq(StartsIn(g, c, x), LAMBDA a, b : g.place[a] < g.place[b])
    IN  [i \in DOMAIN acts |-> To(acts[i], g.place[acts[i]] + (y - x) * Periods)]

WholeSessionSwap(g, cur, mode, strict, locks) ==
    LET swaps == {Shifted(g, cxy[1], cxy[2], cxy[3]) \o Shifted(g, cxy[1], cxy[3], cxy[2]) :
            cxy \in {p \in Classes \X Sessions \X Sessions :
                /\ p[2] < p[3] /\ SameHalf(p[2], p[3])
                /\ Swappable(g, p[1], p[2]) /\ Swappable(g, p[1], p[3])}}
    IN  {h \in Outcomes(g, swaps, LAMBDA m : InTurn(g, m, strict)) :
            Better(Metrics(h), cur, mode, locks)}

(***************************************************************************)
(* tryDeepEjectionChain: four lessons of a class rotate.                   *)
(***************************************************************************)
FourCycles(g, ts) ==
    LET follows(a, b) ==
            \A t \in SoleTeachers(a) : g.cells[t][g.place[b]] \notin Act \ {a}
    IN  UNION {{Rotation(g, <<a, p[1], p[2], p[3]>>) :
            p \in {q \in SinglesOf(g, ClassOf[a]) \X SinglesOf(g, ClassOf[a])
                           \X SinglesOf(g, ClassOf[a]) :
                /\ Cardinality({a, q[1], q[2], q[3]}) = 4
                /\ follows(a, q[1]) /\ follows(q[1], q[2])
                /\ follows(q[2], q[3]) /\ follows(q[3], a)}}
            : a \in {b \in Placed(g) : Single(b) /\ TeachersOf[b] \cap ts # {}}}

DeepEjectionChain(g, ts, cur, mode, strict, locks) ==
    {h \in {Relocated(g, q) : q \in {m \in FourCycles(g, ts) : Fits(g, m, strict)}} :
        LessonBlockSafe(h, Act) /\ Better(Metrics(h), cur, mode, locks)}

(***************************************************************************)
(* trySingletonEjectionChain: a lone lesson is placed anew by randomSwap.  *)
(* The list of lone lessons of a teacher is made before the first of them  *)
(* moves; before is the grid at that time.                                 *)
(***************************************************************************)
LoneLessons(g, ts) ==
    {a \in UNION {ActsIn(g, t, UNION {Taught(g, t, x) : x \in SessionsOf(g, t, LAMBDA n : n = 1)})
                  : t \in ts} : Single(a)}

SingletonEjectionChain(g, before, ts, cur, mode, strict, locks) ==
    {h \in UNION {RandomSwap(Take(g, a), a, Slots, strict) :
                     a \in LoneLessons(g, ts) \cup LoneLessons(before, ts)} :
        LessonBlockSafe(h, Act) /\ Better(Metrics(h), cur, mode, locks)}

\* The first n of a shuffled list.
Sliced(ts, n) == kSubset(IF Cardinality(ts) < n THEN Cardinality(ts) ELSE n, ts)

(***************************************************************************)
(* tryNeutralPlateauWalk: random moves of one lesson, or exchanges of two  *)
(* of a class, kept as long as the metrics stay equal.                     *)
(***************************************************************************)
Steps(g, strict) ==
    Outcomes(g, UNION {{<<To(a, s)>> : s \in {r \in Slots : g.cells[ClassOf[a]][r] = Free}}
                       \cup {Swap(g, a, b) : b \in SinglesOf(g, ClassOf[a]) \ {a}}
                       : a \in {b \in Placed(g) : Single(b)}},
             LAMBDA m : Fits(g, m, strict))

RECURSIVE Walks(_, _, _, _, _, _)
Walks(front, n, cur, mode, strict, locks) ==
    LET reached == UNION {Steps(g, strict) : g \in front}
        better == {h \in reached : Better(Metrics(h), cur, mode, locks)}
        neutral == {h \in reached \ better : ~Worse(Metrics(h), cur, mode, locks)}
    IN  IF n = 0 THEN {}
        ELSE {h \in better : LessonBlockSafe(h, Act)}
             \cup Walks(neutral, n - 1, cur, mode, strict, locks)

NeutralPlateauWalk(g, cur, mode, strict, locks) ==
    Walks({g}, WalkSteps, cur, mode, strict, locks)
=============================================================================
