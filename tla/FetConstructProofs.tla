------------------------- MODULE FetConstructProofs -------------------------
(***************************************************************************)
(* The safety properties of the construction phase, for every timetable,   *)
(* every bound on recursion and passes, and every choice of the search.    *)
(*                                                                         *)
(* The rows of the grid are determined by the placements, so a rollback    *)
(* that restores the placements restores everything.  The invariant keeps, *)
(* beside the state, the grid at each length of the journal: undoing the   *)
(* entry of a length leads to the grid before it, every open frame began   *)
(* at its mark, and what the frames displaced is placed again or still     *)
(* waits in one of them.                                                   *)
(***************************************************************************)
EXTENDS FetConstruct, FiniteSetTheorems, SequenceTheorems, WellFoundedInduction, TLAPS

(***************************************************************************)
(* Induction over the naturals for a set, the form the provers can use.    *)
(***************************************************************************)
\* A set of naturals that holds 0 and the successor of each of its members holds them all.
LEMMA NatSetInduction ==
  ASSUME NEW T, T \subseteq Nat, 0 \in T, \A n \in T : n + 1 \in T
  PROVE  T = Nat
<1>1. SUFFICES ASSUME Nat \ T # {} PROVE FALSE
  OBVIOUS
<1>2. PICK x \in Nat \ T : \A y \in Nat \ T : ~ (<<y, x>> \in OpToRel(<, Nat))
  BY <1>1, NatLessThanWellFounded, WFMin
<1>3. \A y \in Nat \ T : ~ (y < x)
  BY <1>2 DEF OpToRel
<1>4. x # 0 /\ x - 1 \in Nat /\ x - 1 < x
  OBVIOUS
<1>5. x - 1 \in T
  BY <1>3, <1>4
<1>6. QED
  BY <1>5, <1>4

\* One entry of the journal taken back (jrnRollback): a removal by putting, a placement by taking.
LEMMA UndoneIs ==
  ASSUME NEW h, NEW e
  PROVE  Undone(h, e) = IF e.op = "U" THEN Put(h, e.act, e.slot)
                        ELSE IF h.place[e.act] = e.slot THEN Take(h, e.act) ELSE h
BY DEF Undone, Once

\* When undoing each entry leads from the grid after it to the grid before it, undoing the
\* newest entries down to any mark gives the grid at that mark.
LEMMA RollbackFollows ==
  ASSUME NEW J, NEW N \in Nat, Len(J) = N, NEW past, NEW m \in 0 .. N,
         \A n \in 1 .. N : Undone(past[n], J[n]) = past[n - 1]
  PROVE  RolledBack(past[N], J, m) = past[m]
<1> DEFINE D(g) == [n \in 0 .. N - m |->
                      IF n = 0 THEN past[N] ELSE Undone(g[n - 1], J[N - n + 1])]
           f == [n \in 0 .. N - m |-> past[N - n]]
           C == CHOOSE g : g = D(g)
<1>0. m \in Nat /\ m <= N /\ N - m \in Nat
  OBVIOUS
<1>1. RolledBack(past[N], J, m) = C[N - m]
  BY DEF RolledBack
<1>2. f = D(f)
  <2>1. ASSUME NEW n \in 0 .. N - m, n # 0
        PROVE  past[N - n] = Undone(past[N - (n - 1)], J[N - n + 1])
    <3>1. N - n + 1 \in 1 .. N /\ N - n + 1 = N - (n - 1) /\ (N - n + 1) - 1 = N - n
      <4>1. n \in Nat /\ n <= N - m
        BY <1>0
      <4>2. QED
        BY <1>0, <2>1, <4>1
    <3>2. QED
      BY <3>1
  <2>2. ASSUME NEW n \in 0 .. N - m
        PROVE  f[n] = IF n = 0 THEN past[N] ELSE Undone(f[n - 1], J[N - n + 1])
    <3>1. CASE n = 0
      BY <3>1
    <3>2. CASE n # 0
      <4>1. n - 1 \in 0 .. N - m
        BY <3>2
      <4>2. f[n - 1] = past[N - (n - 1)]
        BY <4>1
      <4>3. QED
        BY <3>2, <4>2, <2>1
    <3>3. QED
      BY <3>1, <3>2
  <2>3. QED
    BY <2>2
<1>3. C = D(C)
  <2> HIDE DEF D, f
  <2>1. QED
    BY <1>2
<1>4. ASSUME NEW n \in 0 .. N - m
      PROVE  C[n] = IF n = 0 THEN past[N] ELSE Undone(C[n - 1], J[N - n + 1])
  <2> HIDE DEF C
  <2>1. QED
    BY <1>3
<1> DEFINE T == {n \in Nat : n <= N - m => C[n] = past[N - n]}
<1> HIDE DEF C, D, f
<1>5. 0 \in T
  BY <1>4
<1>6. ASSUME NEW n \in T PROVE n + 1 \in T
  <2>1. SUFFICES ASSUME n + 1 <= N - m PROVE C[n + 1] = past[N - (n + 1)]
    OBVIOUS
  <2>2. /\ n \in Nat /\ n <= N - m /\ n + 1 \in 0 .. N - m /\ n + 1 # 0 /\ (n + 1) - 1 = n
        /\ N - (n + 1) + 1 = N - n
        /\ N - n \in 1 .. N /\ (N - n) - 1 = N - (n + 1)
    BY <2>1
  <2>3. C[n] = past[N - n]
    BY <2>2
  <2>4. C[n + 1] = Undone(C[n], J[N - n])
    BY <2>2, <1>4
  <2>5. QED
    BY <2>2, <2>3, <2>4
<1>7. T = Nat
  <2>1. T \subseteq Nat
    OBVIOUS
  <2> HIDE DEF T
  <2>2. QED
    BY <1>5, <1>6, <2>1, NatSetInduction
<1>8. C[N - m] = past[N - (N - m)] /\ N - (N - m) = m
  BY <1>0, <1>7
<1>9. QED
  BY <1>1, <1>8

\* A block that ends with its session lies in one session, and within the week.
LEMMA SameSession ==
  ASSUME NEW P \in Nat, P # 0, NEW K \in Nat, NEW s \in 0 .. K * P - 1, NEW d \in 1 .. P,
         (s % P) + d <= P, NEW t \in s .. s + d - 1
  PROVE  t \div P = s \div P /\ t \in 0 .. K * P - 1
<1> DEFINE q == s \div P
           r == s % P
           u == t \div P
           v == t % P
<1>0. P \in Nat /\ P > 0 /\ s \in Nat /\ t \in Nat /\ d \in Nat /\ K * P \in Int
  OBVIOUS
<1>1. q \in Int /\ r \in 0 .. P - 1 /\ s = P * q + r
  BY <1>0
<1>2. u \in Int /\ v \in 0 .. P - 1 /\ t = P * u + v
  BY <1>0
<1> HIDE DEF q, r, u, v
<1>3. \A x, y \in Int : x >= y + 1 => P * x >= P * y + P
  BY <1>0
<1>4. t >= s /\ t < s + d /\ r + d <= P
  BY DEF r
<1>5. ~ (u >= q + 1)
  <2>1. SUFFICES ASSUME u >= q + 1 PROVE FALSE
    OBVIOUS
  <2>2. P * u >= P * q + P
    BY <2>1, <1>1, <1>2, <1>3
  <2>3. QED
    BY <2>2, <1>0, <1>1, <1>2, <1>4
<1>6. ~ (q >= u + 1)
  <2>1. SUFFICES ASSUME q >= u + 1 PROVE FALSE
    OBVIOUS
  <2>2. P * q >= P * u + P
    BY <2>1, <1>1, <1>2, <1>3
  <2>3. QED
    BY <2>2, <1>0, <1>1, <1>2, <1>4
<1>7. K >= q + 1
  <2>1. SUFFICES ASSUME q + 1 >= K + 1 PROVE FALSE
    BY <1>1
  <2>2. P * (q + 1) >= P * K + P /\ P * (q + 1) = P * q + P /\ P * K = K * P
    BY <2>1, <1>0, <1>1, <1>3
  <2>3. s < K * P
    BY <1>0
  <2>4. QED
    BY <2>2, <2>3, <1>0, <1>1
<1>8. P * K >= P * q + P /\ P * K = K * P
  BY <1>0, <1>1, <1>3, <1>7
<1>9. t < K * P
  BY <1>8, <1>0, <1>1, <1>4
<1>10. u = q
  BY <1>1, <1>2, <1>5, <1>6
<1>11. QED
  BY <1>9, <1>10, <1>0 DEF q, u

(***************************************************************************)
(* Grids whose rows say what their placements say, cell by cell.  Sound    *)
(* is Consistent without the choice that CellOf makes.                     *)
(***************************************************************************)
Places == [Act -> Slots \cup {Unplaced}]
Marks == {Free, Off, FixedCell}
Grids == [place : Places, cells : [Resources -> [Slots -> Act \cup Marks]]]

Stands(g, a, r, t) ==
    g.place[a] # Unplaced /\ r \in Uses(a) /\ t \in Covered(a, g.place[a])

Rows(g) ==
    \A r \in Resources, t \in Slots :
        /\ \A a \in Act : g.cells[r][t] = a <=> Stands(g, a, r, t)
        /\ g.cells[r][t] \in Act \/ g.cells[r][t] = Ground(r, t)

Clear(g) ==
    \A a \in Act, r \in Resources, t \in Int :
        Stands(g, a, r, t) => t \in Slots /\ Ground(r, t) = Free

Sound(g) == g \in Grids /\ Rows(g) /\ Clear(g)

\* The resources of an activity are resources, its block is an interval that it starts.
LEMMA ActFacts ==
  ASSUME NEW a \in Act
  PROVE  /\ a \in Nat /\ a \notin Marks /\ a # Unplaced
         /\ ClassOf[a] \in Classes /\ ClassOf[a] \in Uses(a)
         /\ Uses(a) \subseteq Resources
         /\ Duration[a] \in 1 .. Periods
         /\ \A s \in Int : s \in Covered(a, s) /\ Covered(a, s) \subseteq Int
BY GridAssumption DEF Uses, Resources, Covered, Marks, Unplaced, Free, Off, FixedCell

\* An empty cell is free, off or fixed.
LEMMA GroundMarks == \A r, t : Ground(r, t) \in Marks
BY DEF Ground, Marks

\* Slots are finitely many naturals, and no slot is the mark of an unplaced activity.
LEMMA SlotFacts == Slots \subseteq Nat /\ Unplaced \notin Slots /\ IsFiniteSet(Slots)
<1>1. Days * 2 * Periods - 1 \in Int
  BY GridAssumption
<1>2. QED
  BY <1>1, FS_Interval DEF Slots, Unplaced

\* A grid is its two parts.
LEMMA GridParts ==
  ASSUME NEW g \in Grids
  PROVE  /\ g.place \in Places /\ g.cells \in [Resources -> [Slots -> Act \cup Marks]]
         /\ g = [place |-> g.place, cells |-> g.cells]
BY DEF Grids

\* Grids with the same placements and the same cells are equal.
LEMMA GridEquality ==
  ASSUME NEW g \in Grids, NEW h \in Grids, g.place = h.place, g.cells = h.cells
  PROVE  g = h
BY GridParts

\* Sound grids with the same placements are the same grid.
LEMMA GridDetermined ==
  ASSUME NEW g, NEW h, Sound(g), Sound(h), \A a \in Act : g.place[a] = h.place[a]
  PROVE  g = h
<1>1. g \in Grids /\ h \in Grids
  BY DEF Sound
<1>2. g.place = h.place
  BY <1>1, GridParts DEF Places
<1>3. ASSUME NEW r \in Resources, NEW t \in Slots PROVE g.cells[r][t] = h.cells[r][t]
  <2>1. \A a \in Act : g.cells[r][t] = a <=> h.cells[r][t] = a
    BY <1>2 DEF Sound, Rows, Stands
  <2>2. CASE g.cells[r][t] \in Act
    BY <2>1, <2>2
  <2>3. CASE g.cells[r][t] \notin Act
    BY <2>1, <2>3 DEF Sound, Rows
  <2>4. QED
    BY <2>2, <2>3
<1>4. \A r \in Resources : g.cells[r] = h.cells[r]
  BY <1>1, <1>3, GridParts
<1>5. g.cells = h.cells
  BY <1>1, <1>4, GridParts
<1>6. QED
  BY <1>1, <1>2, <1>5, GridEquality

\* The form of soundness used here implies the property the runs check.
LEMMA SoundIsConsistent ==
  ASSUME NEW g, Sound(g)
  PROVE  Consistent(g)
<1>1. ASSUME NEW r \in Resources, NEW t \in Slots PROVE g.cells[r][t] = CellOf(g, r, t)
  <2> DEFINE here == {a \in Placed(g) : r \in Uses(a) /\ t \in Covered(a, g.place[a])}
  <2>1. \A a \in Act : a \in here <=> g.cells[r][t] = a
    BY DEF Sound, Rows, Stands, Placed
  <2>2. here \subseteq Act
    BY DEF Placed
  <2>3. CASE here = {}
    BY <2>1, <2>3 DEF CellOf, Sound, Rows
  <2>4. CASE here # {}
    <3>1. CellOf(g, r, t) = CHOOSE a \in here : TRUE
      BY <2>4 DEF CellOf
    <3>2. (CHOOSE a \in here : TRUE) \in here
      BY <2>4
    <3>3. QED
      BY <2>1, <2>2, <3>1, <3>2
  <2>5. QED
    BY <2>3, <2>4
<1>2. ASSUME NEW a \in Placed(g), NEW b \in Placed(g), NEW r \in Uses(a) \cap Uses(b),
             NEW t \in Covered(a, g.place[a]) \cap Covered(b, g.place[b])
      PROVE  a = b
  <2>1. a \in Act /\ b \in Act /\ r \in Resources /\ t \in Int
    BY ActFacts DEF Placed, Covered
  <2>2. Stands(g, a, r, t) /\ Stands(g, b, r, t)
    BY DEF Stands, Placed
  <2>3. t \in Slots
    BY <2>1, <2>2 DEF Sound, Clear
  <2>4. g.cells[r][t] = a /\ g.cells[r][t] = b
    BY <2>1, <2>2, <2>3 DEF Sound, Rows
  <2>5. QED
    BY <2>4
<1>3. ASSUME NEW a \in Placed(g), NEW r \in Uses(a), NEW t \in Covered(a, g.place[a])
      PROVE  t \in Slots /\ Ground(r, t) = Free
  <2>1. a \in Act /\ r \in Resources /\ t \in Int
    BY ActFacts DEF Placed, Covered
  <2>2. Stands(g, a, r, t)
    BY DEF Stands, Placed
  <2>3. QED
    BY <2>1, <2>2 DEF Sound, Clear
<1>4. QED
  BY <1>1, <1>2, <1>3 DEF Consistent

(***************************************************************************)
(* What Lifted, Put and Take do to a sound grid.                           *)
(***************************************************************************)
\* The grid solve starts from (init).
LEMMA EmptyIsSound == Sound(EmptyGrid) /\ Placed(EmptyGrid) = {}
<1>1. EmptyGrid.place = [a \in Act |-> Unplaced]
      /\ EmptyGrid.cells = [r \in Resources |-> [s \in Slots |-> Ground(r, s)]]
  BY DEF EmptyGrid
<1>2. EmptyGrid \in Grids
  <2>1. [a \in Act |-> Unplaced] \in Places
    BY DEF Places
  <2>2. [r \in Resources |-> [s \in Slots |-> Ground(r, s)]]
          \in [Resources -> [Slots -> Act \cup Marks]]
    BY GroundMarks
  <2>3. QED
    BY <2>1, <2>2 DEF EmptyGrid, Grids
<1>3. \A a, r, t : a \in Act => ~ Stands(EmptyGrid, a, r, t)
  BY <1>1 DEF Stands
<1>4. Rows(EmptyGrid)
  <2>1. ASSUME NEW r \in Resources, NEW t \in Slots
        PROVE  EmptyGrid.cells[r][t] = Ground(r, t) /\ Ground(r, t) \notin Act
    BY <1>1, GroundMarks, ActFacts
  <2>2. QED
    BY <2>1, <1>3 DEF Rows
<1>5. Clear(EmptyGrid)
  BY <1>3 DEF Clear
<1>6. QED
  BY <1>1, <1>2, <1>4, <1>5 DEF Sound, Placed

\* What unplaceActivity writes back where a lesson may stand is the empty cell again.
LEMMA RestoredIsGround ==
  ASSUME NEW r \in Resources, NEW t, Ground(r, t) = Free
  PROVE  Restored(r, t) = Ground(r, t)
BY DEF Restored, Ground, OffPairs, Off, Free

\* What lifting activities off a sound grid leaves: the others stay where they are.
LEMMA LiftedIsSound ==
  ASSUME NEW g, Sound(g), NEW S \in SUBSET Act
  PROVE  /\ Sound(Lifted(g, S))
         /\ \A a \in Act : Lifted(g, S).place[a] = IF a \in S THEN Unplaced ELSE g.place[a]
         /\ Placed(Lifted(g, S)) = Placed(g) \ S
<1> DEFINE h == Lifted(g, S)
<1>0. g \in Grids /\ Rows(g) /\ Clear(g)
  BY DEF Sound
<1>1. h.place = [a \in Act |-> IF a \in S THEN Unplaced ELSE g.place[a]]
  BY DEF Lifted
<1>2. ASSUME NEW r \in Resources, NEW t \in Slots
      PROVE  h.cells[r][t] = IF g.cells[r][t] \in S THEN Ground(r, t) ELSE g.cells[r][t]
  <2>1. h.cells[r][t] = IF /\ g.cells[r][t] \in S /\ r \in Uses(g.cells[r][t])
                           /\ t \in Covered(g.cells[r][t], g.place[g.cells[r][t]])
                        THEN Restored(r, t) ELSE g.cells[r][t]
    BY DEF Lifted
  <2>2. CASE g.cells[r][t] \in S
    <3>1. Stands(g, g.cells[r][t], r, t) /\ g.cells[r][t] \in Act
      BY <1>0, <2>2 DEF Rows
    <3>2. Ground(r, t) = Free
      BY <1>0, <3>1, SlotFacts DEF Clear
    <3>3. QED
      BY <2>1, <2>2, <3>1, <3>2, RestoredIsGround DEF Stands
  <2>3. CASE g.cells[r][t] \notin S
    BY <2>1, <2>3
  <2>4. QED
    BY <2>2, <2>3
<1>3. h \in Grids
  <2>1. h.place \in Places
    BY <1>0, <1>1, GridParts DEF Places
  <2>2. h.cells \in [Resources -> [Slots -> Act \cup Marks]]
    <3>1. h.cells = [r \in Resources |-> [t \in Slots |-> h.cells[r][t]]]
      BY DEF Lifted
    <3>2. \A r \in Resources, t \in Slots : h.cells[r][t] \in Act \cup Marks
      BY <1>0, <1>2, GridParts, GroundMarks
    <3> HIDE DEF h
    <3>3. QED
      BY <3>1, <3>2
  <2>3. h = [place |-> h.place, cells |-> h.cells]
    BY DEF Lifted
  <2> HIDE DEF h
  <2>4. QED
    BY <2>1, <2>2, <2>3 DEF Grids
<1>4. ASSUME NEW a \in Act, NEW r, NEW t
      PROVE  Stands(h, a, r, t) <=> Stands(g, a, r, t) /\ a \notin S
  <2> HIDE DEF h
  <2>1. h.place[a] = IF a \in S THEN Unplaced ELSE g.place[a]
    BY <1>1
  <2>2. QED
    BY <2>1 DEF Stands
<1> HIDE DEF h
<1>5. Rows(h)
  <2>1. ASSUME NEW r \in Resources, NEW t \in Slots, NEW a \in Act
        PROVE  h.cells[r][t] = a <=> Stands(h, a, r, t)
    <3>1. g.cells[r][t] = a <=> Stands(g, a, r, t)
      BY <1>0 DEF Rows
    <3>2. Ground(r, t) \notin Act
      BY GroundMarks, ActFacts
    <3>3. QED
      BY <3>1, <3>2, <1>2, <1>4
  <2>2. ASSUME NEW r \in Resources, NEW t \in Slots
        PROVE  h.cells[r][t] \in Act \/ h.cells[r][t] = Ground(r, t)
    BY <1>0, <1>2 DEF Rows
  <2>3. QED
    BY <2>1, <2>2 DEF Rows
<1>6. Clear(h)
  BY <1>0, <1>4 DEF Clear
<1>7. Placed(h) = Placed(g) \ S
  BY <1>1 DEF Placed
<1>8. QED
  BY <1>1, <1>3, <1>5, <1>6, <1>7 DEF Sound, h

\* Lifting nothing changes nothing.
LEMMA LiftedNothing ==
  ASSUME NEW g, Sound(g)
  PROVE  Lifted(g, {}) = g
<1>1. Sound(Lifted(g, {})) /\ \A a \in Act : Lifted(g, {}).place[a] = g.place[a]
  BY LiftedIsSound
<1>2. QED
  BY <1>1, GridDetermined

\* A block may stand where its resources are free.
Fits(g, a, s) ==
    \A t \in Covered(a, s) :
        t \in Slots /\ \A r \in Uses(a) : Ground(r, t) = Free /\ g.cells[r][t] \notin Act

\* placeActivityDirect of an unplaced activity where it fits keeps the rows sound.
LEMMA PutIsSound ==
  ASSUME NEW g, Sound(g), NEW a \in Act, g.place[a] = Unplaced,
         NEW s \in Slots, Fits(g, a, s)
  PROVE  /\ Sound(Put(g, a, s))
         /\ \A b \in Act : Put(g, a, s).place[b] = IF b = a THEN s ELSE g.place[b]
         /\ Placed(Put(g, a, s)) = Placed(g) \cup {a}
         /\ \A r \in Resources, t \in Slots :
              Put(g, a, s).cells[r][t] =
                IF r \in Uses(a) /\ t \in Covered(a, s) THEN a ELSE g.cells[r][t]
<1> DEFINE h == Put(g, a, s)
<1>0. g \in Grids /\ Rows(g) /\ Clear(g)
  BY DEF Sound
<1>1. h.place = [b \in Act |-> IF b = a THEN s ELSE g.place[b]]
  BY DEF Put
<1>2. ASSUME NEW r \in Resources, NEW t \in Slots
      PROVE  h.cells[r][t] = IF r \in Uses(a) /\ t \in Covered(a, s) THEN a ELSE g.cells[r][t]
  BY DEF Put, Take
<1>3. h \in Grids
  <2>1. h.place \in Places
    BY <1>0, <1>1, GridParts DEF Places
  <2>2. h.cells \in [Resources -> [Slots -> Act \cup Marks]]
    <3>1. h.cells = [r \in Resources |-> [t \in Slots |-> h.cells[r][t]]]
      BY DEF Put
    <3>2. \A r \in Resources, t \in Slots : h.cells[r][t] \in Act \cup Marks
      BY <1>0, <1>2, GridParts
    <3> HIDE DEF h
    <3>3. QED
      BY <3>1, <3>2
  <2>3. h = [place |-> h.place, cells |-> h.cells]
    BY DEF Put
  <2> HIDE DEF h
  <2>4. QED
    BY <2>1, <2>2, <2>3 DEF Grids
<1> HIDE DEF h
<1>4. ASSUME NEW r, NEW t
      PROVE  Stands(h, a, r, t) <=> r \in Uses(a) /\ t \in Covered(a, s)
  BY <1>1, SlotFacts DEF Stands
<1>5. ASSUME NEW b \in Act, b # a, NEW r, NEW t
      PROVE  Stands(h, b, r, t) <=> Stands(g, b, r, t)
  <2>1. h.place[b] = g.place[b]
    BY <1>1, <1>5
  <2>2. QED
    BY <2>1 DEF Stands
<1>6. Rows(h)
  <2>1. ASSUME NEW r \in Resources, NEW t \in Slots, NEW b \in Act
        PROVE  h.cells[r][t] = b <=> Stands(h, b, r, t)
    <3>1. \A c \in Act : g.cells[r][t] = c <=> Stands(g, c, r, t)
      BY <1>0 DEF Rows
    <3>2. ~ Stands(g, a, r, t)
      BY DEF Stands
    <3>3. CASE r \in Uses(a) /\ t \in Covered(a, s)
      <4>1. g.cells[r][t] \notin Act
        BY <3>3 DEF Fits
      <4>2. b # a => ~ Stands(h, b, r, t)
        BY <4>1, <3>1, <1>5
      <4>3. QED
        BY <4>2, <3>3, <1>2, <1>4
    <3>4. CASE ~ (r \in Uses(a) /\ t \in Covered(a, s))
      BY <3>1, <3>2, <3>4, <1>2, <1>4, <1>5
    <3>5. QED
      BY <3>3, <3>4
  <2>2. ASSUME NEW r \in Resources, NEW t \in Slots
        PROVE  h.cells[r][t] \in Act \/ h.cells[r][t] = Ground(r, t)
    BY <1>0, <1>2 DEF Rows
  <2>3. QED
    BY <2>1, <2>2 DEF Rows
<1>7. Clear(h)
  BY <1>0, <1>4, <1>5 DEF Clear, Fits
<1>8. Placed(h) = Placed(g) \cup {a}
  BY <1>1, SlotFacts DEF Placed
<1>9. Sound(h) /\ \A b \in Act : h.place[b] = IF b = a THEN s ELSE g.place[b]
  BY <1>1, <1>3, <1>6, <1>7 DEF Sound
<1>10. QED
  BY <1>2, <1>8, <1>9 DEF h

\* Who stands in a cell, once more.
LEMMA CellStands ==
  ASSUME NEW g, Sound(g), NEW r \in Resources, NEW t \in Slots, g.cells[r][t] \in Act
  PROVE  Stands(g, g.cells[r][t], r, t) /\ Ground(r, t) = Free
<1>1. Stands(g, g.cells[r][t], r, t)
  BY DEF Sound, Rows
<1>2. QED
  BY <1>1, SlotFacts DEF Sound, Clear

\* What stands after some activities have left stood before.
LEMMA StandsLifted ==
  ASSUME NEW g, Sound(g), NEW S \in SUBSET Act, NEW a \in Act, NEW r, NEW t
  PROVE  Stands(Lifted(g, S), a, r, t) <=> Stands(g, a, r, t) /\ a \notin S
<1>1. Lifted(g, S).place[a] = IF a \in S THEN Unplaced ELSE g.place[a]
  BY LiftedIsSound
<1>2. QED
  BY <1>1 DEF Stands

\* Undoing the last of several removals.
LEMMA PutBack ==
  ASSUME NEW g, Sound(g), NEW S \in SUBSET Act, NEW b \in Placed(g), b \notin S
  PROVE  Put(Lifted(g, S \cup {b}), b, g.place[b]) = Lifted(g, S)
<1> DEFINE h == Lifted(g, S \cup {b})
<1>0. b \in Act /\ S \cup {b} \in SUBSET Act /\ g.place[b] \in Slots /\ g.place[b] \in Int
  BY GridParts, SlotFacts DEF Placed, Sound, Places
<1>1. Sound(h) /\ \A a \in Act : h.place[a] = IF a \in S \cup {b} THEN Unplaced ELSE g.place[a]
  BY <1>0, LiftedIsSound
<1>2. Fits(h, b, g.place[b])
  <2>1. ASSUME NEW t \in Covered(b, g.place[b]), NEW r \in Uses(b)
        PROVE  t \in Slots /\ Ground(r, t) = Free /\ h.cells[r][t] \notin Act
    <3>1. r \in Resources /\ t \in Int /\ Stands(g, b, r, t)
      BY <1>0, ActFacts DEF Stands, Placed
    <3>2. t \in Slots /\ Ground(r, t) = Free
      BY <1>0, <3>1 DEF Sound, Clear
    <3>3. ASSUME h.cells[r][t] \in Act PROVE FALSE
      <4> DEFINE c == h.cells[r][t]
      <4>1. Stands(h, c, r, t)
        BY <1>1, <3>1, <3>2, <3>3, CellStands
      <4>2. Stands(g, c, r, t) /\ c \notin S \cup {b}
        BY <1>0, <3>3, <4>1, StandsLifted
      <4>3. g.cells[r][t] = c /\ g.cells[r][t] = b
        BY <1>0, <3>1, <3>2, <3>3, <4>2 DEF Sound, Rows
      <4>4. QED
        BY <4>2, <4>3
    <3>4. QED
      BY <3>2, <3>3
  <2>2. ClassOf[b] \in Uses(b)
    BY <1>0, ActFacts
  <2> HIDE DEF h
  <2>3. QED
    BY <2>1, <2>2 DEF Fits
<1>3. h.place[b] = Unplaced
  BY <1>0, <1>1
<1>4. /\ Sound(Put(h, b, g.place[b]))
      /\ \A a \in Act : Put(h, b, g.place[b]).place[a] = IF a = b THEN g.place[b] ELSE h.place[a]
  <2> DEFINE s == g.place[b]
  <2>1. s \in Slots /\ b \in Act /\ Fits(h, b, s) /\ h.place[b] = Unplaced /\ Sound(h)
    BY <1>0, <1>1, <1>2, <1>3
  <2> HIDE DEF h, s
  <2>2. Sound(Put(h, b, s))
    BY <2>1, PutIsSound
  <2>3. \A a \in Act : Put(h, b, s).place[a] = IF a = b THEN s ELSE h.place[a]
    BY <2>1, PutIsSound
  <2>4. QED
    BY <2>2, <2>3 DEF s
<1>5. Sound(Lifted(g, S)) /\ \A a \in Act : Lifted(g, S).place[a] = IF a \in S THEN Unplaced ELSE g.place[a]
  BY LiftedIsSound
<1>6. \A a \in Act : Put(h, b, g.place[b]).place[a] = Lifted(g, S).place[a]
  <2> HIDE DEF h
  <2>1. QED
    BY <1>1, <1>4, <1>5
<1>7. QED
  BY <1>4, <1>5, <1>6, GridDetermined

\* Undoing a placement.
LEMMA TakeBack ==
  ASSUME NEW g, Sound(g), NEW a \in Act, g.place[a] = Unplaced, NEW s \in Slots, Fits(g, a, s)
  PROVE  Take(Put(g, a, s), a) = g
<1> DEFINE h == Put(g, a, s)
<1>1. Sound(h) /\ \A b \in Act : h.place[b] = IF b = a THEN s ELSE g.place[b]
  BY PutIsSound
<1>2. h.place[a] # Unplaced
  <2>1. h.place[a] = s
    BY <1>1
  <2>2. QED
    BY <2>1, SlotFacts
<1>3. Take(h, a) = Lifted(h, {a})
  BY <1>2 DEF Take
<1>4. /\ Sound(Lifted(h, {a}))
      /\ \A b \in Act : Lifted(h, {a}).place[b] = IF b \in {a} THEN Unplaced ELSE h.place[b]
  BY <1>1, LiftedIsSound
<1>5. \A b \in Act : Lifted(h, {a}).place[b] = g.place[b]
  <2> HIDE DEF h
  <2>1. QED
    BY <1>1, <1>4
<1>6. QED
  BY <1>3, <1>4, <1>5, GridDetermined

\* A block that Possible lets in lies in one session of the week.
LEMMA BlockInSession ==
  ASSUME NEW a \in Act, NEW s \in Slots, PeriodOf(s) + Duration[a] <= Periods,
         NEW t \in Covered(a, s)
  PROVE  t \in Slots /\ SessionOf(t) = SessionOf(s)
<1>1. Periods \in Nat /\ Periods # 0 /\ Days * 2 \in Nat /\ Duration[a] \in 1 .. Periods
  BY GridAssumption, ActFacts
<1>2. s \in 0 .. (Days * 2) * Periods - 1 /\ t \in s .. s + Duration[a] - 1
      /\ (s % Periods) + Duration[a] <= Periods
  BY DEF Slots, Covered, PeriodOf
<1>3. t \div Periods = s \div Periods /\ t \in 0 .. (Days * 2) * Periods - 1
  BY <1>1, <1>2, SameSession
<1>4. QED
  BY <1>3 DEF Slots, SessionOf

\* Where getConflictsForSlot lets an activity start it fits once the clashing ones have left.
LEMMA PossibleFits ==
  ASSUME NEW g, Sound(g), NEW a \in Act, g.place[a] = Unplaced, NEW s \in Slots, NEW b,
         Possible(g, a, s, b)
  PROVE  /\ Clashes(g, a, s) \subseteq Placed(g) \ {a}
         /\ Fits(Lifted(g, Clashes(g, a, s)), a, s)
<1> DEFINE S == Clashes(g, a, s)
           h == Lifted(g, S)
<1>0. \A t \in Covered(a, s) : t \in Slots
  BY BlockInSession DEF Possible
<1>1. S \subseteq Placed(g) \ {a}
  <2>1. ASSUME NEW c \in S PROVE c \in Placed(g) \ {a}
    <3>1. c \in Act /\ c # a
      BY DEF Clashes
    <3>2. PICK r \in Uses(a), t \in Covered(a, s) : c = g.cells[r][t]
      BY DEF Clashes
    <3>3. r \in Resources /\ t \in Slots
      BY <1>0, ActFacts
    <3>4. Stands(g, c, r, t)
      BY <3>1, <3>2, <3>3, CellStands
    <3>5. QED
      BY <3>1, <3>4 DEF Stands, Placed
  <2>2. QED
    BY <2>1
<1>2. S \in SUBSET Act
  BY DEF Clashes
<1>3. Sound(h)
  BY <1>2, LiftedIsSound
<1>4. ASSUME NEW t \in Covered(a, s), NEW r \in Uses(a)
      PROVE  Ground(r, t) = Free /\ h.cells[r][t] \notin Act
  <2>1. r \in Resources /\ t \in Slots
    BY <1>0, ActFacts
  <2>2. Ground(r, t) = Free
    <3>1. CASE r = ClassOf[a]
      BY <3>1 DEF Possible, Unblocked
    <3>2. CASE r # ClassOf[a]
      <4>1. g.cells[r][t] \notin {Off, FixedCell}
        BY <3>2 DEF Possible, Unblocked, Uses
      <4>2. CASE g.cells[r][t] \in Act
        BY <2>1, <4>2, CellStands
      <4>3. CASE g.cells[r][t] \notin Act
        <5>1. g.cells[r][t] = Ground(r, t)
          BY <2>1, <4>3 DEF Sound, Rows
        <5>2. QED
          BY <4>1, <5>1, GroundMarks DEF Marks
      <4>4. QED
        BY <4>2, <4>3
    <3>3. QED
      BY <3>1, <3>2
  <2>3. ASSUME h.cells[r][t] \in Act PROVE FALSE
    <3> DEFINE c == h.cells[r][t]
    <3>1. Stands(h, c, r, t)
      BY <1>3, <2>1, <2>3, CellStands
    <3>2. Stands(g, c, r, t) /\ c \notin S
      BY <1>2, <2>3, <3>1, StandsLifted
    <3>3. c # a
      BY <3>2 DEF Stands
    <3>4. g.cells[r][t] = c
      BY <2>1, <2>3, <3>2 DEF Sound, Rows
    <3> HIDE DEF h
    <3>5. c \in S
      BY <2>3, <3>3, <3>4 DEF Clashes
    <3>6. QED
      BY <3>2, <3>5
  <2>4. QED
    BY <2>2, <2>3
<1>5. Fits(h, a, s)
  <2> HIDE DEF h
  <2>1. QED
    BY <1>0, <1>4 DEF Fits
<1>6. QED
  BY <1>1, <1>5

(***************************************************************************)
(* The limit of lessons of a subject in a session.                         *)
(***************************************************************************)
Good(g) == Sound(g) /\ WithinLimits(g)

\* A larger finite set of slots bounds a smaller one.
LEMMA FewerSlots ==
  ASSUME NEW A, NEW B, A \subseteq B, B \subseteq Slots, NEW n \in Nat, Cardinality(B) <= n
  PROVE  Cardinality(A) <= n
<1>1. IsFiniteSet(B)
  BY SlotFacts, FS_Subset
<1>2. IsFiniteSet(A) /\ Cardinality(A) <= Cardinality(B)
  BY <1>1, FS_Subset
<1>3. Cardinality(A) \in Nat /\ Cardinality(B) \in Nat
  BY <1>1, <1>2, FS_CardinalityType
<1>4. QED
  BY <1>2, <1>3

\* Limits are naturals.
LEMMA LimitFacts == \A a \in Act : SessionLimit[ClassOf[a]][SubjectOf[a]] \in Nat
BY GridAssumption

\* No lesson stands on a fixed cell.
LEMMA FixedIsNotTaken ==
  ASSUME NEW g, Sound(g), NEW c \in Classes, NEW t \in Slots, NEW m, FixedSubjectAt(c, t, m)
  PROVE  ~ Taken(g, c, t)
<1>1. Ground(c, t) # Free
  BY DEF Ground, FixedSubjectAt, FixedUses, Free, Off, FixedCell
<1>2. c \in Resources
  BY DEF Resources
<1>3. QED
  BY <1>1, <1>2, CellStands DEF Taken

\* The slots of a subject when no lesson of it came in.
LEMMA SlotsShrink ==
  ASSUME NEW g, NEW h, Sound(g), Sound(h), NEW c \in Classes, NEW m, NEW s, NEW gone,
         \A t \in SlotsOfSession(s), x \in Act :
             Stands(h, x, c, t) /\ SubjectOf[x] = m => Stands(g, x, c, t) /\ x \notin gone
  PROVE  SubjectSlots(h, c, m, s, {}) \subseteq SubjectSlots(g, c, m, s, gone)
<1>1. SUFFICES ASSUME NEW t \in SubjectSlots(h, c, m, s, {})
               PROVE  t \in SubjectSlots(g, c, m, s, gone)
  OBVIOUS
<1>2. t \in SlotsOfSession(s) /\ t \in Slots /\ c \in Resources
  BY DEF SubjectSlots, SlotsOfSession, Resources
<1>3. CASE Taken(h, c, t) /\ SubjectOf[h.cells[c][t]] = m
  <2> DEFINE x == h.cells[c][t]
  <2>1. x \in Act /\ SubjectOf[x] = m
    BY <1>3 DEF Taken
  <2>2. Stands(h, x, c, t)
    BY <1>2, <2>1, CellStands
  <2>3. Stands(g, x, c, t) /\ x \notin gone
    BY <1>2, <2>1, <2>2
  <2>4. g.cells[c][t] = x
    BY <1>2, <2>1, <2>3 DEF Sound, Rows
  <2>5. QED
    BY <1>2, <2>1, <2>3, <2>4 DEF SubjectSlots, Taken
<1>4. CASE ~ Taken(h, c, t) /\ FixedSubjectAt(c, t, m)
  BY <1>2, <1>4, FixedIsNotTaken DEF SubjectSlots
<1>5. QED
  BY <1>3, <1>4 DEF SubjectSlots

\* Taking activities away breaks no limit.
LEMMA LiftedIsGood ==
  ASSUME NEW g, Good(g), NEW S \in SUBSET Act
  PROVE  Good(Lifted(g, S))
<1> DEFINE h == Lifted(g, S)
<1>1. /\ Sound(g) /\ Sound(h) /\ Placed(h) = Placed(g) \ S
      /\ \A a \in Act : h.place[a] = IF a \in S THEN Unplaced ELSE g.place[a]
  BY LiftedIsSound DEF Good
<1>2. ASSUME NEW a \in Placed(h)
      PROVE  Cardinality(SubjectSlots(h, ClassOf[a], SubjectOf[a], h.place[a], {}))
               <= SessionLimit[ClassOf[a]][SubjectOf[a]]
  <2>1. a \in Act /\ a \in Placed(g) /\ h.place[a] = g.place[a] /\ ClassOf[a] \in Classes
    BY <1>1, ActFacts DEF Placed
  <2>2. SubjectSlots(h, ClassOf[a], SubjectOf[a], g.place[a], {})
          \subseteq SubjectSlots(g, ClassOf[a], SubjectOf[a], g.place[a], {})
    <3>1. \A t, x : x \in Act /\ Stands(h, x, ClassOf[a], t) => Stands(g, x, ClassOf[a], t)
      BY <1>1, StandsLifted
    <3> HIDE DEF h
    <3>2. QED
      BY <1>1, <2>1, <3>1, SlotsShrink
  <2>3. SubjectSlots(g, ClassOf[a], SubjectOf[a], g.place[a], {}) \subseteq Slots
    BY DEF SubjectSlots, SlotsOfSession
  <2>4. Cardinality(SubjectSlots(g, ClassOf[a], SubjectOf[a], g.place[a], {}))
          <= SessionLimit[ClassOf[a]][SubjectOf[a]]
    BY <2>1 DEF Good, WithinLimits
  <2> HIDE DEF h
  <2>5. QED
    BY <2>1, <2>2, <2>3, <2>4, LimitFacts, FewerSlots
<1>3. QED
  BY <1>1, <1>2 DEF Good, WithinLimits

\* The heart of the construction: a block set down where Possible lets it in, its clashes
\* gone, leaves a good grid.
LEMMA SettleIsGood ==
  ASSUME NEW g, Good(g), NEW a \in Act, g.place[a] = Unplaced, NEW s \in Slots, NEW b,
         Possible(g, a, s, b)
  PROVE  Good(Put(Lifted(g, Clashes(g, a, s)), a, s))
<1> DEFINE S == Clashes(g, a, s)
           h == Lifted(g, S)
           k == Put(h, a, s)
           C == ClassOf[a]
           M == SubjectOf[a]
<1>1. Sound(g) /\ WithinLimits(g) /\ S \in SUBSET Act
  BY DEF Good, Clashes
<1>2. Sound(h) /\ \A x \in Act : h.place[x] = IF x \in S THEN Unplaced ELSE g.place[x]
  BY <1>1, LiftedIsSound
<1>3. S \subseteq Placed(g) \ {a} /\ Fits(h, a, s)
  BY <1>1, PossibleFits
<1>4. h.place[a] = Unplaced
  BY <1>2
<1>5. /\ Sound(k) /\ \A x \in Act : k.place[x] = IF x = a THEN s ELSE h.place[x]
      /\ Placed(k) = Placed(h) \cup {a}
  <2> HIDE DEF h
  <2>1. QED
    BY <1>2, <1>3, <1>4, PutIsSound
<1>6. ASSUME NEW x \in Act, x # a, NEW r, NEW t, Stands(k, x, r, t)
      PROVE  Stands(g, x, r, t) /\ x \notin S
  <2>1. k.place[x] = h.place[x]
    BY <1>5, <1>6
  <2>2. Stands(h, x, r, t)
    BY <1>6, <2>1 DEF Stands
  <2>3. QED
    BY <1>1, <2>2, StandsLifted
<1>7. k.place[a] = s /\ \A r, t : Stands(k, a, r, t) => r \in Uses(a) /\ t \in Covered(a, s)
  <2>1. k.place[a] = s
    BY <1>5
  <2>2. QED
    BY <2>1 DEF Stands
<1>8. \A t \in Covered(a, s) : t \in Slots /\ SessionOf(t) = SessionOf(s)
  BY BlockInSession DEF Possible
<1>9. C \in Classes /\ \A c \in Classes : c \in Uses(a) => c = C
  BY GridAssumption, ActFacts DEF Uses
<1> HIDE DEF k, h
<1>10. SubjectSlots(k, C, M, s, {}) \subseteq SubjectWith(g, a, s)
  <2>1. ASSUME NEW t \in SubjectSlots(k, C, M, s, {}) PROVE t \in SubjectWith(g, a, s)
    <3>1. t \in SlotsOfSession(s) /\ t \in Slots /\ C \in Resources
      BY <1>9 DEF SubjectSlots, SlotsOfSession, Resources
    <3>2. CASE Taken(k, C, t) /\ SubjectOf[k.cells[C][t]] = M
      <4> DEFINE x == k.cells[C][t]
      <4>1. x \in Act /\ SubjectOf[x] = M
        BY <3>2 DEF Taken
      <4>2. Stands(k, x, C, t)
        BY <1>5, <3>1, <4>1, CellStands
      <4>3. CASE x = a
        BY <1>7, <4>2, <4>3 DEF SubjectWith
      <4>4. CASE x # a
        <5>1. Stands(g, x, C, t) /\ x \notin S
          BY <1>6, <4>1, <4>2, <4>4
        <5>2. g.cells[C][t] = x
          BY <1>1, <3>1, <4>1, <5>1 DEF Sound, Rows
        <5>3. QED
          BY <3>1, <4>1, <5>1, <5>2 DEF SubjectWith, SubjectSlots, Taken
      <4>5. QED
        BY <4>3, <4>4
    <3>3. CASE ~ Taken(k, C, t) /\ FixedSubjectAt(C, t, M)
      <4>1. ~ Taken(g, C, t)
        BY <1>1, <1>9, <3>1, <3>3, FixedIsNotTaken
      <4>2. QED
        BY <3>1, <3>3, <4>1 DEF SubjectWith, SubjectSlots
    <3>4. QED
      BY <3>2, <3>3 DEF SubjectSlots
  <2>2. QED
    BY <2>1
<1>11. Cardinality(SubjectSlots(k, C, M, s, {})) <= SessionLimit[C][M]
  <2>1. SubjectWith(g, a, s) \subseteq Slots
    BY <1>8 DEF SubjectWith, SubjectSlots, SlotsOfSession
  <2>2. Cardinality(SubjectWith(g, a, s)) <= SessionLimit[C][M]
    BY DEF Possible
  <2>3. QED
    BY <1>10, <2>1, <2>2, LimitFacts, FewerSlots
<1>12. ASSUME NEW x \in Placed(k)
       PROVE  Cardinality(SubjectSlots(k, ClassOf[x], SubjectOf[x], k.place[x], {}))
                <= SessionLimit[ClassOf[x]][SubjectOf[x]]
  <2>0. x \in Act
    BY DEF Placed
  <2>1. CASE x = a
    BY <2>1, <1>7, <1>11
  <2>2. CASE x # a /\ ClassOf[x] = C /\ SubjectOf[x] = M /\ SessionOf(k.place[x]) = SessionOf(s)
    <3>1. SlotsOfSession(k.place[x]) = SlotsOfSession(s)
      BY <2>2 DEF SlotsOfSession
    <3>2. SubjectSlots(k, C, M, k.place[x], {}) = SubjectSlots(k, C, M, s, {})
      BY <3>1 DEF SubjectSlots
    <3>3. QED
      BY <2>2, <3>2, <1>11
  <2>3. CASE x # a /\ ~ (/\ ClassOf[x] = C /\ SubjectOf[x] = M
                         /\ SessionOf(k.place[x]) = SessionOf(s))
    <3> DEFINE p == k.place[x]
    <3>1. x \in Placed(g) /\ p = g.place[x]
      BY <1>2, <1>5, <2>0, <2>3 DEF Placed
    <3>2. ClassOf[x] \in Classes
      BY <2>0, ActFacts
    <3>3. ASSUME NEW t \in SlotsOfSession(p), NEW y \in Act,
                 Stands(k, y, ClassOf[x], t), SubjectOf[y] = SubjectOf[x]
          PROVE  Stands(g, y, ClassOf[x], t)
      <4>1. CASE y = a
        <5>1. ClassOf[x] \in Uses(a) /\ t \in Covered(a, s)
          BY <1>7, <3>3, <4>1
        <5>2. ClassOf[x] = C /\ SessionOf(t) = SessionOf(s)
          BY <1>8, <1>9, <3>2, <5>1
        <5>3. SessionOf(t) = SessionOf(p)
          BY DEF SlotsOfSession
        <5>4. QED
          BY <2>3, <3>3, <4>1, <5>2, <5>3
      <4>2. CASE y # a
        BY <1>6, <3>3, <4>2
      <4>3. QED
        BY <4>1, <4>2
    <3> HIDE DEF p
    <3>4. SubjectSlots(k, ClassOf[x], SubjectOf[x], p, {})
            \subseteq SubjectSlots(g, ClassOf[x], SubjectOf[x], p, {})
      BY <1>1, <1>5, <3>2, <3>3, SlotsShrink
    <3>5. SubjectSlots(g, ClassOf[x], SubjectOf[x], p, {}) \subseteq Slots
      BY DEF SubjectSlots, SlotsOfSession
    <3>6. Cardinality(SubjectSlots(g, ClassOf[x], SubjectOf[x], p, {}))
            <= SessionLimit[ClassOf[x]][SubjectOf[x]]
      BY <1>1, <3>1 DEF WithinLimits
    <3>7. Cardinality(SubjectSlots(k, ClassOf[x], SubjectOf[x], p, {}))
            <= SessionLimit[ClassOf[x]][SubjectOf[x]]
      BY <2>0, <3>4, <3>5, <3>6, LimitFacts, FewerSlots
    <3>8. QED
      BY <3>7 DEF p
  <2>4. QED
    BY <2>1, <2>2, <2>3
<1>13. Good(k)
  BY <1>5, <1>12 DEF Good, WithinLimits
<1>14. QED
  BY <1>13 DEF k, h

(***************************************************************************)
(* The journal of a displacement.                                          *)
(***************************************************************************)
\* Sets of activities are finite.
LEMMA ActSubsetsAreFinite == \A S \in SUBSET Act : IsFiniteSet(S)
BY FS_Subset, GridAssumption

\* Every length of a journal had a good grid, and undoing an entry leads one back.
Traces(past, journal, from, to) ==
    /\ \A n \in 0 .. Len(journal) : Good(past[n])
    /\ \A n \in 1 .. Len(journal) : Undone(past[n], journal[n]) = past[n - 1]
    /\ past[0] = from /\ past[Len(journal)] = to

\* Removals lists each activity of the set once, as it stands.
LEMMA RemovalsList ==
  ASSUME NEW S \in SUBSET Act
  PROVE  LET q == Removals(S) IN
         /\ Len(q) \in Nat /\ DOMAIN q = 1 .. Len(q) /\ q \in Seq({Did("U", a, grid.place[a]) : a \in S})
         /\ \A i \in 1 .. Len(q) : q[i].act \in S /\ q[i] = Did("U", q[i].act, grid.place[q[i].act])
         /\ \A i, j \in 1 .. Len(q) : q[i].act = q[j].act => i = j
         /\ {q[i].act : i \in 1 .. Len(q)} = S
<1> DEFINE E(a) == Did("U", a, grid.place[a])
           D == {E(a) : a \in S}
           f == [a \in S |-> E(a)]
           n == Cardinality(D)
           q == Removals(S)
<1>1. IsFiniteSet(D)
  <2>1. f \in Surjection(S, D)
    <3> HIDE DEF E
    <3>1. f \in [S -> D] /\ \A d \in D : \E a \in S : f[a] = d
      OBVIOUS
    <3> HIDE DEF f, D
    <3>2. QED
      BY <3>1 DEF Surjection
  <2>2. QED
    BY <2>1, ActSubsetsAreFinite, FS_Surjection
<1>2. n \in Nat /\ ExistsBijection(1 .. n, D)
  BY <1>1, FS_CardinalityType
<1>3. q \in Injection(1 .. n, D)
  <2>1. PICK g : g \in Bijection(1 .. n, D)
    BY <1>2 DEF ExistsBijection
  <2>2. g \in [1 .. n -> D] /\ IsInjective(g)
    BY <2>1 DEF Bijection, Injection
  <2>3. q = CHOOSE h \in [1 .. n -> D] : IsInjective(h)
    BY DEF Removals, SetToSeq
  <2>4. q \in [1 .. n -> D] /\ IsInjective(q)
    <3> HIDE DEF q, n, D
    <3>1. QED
      BY <2>2, <2>3
  <2>5. QED
    BY <2>4 DEF Injection
<1>4. q \in [1 .. n -> D] /\ IsInjective(q)
  BY <1>3 DEF Injection
<1>5. q \in Surjection(1 .. n, D)
  <2>1. IsFiniteSet(1 .. n) /\ Cardinality(1 .. n) = n
    BY <1>2, FS_Interval
  <2>2. QED
    BY <1>1, <1>3, <2>1, FS_Injection
<1>6. \A a \in S : \E i \in 1 .. n : q[i] = E(a)
  BY <1>5 DEF Surjection
<1>7. \A a : E(a).act = a
  BY DEF Did
<1>8. ASSUME NEW i \in 1 .. n PROVE q[i].act \in S /\ q[i] = E(q[i].act)
  <2>1. q[i] \in D
    <3> HIDE DEF q, n, D
    <3>1. QED
      BY <1>4
  <2>2. PICK a \in S : q[i] = E(a)
    BY <2>1
  <2>3. QED
    BY <1>7, <2>2
<1> HIDE DEF q, n, D, E
<1>9. q \in Seq(D) /\ Len(q) = n /\ DOMAIN q = 1 .. n
  BY <1>2, <1>4
<1>10. \A i, j \in 1 .. n : q[i].act = q[j].act => i = j
  BY <1>4, <1>8 DEF IsInjective
<1>11. {q[i].act : i \in 1 .. n} = S
  BY <1>6, <1>7, <1>8
<1>12. QED
  BY <1>2, <1>8, <1>9, <1>10, <1>11 DEF q, D, E

\* Undone one by one, the newest first, the removals give the grid back.
LEMMA Unwinding ==
  ASSUME Good(grid), NEW S \in SUBSET Placed(grid)
  PROVE  LET q == Removals(S) IN
         /\ Displaced(grid, q) = Lifted(grid, S)
         /\ \E mid : Traces(mid, q, grid, Lifted(grid, S))
<1> DEFINE q == Removals(S)
           Gone(j) == {q[i].act : i \in 1 .. j}
           mid == [j \in 0 .. Len(q) |-> Lifted(grid, Gone(j))]
<1>1. S \in SUBSET Act /\ Sound(grid)
  BY DEF Placed, Good
<1>2. /\ Len(q) \in Nat /\ DOMAIN q = 1 .. Len(q)
      /\ \A i \in 1 .. Len(q) : q[i].act \in S /\ q[i] = Did("U", q[i].act, grid.place[q[i].act])
      /\ \A i, j \in 1 .. Len(q) : q[i].act = q[j].act => i = j
      /\ Gone(Len(q)) = S
  BY <1>1, RemovalsList
<1> HIDE DEF q
<1>3. ASSUME NEW j \in 0 .. Len(q) PROVE Gone(j) \in SUBSET S
  <2>1. \A i \in 1 .. j : i \in 1 .. Len(q)
    BY <1>2
  <2>2. QED
    BY <1>2, <2>1
<1>4. mid[0] = grid
  <2>1. Gone(0) = {}
    OBVIOUS
  <2>2. QED
    BY <1>1, <1>2, <2>1, LiftedNothing
<1>5. mid[Len(q)] = Lifted(grid, S)
  <2>1. Len(q) \in 0 .. Len(q) /\ Gone(Len(q)) = S
    BY <1>2
  <2> HIDE DEF Gone
  <2>2. QED
    BY <2>1
<1>6. ASSUME NEW j \in 0 .. Len(q) PROVE Good(mid[j])
  <2>1. Gone(j) \in SUBSET Act
    BY <1>1, <1>3
  <2> HIDE DEF Gone
  <2>2. QED
    BY <2>1, LiftedIsGood
<1>7. ASSUME NEW j \in 1 .. Len(q) PROVE Undone(mid[j], q[j]) = mid[j - 1]
  <2> DEFINE b == q[j].act
  <2>1. j \in 0 .. Len(q) /\ j - 1 \in 0 .. Len(q) /\ j - 1 \in Nat
    BY <1>2
  <2>2. Gone(j) = Gone(j - 1) \cup {b}
    <3>1. 1 .. j = (1 .. j - 1) \cup {j}
      BY <2>1
    <3>2. QED
      BY <3>1
  <2>3. b \notin Gone(j - 1)
    <3>1. SUFFICES ASSUME NEW i \in 1 .. j - 1, q[i].act = b PROVE FALSE
      OBVIOUS
    <3>2. i \in 1 .. Len(q) /\ i # j
      BY <1>2, <2>1
    <3>3. QED
      BY <1>2, <3>1, <3>2
  <2>4. b \in Placed(grid) /\ Gone(j - 1) \in SUBSET Act
    BY <1>1, <1>2, <1>3, <2>1
  <2>5. q[j].op = "U" /\ q[j].slot = grid.place[b]
    <3>1. q[j] = Did("U", b, grid.place[b])
      BY <1>2
    <3>2. QED
      BY <3>1 DEF Did
  <2>6. Undone(mid[j], q[j]) = Put(mid[j], b, grid.place[b])
    <3> HIDE DEF mid
    <3>1. QED
      BY <2>5, UndoneIs
  <2>7. mid[j] = Lifted(grid, Gone(j - 1) \cup {b}) /\ mid[j - 1] = Lifted(grid, Gone(j - 1))
    BY <2>1, <2>2
  <2> HIDE DEF Gone, b, mid
  <2>8. Put(mid[j], b, grid.place[b]) = Lifted(grid, Gone(j - 1))
    BY <1>1, <2>3, <2>4, <2>7, PutBack
  <2>9. QED
    BY <2>6, <2>7, <2>8
<1>8. Displaced(grid, q) = Lifted(grid, S)
  BY <1>2 DEF Displaced
<1> HIDE DEF mid
<1>9. Traces(mid, q, grid, Lifted(grid, S))
  BY <1>4, <1>5, <1>6, <1>7 DEF Traces
<1>10. QED
  BY <1>8, <1>9 DEF q

(***************************************************************************)
(* The inductive invariant.  past is the grid at each length of the        *)
(* journal since the attempt began.  Every open frame knows the moment it  *)
(* began (its mark); what the frames above it displaced and have not yet   *)
(* placed again is owed, and what a frame has yet to hand to a call is     *)
(* pending.                                                                *)
(***************************************************************************)
Entries == [op : {"U", "P"}, act : Act, slot : Slots]

Frames ==
    [act : Act, slots : SUBSET Slots, at : {"enter", "try", "wait"},
     cands : UNION {[T -> SUBSET Act] : T \in SUBSET Slots},
     moved : SUBSET Act, waiting : SUBSET Act, child : Act \cup {Unplaced},
     slot : Slots \cup {Unplaced}, mark : Nat, before : Places]

FetTypes ==
    /\ moveJournal \in Seq(Entries) /\ stack \in Seq(Frames)
    /\ swapped \subseteq Act /\ todo \subseteq Act
    /\ result \in {"none", "placed", "failed"}
    /\ phase \in {"main", "passes", "lastMile", "done"}
    /\ passNo \in 0 .. MaxPasses

History(past) == Traces(past, moveJournal, entry, grid)

\* What frame k of st, or solve itself (0), has displaced or listed and not yet tried.
Pending(st, td, k) == IF k = 0 THEN td ELSE st[k].waiting \ {st[k].child}

\* x waits in one of the frames between k and i.
Owed(st, x, k, i) == \E j \in k + 1 .. i - 1 : x \in st[j].waiting

\* A grid h that the frames of st below i led to: what was placed when the attempt began,
\* and what these frames placed, is there or owed; what is pending is not there.
Reached(h, st, td, en, i) ==
    /\ \A x \in Placed(en) : x \in Placed(h) \/ Owed(st, x, 0, i)
    /\ \A k \in 1 .. i - 1 : st[k].act \in Placed(h) \/ Owed(st, st[k].act, k, i)
    /\ \A k \in 0 .. i - 1, x \in Act : x \in Pending(st, td, k) => x \notin Placed(h)

FrameHolds(past, st, td, en, sr, i) ==
    /\ past[st[i].mark].place = st[i].before
    /\ st[i].before[st[i].act] = Unplaced
    /\ \A s \in DOMAIN st[i].cands :
          /\ Possible(past[st[i].mark], st[i].act, s, sr)
          /\ Clashes(past[st[i].mark], st[i].act, s) = st[i].cands[s]
    /\ st[i].at # "wait" => st[i].waiting = {}
    /\ \A k \in 0 .. i - 1 :
          /\ st[i].act \notin Pending(st, td, k)
          /\ \A x \in st[i].waiting : x \notin Pending(st, td, k)
    /\ \A k \in 1 .. i - 1 : st[k].mark <= st[i].mark
    /\ i = 1 => st[i].mark = 0
    /\ i > 1 => st[i - 1].at = "wait" /\ st[i - 1].child = st[i].act
    /\ Reached(past[st[i].mark], st, td, en, i)

TopHolds ==
    /\ stack # <<>> =>
          /\ Top.mark <= Len(moveJournal)
          /\ Top.at # "wait" => result = "none" /\ Top.mark = Len(moveJournal)
          /\ Top.at = "wait" /\ result = "none" => \A x \in Top.waiting : x \notin Placed(grid)
          /\ result = "placed" => Top.child \in Placed(grid)
    /\ (stack = <<>> \/ Top.at = "wait") => Reached(grid, stack, todo, entry, Len(stack) + 1)
    /\ stack = <<>> /\ result = "failed" => grid = entry

Follows(past) ==
    /\ History(past)
    /\ \A i \in 1 .. Len(stack) : FrameHolds(past, stack, todo, entry, strict, i)
    /\ TopHolds

FetInv == FetTypes /\ \E past : Follows(past)

(***************************************************************************)
(* A frame's facts are about the frames below it and about the history up  *)
(* to its mark.                                                            *)
(***************************************************************************)
\* What a frame knows of the grid depends on the frames below it.
LEMMA ReachedSame ==
  ASSUME NEW h, NEW st, NEW st2, NEW td, NEW en, NEW i \in Nat,
         \A k \in 1 .. i - 1 : st2[k] = st[k],
         Reached(h, st, td, en, i)
  PROVE  Reached(h, st2, td, en, i)
<1>1. ASSUME NEW x, NEW k \in Nat, Owed(st, x, k, i) PROVE Owed(st2, x, k, i)
  <2>1. PICK j \in k + 1 .. i - 1 : x \in st[j].waiting
    BY <1>1 DEF Owed
  <2>2. j \in 1 .. i - 1
    OBVIOUS
  <2>3. QED
    BY <2>1, <2>2 DEF Owed
<1>2. ASSUME NEW k \in 0 .. i - 1 PROVE Pending(st2, td, k) = Pending(st, td, k)
  BY DEF Pending
<1>3. \A x \in Placed(en) : x \in Placed(h) \/ Owed(st2, x, 0, i)
  BY <1>1 DEF Reached
<1>4. ASSUME NEW k \in 1 .. i - 1 PROVE st2[k].act \in Placed(h) \/ Owed(st2, st2[k].act, k, i)
  <2>1. st[k].act \in Placed(h) \/ Owed(st, st[k].act, k, i)
    BY DEF Reached
  <2>2. st2[k] = st[k] /\ k \in Nat
    OBVIOUS
  <2>3. QED
    BY <1>1, <2>1, <2>2
<1>5. QED
  BY <1>2, <1>3, <1>4 DEF Reached

\* A frame stays true when the frames up to it and the history at its mark do.
LEMMA FrameSame ==
  ASSUME NEW past, NEW past2, NEW st, NEW st2, NEW td, NEW en, NEW sr, NEW i \in Nat \ {0},
         \A k \in 1 .. i : st2[k] = st[k],
         past2[st[i].mark] = past[st[i].mark],
         FrameHolds(past, st, td, en, sr, i)
  PROVE  FrameHolds(past2, st2, td, en, sr, i)
<1>1. st2[i] = st[i] /\ \A k \in 1 .. i - 1 : st2[k] = st[k]
  OBVIOUS
<1>2. ASSUME NEW k \in 0 .. i - 1 PROVE Pending(st2, td, k) = Pending(st, td, k)
  <2>1. k # 0 => k \in 1 .. i - 1
    OBVIOUS
  <2>2. k # 0 => st2[k] = st[k]
    BY <1>1, <2>1
  <2>3. QED
    BY <2>2 DEF Pending
<1>3. Reached(past2[st2[i].mark], st2, td, en, i)
  <2>1. Reached(past[st[i].mark], st, td, en, i)
    BY DEF FrameHolds
  <2>2. QED
    BY <1>1, <2>1, ReachedSame
<1>4. i > 1 => st2[i - 1] = st[i - 1]
  BY <1>1
<1>5. /\ past2[st2[i].mark].place = st2[i].before
      /\ st2[i].before[st2[i].act] = Unplaced
      /\ \A s \in DOMAIN st2[i].cands :
            /\ Possible(past2[st2[i].mark], st2[i].act, s, sr)
            /\ Clashes(past2[st2[i].mark], st2[i].act, s) = st2[i].cands[s]
      /\ st2[i].at # "wait" => st2[i].waiting = {}
      /\ i = 1 => st2[i].mark = 0
  BY <1>1 DEF FrameHolds
<1>6. \A k \in 0 .. i - 1 :
         /\ st2[i].act \notin Pending(st2, td, k)
         /\ \A x \in st2[i].waiting : x \notin Pending(st2, td, k)
  BY <1>1, <1>2 DEF FrameHolds
<1>7. /\ \A k \in 1 .. i - 1 : st2[k].mark <= st2[i].mark
      /\ i > 1 => st2[i - 1].at = "wait" /\ st2[i - 1].child = st2[i].act
  BY <1>1, <1>4 DEF FrameHolds
<1>8. QED
  BY <1>3, <1>5, <1>6, <1>7 DEF FrameHolds

\* The frames of a running attempt, and the one on top.
LEMMA StackFacts ==
  ASSUME FetTypes, NEW past, Follows(past), stack # <<>>
  PROVE  /\ Len(stack) \in Nat \ {0} /\ Top = stack[Len(stack)] /\ Top \in Frames
         /\ \A i \in 1 .. Len(stack) : stack[i] \in Frames /\ stack[i].mark <= Top.mark
         /\ Len(moveJournal) \in Nat /\ Top.mark \in 0 .. Len(moveJournal)
         /\ FrameHolds(past, stack, todo, entry, strict, Len(stack))
         /\ Good(past[Top.mark]) /\ Good(grid)
<1> DEFINE D == Len(stack)
<1>1. stack \in Seq(Frames) /\ moveJournal \in Seq(Entries)
  BY DEF FetTypes
<1>2. D \in Nat \ {0} /\ Top = stack[D] /\ \A i \in 1 .. D : stack[i] \in Frames
  BY <1>1 DEF Top
<1>3. \A i \in 1 .. D : stack[i].mark \in Nat
  BY <1>2 DEF Frames
<1>4. FrameHolds(past, stack, todo, entry, strict, D)
  BY <1>2 DEF Follows
<1>5. \A i \in 1 .. D : stack[i].mark <= Top.mark
  <2>1. \A i \in 1 .. D - 1 : stack[i].mark <= stack[D].mark
    BY <1>4 DEF FrameHolds
  <2>2. QED
    BY <1>2, <1>3, <2>1
<1>6. Len(moveJournal) \in Nat /\ Top.mark \in 0 .. Len(moveJournal)
  BY <1>1, <1>2, <1>3 DEF Follows, TopHolds
<1>7. Good(past[Top.mark]) /\ Good(grid)
  BY <1>6 DEF Follows, History, Traces
<1>8. QED
  BY <1>2, <1>4, <1>5, <1>6, <1>7

(***************************************************************************)
(* The invariant and the properties of the runs.                           *)
(***************************************************************************)
\* The grid and the one the attempt began with are sound and within the limits.
LEMMA FetInvGood ==
  ASSUME FetInv
  PROVE  Good(grid) /\ Good(entry)
<1>1. PICK past : Follows(past)
  BY DEF FetInv
<1>2. Len(moveJournal) \in Nat
  BY DEF FetInv, FetTypes
<1>3. QED
  BY <1>1, <1>2 DEF Follows, History, Traces

\* The type of the state.
LEMMA FetInvType == FetInv => TypeOK
<1> SUFFICES ASSUME FetInv PROVE TypeOK
  OBVIOUS
<1>1. PICK past : Follows(past)
  BY DEF FetInv
<1>2. FetTypes
  BY DEF FetInv
<1>3. grid.place \in [Act -> Slots \cup {Unplaced}]
      /\ grid.cells \in [Resources -> [Slots -> Act \cup {Free, Off, FixedCell}]]
  BY FetInvGood, GridParts DEF Good, Sound, Places, Marks
<1>4. ASSUME NEW i \in DOMAIN stack
      PROVE  /\ stack[i].act \in Act /\ stack[i].mark \in 0 .. Len(moveJournal)
             /\ stack[i].at \in {"enter", "try", "wait"}
  <2>1. stack # <<>> /\ i \in 1 .. Len(stack)
    BY <1>2 DEF FetTypes
  <2>2. stack[i] \in Frames /\ stack[i].mark <= Top.mark /\ Top.mark \in 0 .. Len(moveJournal)
        /\ Len(moveJournal) \in Nat
    BY <1>1, <1>2, <2>1, StackFacts
  <2>3. stack[i].act \in Act /\ stack[i].mark \in Nat /\ stack[i].at \in {"enter", "try", "wait"}
    BY <2>2 DEF Frames
  <2>4. QED
    BY <2>2, <2>3
<1>5. QED
  BY <1>2, <1>3, <1>4 DEF TypeOK, FetTypes

\* The rows and the limits.
LEMMA FetInvGrid == FetInv => GridConsistent /\ LimitsHold
BY FetInvGood, SoundIsConsistent DEF Good, GridConsistent, LimitsHold

\* jrnRollback to a mark gives the grid the journal had at that length.
LEMMA HistoryRollsBack ==
  ASSUME FetTypes, NEW past, History(past), NEW m \in 0 .. Len(moveJournal)
  PROVE  RolledBack(grid, moveJournal, m) = past[m]
<1>1. Len(moveJournal) \in Nat
  BY DEF FetTypes
<1>2. RolledBack(past[Len(moveJournal)], moveJournal, m) = past[m]
  BY <1>1, RollbackFollows DEF History, Traces
<1>3. QED
  BY <1>2 DEF History, Traces

\* Exact rollback.
LEMMA FetInvRollback == FetInv => RollbackIsExact
<1> SUFFICES ASSUME FetInv, NEW i \in DOMAIN stack
             PROVE  RolledBack(grid, moveJournal, stack[i].mark).place = stack[i].before
  BY DEF RollbackIsExact
<1>1. PICK past : Follows(past)
  BY DEF FetInv
<1>2. FetTypes /\ TypeOK
  BY FetInvType DEF FetInv
<1>3. i \in 1 .. Len(stack)
  BY <1>2 DEF FetTypes
<1>4. stack[i].mark \in 0 .. Len(moveJournal)
  BY <1>2 DEF TypeOK
<1>5. RolledBack(grid, moveJournal, stack[i].mark) = past[stack[i].mark]
  BY <1>1, <1>2, <1>4, HistoryRollsBack DEF Follows
<1>6. QED
  BY <1>1, <1>3, <1>5 DEF Follows, FrameHolds

\* A frame that has not displaced anything sees the grid of its mark.
LEMMA TopSeesGrid ==
  ASSUME FetTypes, NEW past, Follows(past), stack # <<>>, Top.at # "wait"
  PROVE  past[Top.mark] = grid /\ Top.mark = Len(moveJournal) /\ result = "none"
BY DEF Follows, TopHolds, History, Traces

\* The list of a frame that tries its slots is fresh, because its mark is the end of the journal.
LEMMA FetInvCandidates == FetInv => CandidatesAreFresh
<1> SUFFICES ASSUME FetInv, Running("try"), NEW s \in DOMAIN Top.cands
             PROVE  /\ Possible(grid, Top.act, s, strict)
                    /\ Clashes(grid, Top.act, s) = Top.cands[s]
  BY DEF CandidatesAreFresh
<1>1. PICK past : Follows(past)
  BY DEF FetInv
<1>2. FetTypes /\ stack # <<>> /\ Top.at # "wait"
  BY DEF FetInv, Running
<1>3. past[Top.mark] = grid /\ Top = stack[Len(stack)]
      /\ FrameHolds(past, stack, todo, entry, strict, Len(stack))
  BY <1>1, <1>2, TopSeesGrid, StackFacts
<1>4. QED
  BY <1>3 DEF FrameHolds

\* With no frame left nothing is owed, so nothing that was placed is missing.
LEMMA FetInvLoss == FetInv => NothingLost
<1> SUFFICES ASSUME FetInv, stack = <<>>
             PROVE  Placed(entry) \subseteq Placed(grid) /\ (result = "failed" => grid = entry)
  BY DEF NothingLost
<1>1. PICK past : Follows(past)
  BY DEF FetInv
<1>2. Reached(grid, stack, todo, entry, 1)
  BY <1>1 DEF Follows, TopHolds
<1>3. \A x : ~ Owed(stack, x, 0, 1)
  BY DEF Owed
<1>4. QED
  BY <1>1, <1>2, <1>3 DEF Reached, Follows, TopHolds

(***************************************************************************)
(* The ways a step of randomSwap changes the stack: a frame returns, or    *)
(* the frame on top goes on.                                               *)
(***************************************************************************)
\* A sequence cut short, and its last element replaced.
LEMMA PrefixFacts ==
  ASSUME NEW S, NEW s \in Seq(S), NEW n \in 0 .. Len(s)
  PROVE  LET r == SubSeq(s, 1, n) IN
         r \in Seq(S) /\ Len(r) = n /\ \A k \in 1 .. n : r[k] = s[k]
<1>1. n \in Int /\ n >= 0 /\ \A i \in 1 .. n : s[i] \in S
  OBVIOUS
<1>2. QED
  BY <1>1, SubSeqProperties

\* A sequence with its last element replaced.
LEMMA LastReplaced ==
  ASSUME NEW S, NEW s \in Seq(S), Len(s) \in Nat \ {0}, NEW f \in S
  PROVE  LET r == [s EXCEPT ![Len(s)] = f] IN
         /\ r \in Seq(S) /\ Len(r) = Len(s) /\ r[Len(s)] = f
         /\ \A k \in 1 .. Len(s) - 1 : r[k] = s[k]
OBVIOUS

\* A return: the frames below are as they were, and the caller has the grid it needs.
LEMMA Popped ==
  ASSUME FetTypes, NEW past, Follows(past), stack # <<>>, UNCHANGED control,
         stack' = SubSeq(stack, 1, Len(stack) - 1), result' \in {"placed", "failed"},
         moveJournal' \in Seq(Entries), swapped' \subseteq Act,
         Top.mark <= Len(moveJournal'),
         NEW past2, History(past2)', \A n \in 0 .. Top.mark : past2[n] = past[n],
         Reached(grid', stack, todo, entry, Len(stack)),
         result' = "placed" => Top.act \in Placed(grid'),
         Len(stack) = 1 /\ result' = "failed" => grid' = entry
  PROVE  FetInv'
<1> DEFINE D == Len(stack)
<1>0. /\ D \in Nat \ {0} /\ Top = stack[D] /\ stack \in Seq(Frames)
      /\ \A i \in 1 .. D : stack[i] \in Frames /\ stack[i].mark <= Top.mark
      /\ Top.mark \in Nat /\ Len(moveJournal') \in Nat
      /\ FrameHolds(past, stack, todo, entry, strict, D)
  <2>1. Top \in Frames
    BY StackFacts
  <2>2. QED
    BY <2>1, StackFacts DEF FetTypes, Frames
<1>1. /\ stack' \in Seq(Frames) /\ Len(stack') = D - 1
      /\ \A k \in 1 .. D - 1 : stack'[k] = stack[k]
  <2>1. D - 1 \in 0 .. D
    BY <1>0
  <2>2. QED
    BY <1>0, <2>1, PrefixFacts
<1>2. FetTypes'
  BY <1>1 DEF FetTypes, control
<1>3. todo' = todo /\ entry' = entry /\ strict' = strict
  BY DEF control
<1>4. \A i \in 1 .. D - 1 : FrameHolds(past2, stack', todo', entry', strict', i)
  <2>1. \A i \in 1 .. D : stack[i].mark \in 0 .. Top.mark
    BY <1>0 DEF Frames
  <2>2. \A i \in 1 .. D : FrameHolds(past, stack, todo, entry, strict, i)
    BY DEF Follows
  <2> DEFINE st2 == stack'
  <2>3. D \in Nat \ {0} /\ \A k \in 1 .. D - 1 : st2[k] = stack[k]
    BY <1>0, <1>1 DEF st2
  <2>4. \A i \in 1 .. D : past2[stack[i].mark] = past[stack[i].mark]
    BY <2>1
  <2> HIDE DEF D, st2
  <2>5. ASSUME NEW i \in 1 .. D - 1 PROVE FrameHolds(past2, st2, todo, entry, strict, i)
    <3>1. i \in Nat \ {0} /\ i \in 1 .. D /\ \A k \in 1 .. i : k \in 1 .. D - 1
      BY <2>3
    <3>2. FrameHolds(past, stack, todo, entry, strict, i)
      BY <2>2, <3>1
    <3>3. past2[stack[i].mark] = past[stack[i].mark] /\ \A k \in 1 .. i : st2[k] = stack[k]
      BY <2>3, <2>4, <3>1
    <3>4. QED
      BY <3>1, <3>2, <3>3, FrameSame
  <2>6. QED
    BY <1>3, <2>5 DEF st2
<1>5. Reached(grid', stack', todo', entry', Len(stack') + 1)
  <2>1. Reached(grid', stack', todo, entry, D)
    BY <1>0, <1>1, ReachedSame
  <2>2. Len(stack') + 1 = D
    BY <1>0, <1>1
  <2>3. QED
    BY <1>3, <2>1, <2>2
<1>6. TopHolds'
  <2>1. CASE D = 1
    <3>1. stack' = <<>>
      BY <1>0, <1>1, <2>1
    <3>2. result' = "failed" => grid' = entry'
      BY <1>3, <2>1
    <3>3. QED
      BY <1>5, <3>1, <3>2 DEF TopHolds
  <2>2. CASE D # 1
    <3>1. D - 1 \in 1 .. D - 1 /\ D - 1 \in 1 .. D /\ D > 1
      <4>1. D \in Nat \ {0}
        BY <1>0
      <4> HIDE DEF D
      <4>2. QED
        BY <2>2, <4>1
    <3>2. stack' # <<>> /\ Top' = stack[D - 1]
      <4>1. Top' = stack'[D - 1] /\ Len(stack') # 0
        BY <1>1, <3>1 DEF Top
      <4>2. QED
        BY <1>1, <3>1, <4>1
    <3>3. stack[D - 1].at = "wait" /\ stack[D - 1].child = Top.act
      BY <1>0, <3>1 DEF FrameHolds
    <3>4. stack[D - 1].mark <= Len(moveJournal')
      <4>1. stack[D - 1].mark <= Top.mark /\ stack[D - 1].mark \in Nat
        BY <1>0, <3>1 DEF Frames
      <4>2. QED
        BY <1>0, <4>1
    <3>5. result' # "none"
      OBVIOUS
    <3>6. (Top.mark <= Len(moveJournal))'
      BY <3>2, <3>4
    <3>7. (Top.at)' = "wait" /\ (Top.child)' = Top.act
      BY <3>2, <3>3
    <3>8. QED
      BY <1>5, <3>2, <3>5, <3>6, <3>7 DEF TopHolds
  <2>3. QED
    BY <2>1, <2>2
<1>7. Follows(past2)'
  BY <1>1, <1>4, <1>6 DEF Follows
<1>8. QED
  BY <1>2, <1>7 DEF FetInv

\* The frame on top goes on at the same mark with the same activity.
LEMMA Replaced ==
  ASSUME FetTypes, NEW past, Follows(past), stack # <<>>, UNCHANGED control,
         NEW f \in Frames, stack' = [stack EXCEPT ![Len(stack)] = f], result' = "none",
         f.act = Top.act, f.mark = Top.mark, f.before = Top.before,
         moveJournal' \in Seq(Entries), swapped' \subseteq Act,
         Top.mark <= Len(moveJournal'),
         NEW past2, History(past2)', \A n \in 0 .. Top.mark : past2[n] = past[n],
         \A s \in DOMAIN f.cands : /\ Possible(past[Top.mark], Top.act, s, strict)
                                   /\ Clashes(past[Top.mark], Top.act, s) = f.cands[s],
         \A x \in f.waiting, k \in 0 .. Len(stack) - 1 : x \notin Pending(stack, todo, k),
         f.at # "wait" => f.waiting = {} /\ f.mark = Len(moveJournal'),
         f.at = "wait" => /\ \A x \in f.waiting : x \notin Placed(grid')
                          /\ Reached(grid', stack', todo, entry, Len(stack) + 1)
  PROVE  FetInv'
<1> DEFINE D == Len(stack)
<1>0. /\ D \in Nat \ {0} /\ Top = stack[D] /\ stack \in Seq(Frames)
      /\ \A i \in 1 .. D : stack[i] \in Frames /\ stack[i].mark <= Top.mark
      /\ Top.mark \in Nat /\ Len(moveJournal') \in Nat
      /\ FrameHolds(past, stack, todo, entry, strict, D)
  <2>1. Top \in Frames
    BY StackFacts
  <2>2. QED
    BY <2>1, StackFacts DEF FetTypes, Frames
<1>1. /\ stack' \in Seq(Frames) /\ Len(stack') = D /\ stack' # <<>> /\ Top' = f
      /\ stack'[D] = f
      /\ \A k \in 1 .. D - 1 : stack'[k] = stack[k]
  BY <1>0, LastReplaced DEF Top
<1>2. FetTypes'
  BY <1>1 DEF FetTypes, control
<1>3. todo' = todo /\ entry' = entry /\ strict' = strict
  BY DEF control
<1>4. \A i \in 1 .. D - 1 : FrameHolds(past2, stack', todo', entry', strict', i)
  <2>1. \A i \in 1 .. D : stack[i].mark \in 0 .. Top.mark
    BY <1>0 DEF Frames
  <2>2. \A i \in 1 .. D : FrameHolds(past, stack, todo, entry, strict, i)
    BY DEF Follows
  <2>3. D \in Nat \ {0} /\ \A k \in 1 .. D - 1 : stack'[k] = stack[k]
    BY <1>0, <1>1
  <2>4. \A i \in 1 .. D : past2[stack[i].mark] = past[stack[i].mark]
    BY <2>1
  <2> HIDE DEF D
  <2>5. ASSUME NEW i \in 1 .. D - 1 PROVE FrameHolds(past2, stack', todo, entry, strict, i)
    <3>1. i \in Nat \ {0} /\ i \in 1 .. D /\ \A k \in 1 .. i : k \in 1 .. D - 1
      BY <2>3
    <3>2. FrameHolds(past, stack, todo, entry, strict, i)
      BY <2>2, <3>1
    <3>3. past2[stack[i].mark] = past[stack[i].mark] /\ \A k \in 1 .. i : stack'[k] = stack[k]
      BY <2>3, <2>4, <3>1
    <3>4. QED
      BY <3>1, <3>2, <3>3, FrameSame
  <2>6. QED
    BY <1>3, <2>5
<1>5. FrameHolds(past2, stack', todo', entry', strict', D)
  <2>1. past2[f.mark] = past[Top.mark]
    BY <1>0
  <2>2. ASSUME NEW k \in 0 .. D - 1 PROVE Pending(stack', todo, k) = Pending(stack, todo, k)
    <3>1. k # 0 => k \in 1 .. D - 1
      BY <1>0
    <3>2. k # 0 => stack'[k] = stack[k]
      BY <1>1, <3>1
    <3>3. QED
      BY <3>2 DEF Pending
  <2>3. Reached(past2[f.mark], stack', todo, entry, D)
    <3>1. Reached(past[Top.mark], stack, todo, entry, D)
      BY <1>0 DEF FrameHolds
    <3>2. QED
      BY <1>0, <1>1, <2>1, <3>1, ReachedSame
  <2>4. /\ past2[f.mark].place = f.before
        /\ f.before[f.act] = Unplaced
        /\ \A s \in DOMAIN f.cands :
              /\ Possible(past2[f.mark], f.act, s, strict)
              /\ Clashes(past2[f.mark], f.act, s) = f.cands[s]
        /\ f.at # "wait" => f.waiting = {}
        /\ D = 1 => f.mark = 0
    BY <1>0, <2>1 DEF FrameHolds
  <2>5. \A k \in 0 .. D - 1 :
           f.act \notin Pending(stack', todo, k) /\ \A x \in f.waiting : x \notin Pending(stack', todo, k)
    BY <1>0, <2>2 DEF FrameHolds
  <2>6. /\ \A k \in 1 .. D - 1 : stack'[k].mark <= f.mark
        /\ D > 1 => stack'[D - 1].at = "wait" /\ stack'[D - 1].child = f.act
    <3>1. D > 1 => D - 1 \in 1 .. D - 1
      BY <1>0
    <3>2. D > 1 => stack'[D - 1] = stack[D - 1]
      BY <1>1, <3>1
    <3>3. QED
      BY <1>0, <1>1, <3>2 DEF FrameHolds
  <2>7. QED
    BY <1>1, <1>3, <2>3, <2>4, <2>5, <2>6 DEF FrameHolds
<1>6. TopHolds'
  <2>1. f.mark <= Len(moveJournal')
    OBVIOUS
  <2>2. f.at = "wait" => Reached(grid', stack', todo', entry', Len(stack') + 1)
    BY <1>1, <1>3
  <2>3. QED
    BY <1>1, <2>1, <2>2 DEF TopHolds
<1>7. Follows(past2)'
  <2>1. \A i \in 1 .. D : i = D \/ i \in 1 .. D - 1
    BY <1>0
  <2>2. \A i \in 1 .. Len(stack') : FrameHolds(past2, stack', todo', entry', strict', i)
    BY <1>1, <1>4, <1>5, <2>1
  <2>3. QED
    BY <1>6, <2>2 DEF Follows
<1>8. QED
  BY <1>2, <1>7 DEF FetInv

(***************************************************************************)
(* What a step does to the history.                                        *)
(***************************************************************************)
\* A history cut short is a history.
LEMMA TraceCut ==
  ASSUME NEW past, NEW J \in Seq(Entries), NEW en, NEW g, Traces(past, J, en, g),
         NEW m \in 0 .. Len(J)
  PROVE  Traces(past, SubSeq(J, 1, m), en, past[m])
<1> DEFINE r == SubSeq(J, 1, m)
<1>1. Len(J) \in Nat /\ m \in Nat /\ m <= Len(J)
  OBVIOUS
<1>2. Len(r) = m /\ \A k \in 1 .. m : r[k] = J[k]
  BY PrefixFacts
<1> HIDE DEF r
<1>3. /\ \A n \in 0 .. m : n \in 0 .. Len(J)
      /\ \A n \in 1 .. m : n \in 1 .. Len(J)
  BY <1>1
<1>4. QED
  BY <1>2, <1>3 DEF Traces, r

\* A history that q continues.
LEMMA TraceGrows ==
  ASSUME NEW past, NEW J \in Seq(Entries), NEW en, NEW g, Traces(past, J, en, g),
         NEW q \in Seq(Entries), NEW mid, NEW h, Traces(mid, q, g, h)
  PROVE  \E past2 : /\ Traces(past2, J \o q, en, h)
                    /\ \A n \in 0 .. Len(J) : past2[n] = past[n]
<1> DEFINE N == Len(J)
           L == Len(q)
           K == J \o q
           past2 == [n \in 0 .. N + L |-> IF n <= N THEN past[n] ELSE mid[n - N]]
<1>1. N \in Nat /\ L \in Nat
  OBVIOUS
<1>0. /\ mid[0] = g /\ mid[L] = h
      /\ \A j \in 0 .. L : Good(mid[j])
      /\ \A j \in 1 .. L : Undone(mid[j], q[j]) = mid[j - 1]
  BY DEF Traces
<1>2. Len(K) = N + L /\ \A i \in 1 .. N + L : K[i] = IF i <= N THEN J[i] ELSE q[i - N]
  BY ConcatProperties
<1>3. \A n \in 0 .. N : past2[n] = past[n]
  BY <1>1
<1>4. ASSUME NEW n \in N .. N + L PROVE past2[n] = mid[n - N] /\ n - N \in 0 .. L
  <2>1. CASE n = N
    <3>1. past2[N] = past[N] /\ N - N = 0
      BY <1>1
    <3>2. QED
      BY <1>0, <1>1, <2>1, <3>1 DEF Traces
  <2>2. CASE n # N
    BY <1>1, <2>2
  <2>3. QED
    BY <2>1, <2>2
<1> HIDE DEF past2, K
<1>5. ASSUME NEW n \in 0 .. N + L PROVE Good(past2[n])
  <2>1. CASE n <= N
    <3>1. n \in 0 .. N
      BY <1>1, <2>1
    <3>2. QED
      BY <1>3, <3>1 DEF Traces
  <2>2. CASE ~ (n <= N)
    <3>1. n \in N .. N + L
      BY <1>1, <2>2
    <3>2. QED
      BY <1>0, <1>4, <3>1
  <2>3. QED
    BY <2>1, <2>2
<1>6. ASSUME NEW n \in 1 .. N + L PROVE Undone(past2[n], K[n]) = past2[n - 1]
  <2>1. CASE n <= N
    <3>1. n \in 0 .. N /\ n - 1 \in 0 .. N /\ n \in 1 .. N
      BY <1>1, <2>1
    <3>2. K[n] = J[n] /\ past2[n] = past[n] /\ past2[n - 1] = past[n - 1]
      BY <1>2, <1>3, <2>1, <3>1
    <3>3. QED
      BY <3>1, <3>2 DEF Traces
  <2>2. CASE ~ (n <= N)
    <3>1. n \in N .. N + L /\ n - 1 \in N .. N + L /\ n - N \in 1 .. L /\ (n - 1) - N = (n - N) - 1
      BY <1>1, <2>2
    <3>2. K[n] = q[n - N] /\ past2[n] = mid[n - N] /\ past2[n - 1] = mid[(n - N) - 1]
      BY <1>2, <1>4, <2>2, <3>1
    <3>3. QED
      BY <1>0, <3>1, <3>2
  <2>3. QED
    BY <2>1, <2>2
<1>7. past2[0] = en /\ past2[N + L] = h
  <2>1. 0 \in 0 .. N /\ N + L \in N .. N + L /\ (N + L) - N = L
    BY <1>1
  <2>2. past2[0] = past[0] /\ past2[N + L] = mid[L]
    BY <1>3, <1>4, <2>1
  <2>3. QED
    BY <1>0, <2>2 DEF Traces
<1>8. Traces(past2, K, en, h)
  BY <1>2, <1>5, <1>6, <1>7 DEF Traces
<1>9. QED
  BY <1>3, <1>8 DEF K

\* One entry: e leads from g to h.
LEMMA TraceStep ==
  ASSUME NEW past, NEW J \in Seq(Entries), NEW en, NEW g, Traces(past, J, en, g),
         NEW e \in Entries, NEW h, Good(h), Undone(h, e) = g
  PROVE  \E past2 : /\ Traces(past2, J \o <<e>>, en, h)
                    /\ \A n \in 0 .. Len(J) : past2[n] = past[n]
<1> DEFINE q == <<e>>
           mid == [j \in 0 .. 1 |-> IF j = 0 THEN g ELSE h]
<1>1. q \in Seq(Entries) /\ Len(q) = 1 /\ q[1] = e
  OBVIOUS
<1>2. mid[0] = g /\ mid[1] = h
  OBVIOUS
<1>3. Good(g)
  BY DEF Traces
<1>4. \A j \in 0 .. 1 : Good(mid[j])
  BY <1>2, <1>3
<1>5. \A j \in 1 .. 1 : Undone(mid[j], q[j]) = mid[j - 1]
  BY <1>1, <1>2
<1> HIDE DEF mid, q
<1>6. Traces(mid, q, g, h)
  BY <1>1, <1>2, <1>4, <1>5 DEF Traces
<1>7. \E past2 : Traces(past2, J \o q, en, h) /\ \A n \in 0 .. Len(J) : past2[n] = past[n]
  BY <1>1, <1>6, TraceGrows
<1>8. QED
  BY <1>7 DEF q

\* A block set down, as the journal and the placements see it.
LEMMA Settled ==
  ASSUME NEW g, Good(g), NEW a \in Act, g.place[a] = Unplaced, NEW s \in Slots, NEW b,
         Possible(g, a, s, b)
  PROVE  LET S == Clashes(g, a, s)
             h == Lifted(g, S)
             k == Put(h, a, s)
         IN  /\ S \in SUBSET Act /\ S \subseteq Placed(g) /\ Good(h) /\ Good(k)
             /\ Did("P", a, s) \in Entries /\ Undone(k, Did("P", a, s)) = h
             /\ Placed(k) = (Placed(g) \ S) \cup {a}
<1> DEFINE S == Clashes(g, a, s)
           h == Lifted(g, S)
           k == Put(h, a, s)
           e == Did("P", a, s)
<1>1. Sound(g) /\ S \subseteq Placed(g) \ {a} /\ Fits(h, a, s)
  BY PossibleFits DEF Good
<1>2. S \in SUBSET Act
  BY <1>1 DEF Placed
<1>3. Good(h) /\ Good(k)
  BY <1>2, LiftedIsGood, SettleIsGood
<1>4. Placed(h) = Placed(g) \ S /\ \A x \in Act : h.place[x] = IF x \in S THEN Unplaced ELSE g.place[x]
  BY <1>1, <1>2, LiftedIsSound
<1>5. h.place[a] = Unplaced
  BY <1>4
<1> HIDE DEF h
<1>6. Sound(h)
  BY <1>3 DEF Good
<1>7. Placed(k) = Placed(h) \cup {a} /\ \A x \in Act : k.place[x] = IF x = a THEN s ELSE h.place[x]
  BY <1>1, <1>5, <1>6, PutIsSound
<1>8. Take(k, a) = h
  BY <1>1, <1>5, <1>6, TakeBack
<1>9. k.place[a] = s
  BY <1>7
<1>10. e.op = "P" /\ e.act = a /\ e.slot = s /\ e \in Entries
  BY DEF Did, Entries
<1> HIDE DEF k, e
<1>11. Undone(k, e) = h
  BY <1>8, <1>9, <1>10, UndoneIs
<1>12. QED
  BY <1>1, <1>2, <1>3, <1>4, <1>7, <1>10, <1>11 DEF h, k, e

(***************************************************************************)
(* The steps of randomSwap.                                                *)
(***************************************************************************)
\* What is true when the frame on top is about to act on its slots.
LEMMA TopReady ==
  ASSUME FetTypes, NEW past, Follows(past), stack # <<>>, Top.at # "wait"
  PROVE  /\ Top \in Frames /\ Top.act \in Act /\ Good(grid) /\ grid.place[Top.act] = Unplaced
         /\ past[Top.mark] = grid /\ Top.mark = Len(moveJournal) /\ result = "none"
         /\ Reached(grid, stack, todo, entry, Len(stack))
         /\ Len(stack) = 1 => grid = entry
<1>1. /\ past[Top.mark] = grid /\ Top.mark = Len(moveJournal) /\ result = "none"
  BY TopSeesGrid
<1>2. /\ Top \in Frames /\ Top = stack[Len(stack)] /\ Good(grid)
      /\ FrameHolds(past, stack, todo, entry, strict, Len(stack))
  BY StackFacts
<1>3. Top.act \in Act
  BY <1>2 DEF Frames
<1>4. grid.place[Top.act] = Unplaced /\ Reached(grid, stack, todo, entry, Len(stack))
  BY <1>1, <1>2 DEF FrameHolds
<1>5. Len(stack) = 1 => Top.mark = 0
  BY <1>2 DEF FrameHolds
<1>6. past[0] = entry
  BY DEF Follows, History, Traces
<1>7. QED
  BY <1>1, <1>2, <1>3, <1>4, <1>5, <1>6

\* A call that gives up before it displaced anything.
LEMMA FailedFrame ==
  ASSUME FetInv, stack # <<>>, Top.at # "wait", Return("failed"), UNCHANGED <<search, control>>
  PROVE  FetInv'
<1>1. PICK past : Follows(past)
  BY DEF FetInv
<1>2. FetTypes
  BY DEF FetInv
<1>3. /\ Top.mark = Len(moveJournal) /\ Reached(grid, stack, todo, entry, Len(stack))
      /\ Len(stack) = 1 => grid = entry
  BY <1>1, <1>2, TopReady
<1>4. /\ grid' = grid /\ moveJournal' = moveJournal /\ swapped' = swapped /\ entry' = entry
      /\ UNCHANGED control
  BY DEF search, control
<1>5. History(past)'
  BY <1>1, <1>4 DEF Follows, History
<1>6. /\ stack' = SubSeq(stack, 1, Len(stack) - 1) /\ result' = "failed"
      /\ moveJournal' \in Seq(Entries) /\ swapped' \subseteq Act /\ Top.mark <= Len(moveJournal')
  BY <1>2, <1>3, <1>4 DEF Return, FetTypes
<1>7. Reached(grid', stack, todo, entry, Len(stack)) /\ (Len(stack) = 1 => grid' = entry)
  BY <1>3, <1>4
<1>8. \A n \in 0 .. Top.mark : past[n] = past[n]
  OBVIOUS
<1>9. QED
  BY <1>1, <1>2, <1>4, <1>5, <1>6, <1>7, <1>8, Popped

\* What is owed below D + 1 is owed below D or waits in frame D.
LEMMA OwedSplit ==
  ASSUME NEW st, NEW st2, NEW x, NEW D \in Nat \ {0}, NEW k \in 0 .. D,
         \A j \in 1 .. D - 1 : st2[j] = st[j]
  PROVE  Owed(st2, x, k, D + 1) <=> Owed(st, x, k, D) \/ (k < D /\ x \in st2[D].waiting)
<1>1. ASSUME Owed(st2, x, k, D + 1) PROVE Owed(st, x, k, D) \/ (k < D /\ x \in st2[D].waiting)
  <2>1. PICK j \in k + 1 .. (D + 1) - 1 : x \in st2[j].waiting
    BY <1>1 DEF Owed
  <2>2. CASE j = D
    BY <2>1, <2>2
  <2>3. CASE j # D
    <3>1. j \in k + 1 .. D - 1 /\ j \in 1 .. D - 1
      BY <2>3
    <3>2. QED
      BY <2>1, <3>1 DEF Owed
  <2>4. QED
    BY <2>2, <2>3
<1>2. ASSUME Owed(st, x, k, D) PROVE Owed(st2, x, k, D + 1)
  <2>1. PICK j \in k + 1 .. D - 1 : x \in st[j].waiting
    BY <1>2 DEF Owed
  <2>2. j \in k + 1 .. (D + 1) - 1 /\ j \in 1 .. D - 1
    OBVIOUS
  <2>3. QED
    BY <2>1, <2>2 DEF Owed
<1>3. ASSUME k < D, x \in st2[D].waiting PROVE Owed(st2, x, k, D + 1)
  <2>1. D \in k + 1 .. (D + 1) - 1
    BY <1>3
  <2>2. QED
    BY <1>3, <2>1 DEF Owed
<1>4. QED
  BY <1>1, <1>2, <1>3

\* The grid above frame D, when only that frame of the stack is new.
LEMMA ReachedTop ==
  ASSUME NEW st, NEW st2, NEW h, NEW td, NEW en, NEW D \in Nat \ {0},
         \A j \in 1 .. D - 1 : st2[j] = st[j],
         \A x \in Placed(en) : x \in Placed(h) \/ Owed(st, x, 0, D) \/ x \in st2[D].waiting,
         \A k \in 1 .. D - 1 : \/ st[k].act \in Placed(h) \/ Owed(st, st[k].act, k, D)
                               \/ st[k].act \in st2[D].waiting,
         st2[D].act \in Placed(h),
         \A k \in 0 .. D - 1, x \in Act : x \in Pending(st, td, k) => x \notin Placed(h),
         \A x \in Act : x \in st2[D].waiting /\ x # st2[D].child => x \notin Placed(h)
  PROVE  Reached(h, st2, td, en, D + 1)
<1>1. ASSUME NEW x \in Placed(en) PROVE x \in Placed(h) \/ Owed(st2, x, 0, D + 1)
  <2>1. 0 \in 0 .. D /\ 0 < D
    OBVIOUS
  <2>2. Owed(st2, x, 0, D + 1) <=> Owed(st, x, 0, D) \/ (0 < D /\ x \in st2[D].waiting)
    BY <2>1, OwedSplit
  <2>3. QED
    BY <2>1, <2>2
<1>2. ASSUME NEW k \in 1 .. D PROVE st2[k].act \in Placed(h) \/ Owed(st2, st2[k].act, k, D + 1)
  <2>1. CASE k = D
    BY <2>1
  <2>2. CASE k # D
    <3>1. k \in 1 .. D - 1 /\ k \in 0 .. D /\ k < D
      BY <2>2
    <3>2. Owed(st2, st2[k].act, k, D + 1)
            <=> Owed(st, st2[k].act, k, D) \/ (k < D /\ st2[k].act \in st2[D].waiting)
      BY <3>1, OwedSplit
    <3>3. QED
      BY <3>1, <3>2
  <2>3. QED
    BY <2>1, <2>2
<1>3. ASSUME NEW k \in 0 .. D, NEW x \in Act, x \in Pending(st2, td, k) PROVE x \notin Placed(h)
  <2>1. CASE k = D
    BY <1>3, <2>1 DEF Pending
  <2>2. CASE k # D
    <3>1. k \in 0 .. D - 1 /\ (k # 0 => k \in 1 .. D - 1)
      BY <2>2
    <3>2. Pending(st2, td, k) = Pending(st, td, k)
      BY <3>1 DEF Pending
    <3>3. QED
      BY <1>3, <3>1, <3>2
  <2>3. QED
    BY <2>1, <2>2
<1>4. (D + 1) - 1 = D
  OBVIOUS
<1>5. QED
  BY <1>1, <1>2, <1>3, <1>4 DEF Reached

\* The level, the budget or the deadline ends a call.
LEMMA GiveUpKeeps == FetInv /\ GiveUp => FetInv'
BY FailedFrame DEF GiveUp, Running

\* Every slot of the list has been tried.
LEMMA NoCandidateKeeps == FetInv /\ NoCandidate => FetInv'
BY FailedFrame DEF NoCandidate, Running

\* A free slot is found: the journal grows by one placement, and the call returns.
LEMMA PlaceFreeKeeps == FetInv /\ PlaceFree => FetInv'
<1> SUFFICES ASSUME FetInv, PlaceFree PROVE FetInv'
  OBVIOUS
<1>1. PICK past : Follows(past)
  BY DEF FetInv
<1>2. FetTypes /\ stack # <<>> /\ Top.at # "wait" /\ Return("placed") /\ UNCHANGED <<swapped, control>>
  BY DEF FetInv, PlaceFree, Running
<1>3. PICK s \in Considered(Top) :
        /\ Clashes(grid, Top.act, s) = {} /\ grid' = Put(grid, Top.act, s)
        /\ moveJournal' = Append(moveJournal, Did("P", Top.act, s))
  BY DEF PlaceFree
<1>4. /\ Top \in Frames /\ Top.act \in Act /\ Good(grid) /\ grid.place[Top.act] = Unplaced
      /\ past[Top.mark] = grid /\ Top.mark = Len(moveJournal)
      /\ Reached(grid, stack, todo, entry, Len(stack))
  BY <1>1, <1>2, TopReady
<1>5. s \in Slots /\ Possible(grid, Top.act, s, strict)
  BY <1>4 DEF Considered, Frames
<1> DEFINE e == Did("P", Top.act, s)
<1>6. Lifted(grid, Clashes(grid, Top.act, s)) = grid
  BY <1>3, <1>4, LiftedNothing DEF Good
<1>7. Good(grid') /\ e \in Entries /\ Undone(grid', e) = grid /\ Placed(grid') = Placed(grid) \cup {Top.act}
  <2> DEFINE h == Lifted(grid, Clashes(grid, Top.act, s))
             k == Put(h, Top.act, s)
  <2>1. /\ Good(k) /\ e \in Entries /\ Undone(k, e) = h
        /\ Placed(k) = (Placed(grid) \ Clashes(grid, Top.act, s)) \cup {Top.act}
    BY <1>4, <1>5, Settled
  <2>2. h = grid /\ k = grid'
    BY <1>3, <1>6
  <2> HIDE DEF h, k, e
  <2>3. QED
    BY <1>3, <2>1, <2>2
<1>8. /\ moveJournal \in Seq(Entries) /\ moveJournal' = moveJournal \o <<e>>
      /\ moveJournal' \in Seq(Entries)
      /\ Len(moveJournal') = Len(moveJournal) + 1 /\ Len(moveJournal) \in Nat
  <2>1. moveJournal \in Seq(Entries) /\ moveJournal' = Append(moveJournal, e) /\ e \in Entries
    BY <1>2, <1>3, <1>7 DEF FetTypes
  <2> HIDE DEF e
  <2>2. QED
    BY <2>1, AppendProperties, AppendIsConcat
<1> HIDE DEF e
<1>9. PICK past2 : /\ Traces(past2, moveJournal', entry, grid')
                   /\ \A n \in 0 .. Len(moveJournal) : past2[n] = past[n]
  BY <1>1, <1>7, <1>8, TraceStep DEF Follows, History
<1>10. entry' = entry /\ UNCHANGED control
  BY <1>2 DEF control
<1>11. History(past2)'
  BY <1>9, <1>10 DEF History
<1>12. Reached(grid', stack, todo, entry, Len(stack))
  <2>1. \A k \in 0 .. Len(stack) - 1 : Top.act \notin Pending(stack, todo, k)
    BY <1>1, <1>2, StackFacts DEF FrameHolds
  <2>2. \A x \in Placed(grid) : x \in Placed(grid')
    BY <1>7
  <2>3. \A k \in 0 .. Len(stack) - 1, x \in Act : x \in Pending(stack, todo, k) => x \notin Placed(grid')
    BY <1>4, <1>7, <2>1 DEF Reached
  <2>4. QED
    BY <1>4, <2>2, <2>3 DEF Reached
<1>13. Top.act \in Placed(grid')
  BY <1>7
<1>14. /\ stack' = SubSeq(stack, 1, Len(stack) - 1) /\ result' = "placed" /\ swapped' \subseteq Act
       /\ Top.mark <= Len(moveJournal') /\ \A n \in 0 .. Top.mark : past2[n] = past[n]
  <2>1. stack' = SubSeq(stack, 1, Len(stack) - 1) /\ result' = "placed" /\ swapped' \subseteq Act
    BY <1>2 DEF Return, FetTypes
  <2>2. Top.mark <= Len(moveJournal')
    BY <1>4, <1>8
  <2>3. QED
    BY <1>4, <1>9, <2>1, <2>2
<1>15. QED
  BY <1>1, <1>2, <1>8, <1>10, <1>11, <1>12, <1>13, <1>14, Popped

\* The list of slots and occupants is made from the grid the frame began with.
LEMMA EvaluateKeeps == FetInv /\ Evaluate => FetInv'
<1> SUFFICES ASSUME FetInv, Evaluate PROVE FetInv'
  OBVIOUS
<1>1. PICK past : Follows(past)
  BY DEF FetInv
<1>2. /\ FetTypes /\ stack # <<>> /\ Top.at = "enter" /\ result = "none"
      /\ UNCHANGED <<search, result, control>>
  BY DEF FetInv, Evaluate, Running
<1>3. /\ Top \in Frames /\ Top.act \in Act /\ past[Top.mark] = grid /\ Top.mark = Len(moveJournal)
      /\ FrameHolds(past, stack, todo, entry, strict, Len(stack)) /\ Top = stack[Len(stack)]
  BY <1>1, <1>2, TopReady, StackFacts
<1> DEFINE L == [s \in Considered(Top) |-> Clashes(grid, Top.act, s)]
           f == [Top EXCEPT !.at = "try", !.mark = Len(moveJournal), !.cands = L]
<1>4. stack' = [stack EXCEPT ![Len(stack)] = f]
  BY DEF Evaluate, SetTop
<1>5. Considered(Top) \in SUBSET Slots /\ L \in [Considered(Top) -> SUBSET Act]
  BY <1>3 DEF Considered, Frames, Clashes
<1>6. L \in UNION {[T -> SUBSET Act] : T \in SUBSET Slots}
  <2> HIDE DEF L
  <2>1. QED
    BY <1>5
<1>7. \A s \in DOMAIN L : Possible(grid, Top.act, s, strict) /\ Clashes(grid, Top.act, s) = L[s]
  BY DEF Considered
<1> HIDE DEF L
<1>8. Len(moveJournal) \in Nat
  BY <1>2 DEF FetTypes
<1>9. /\ f \in Frames /\ f.act = Top.act /\ f.mark = Top.mark /\ f.before = Top.before
      /\ f.cands = L /\ f.at = "try" /\ f.waiting = Top.waiting
  BY <1>3, <1>6, <1>8 DEF Frames
<1>10. f.waiting = {}
  BY <1>2, <1>3, <1>9 DEF FrameHolds
<1> HIDE DEF f
<1>11. /\ grid' = grid /\ moveJournal' = moveJournal /\ swapped' = swapped /\ entry' = entry
       /\ UNCHANGED control /\ result' = "none"
  BY <1>2 DEF search, control
<1>12. History(past)'
  BY <1>1, <1>11 DEF Follows, History
<1>13. moveJournal' \in Seq(Entries) /\ swapped' \subseteq Act /\ Top.mark <= Len(moveJournal')
       /\ f.mark = Len(moveJournal')
  BY <1>2, <1>3, <1>8, <1>9, <1>11 DEF FetTypes
<1>14. QED
  BY <1>1, <1>2, <1>3, <1>4, <1>7, <1>9, <1>10, <1>11, <1>12, <1>13, Replaced

\* The occupants of a slot leave and the activity takes it: the occupants are owed from now on.
LEMMA DisplaceKeeps == FetInv /\ Displace => FetInv'
<1> SUFFICES ASSUME FetInv, Displace PROVE FetInv'
  OBVIOUS
<1>1. PICK past : Follows(past)
  BY DEF FetInv
<1>2. /\ FetTypes /\ stack # <<>> /\ Top.at = "try" /\ result = "none"
      /\ UNCHANGED <<result, control>>
  BY DEF FetInv, Displace, Running
<1>3. PICK s \in Acyclic(Top) :
        /\ grid' = Put(Displaced(grid, Removals(Top.cands[s])), Top.act, s)
        /\ moveJournal' = moveJournal \o Removals(Top.cands[s]) \o <<Did("P", Top.act, s)>>
        /\ swapped' = swapped \cup Top.cands[s]
        /\ SetTop([Top EXCEPT !.at = "wait", !.slot = s, !.moved = Top.cands[s],
                              !.waiting = Top.cands[s]])
  BY DEF Displace
<1>4. /\ Top \in Frames /\ Top.act \in Act /\ Good(grid) /\ grid.place[Top.act] = Unplaced
      /\ past[Top.mark] = grid /\ Top.mark = Len(moveJournal)
      /\ Reached(grid, stack, todo, entry, Len(stack))
      /\ FrameHolds(past, stack, todo, entry, strict, Len(stack)) /\ Top = stack[Len(stack)]
      /\ Len(stack) \in Nat \ {0}
  BY <1>1, <1>2, TopReady, StackFacts
<1>5. \A t \in DOMAIN Top.cands : /\ Possible(grid, Top.act, t, strict)
                                  /\ Clashes(grid, Top.act, t) = Top.cands[t]
  BY <1>4 DEF FrameHolds
<1> DEFINE S == Top.cands[s]
           q == Removals(S)
           e == Did("P", Top.act, s)
           f == [Top EXCEPT !.at = "wait", !.slot = s, !.moved = S, !.waiting = S]
           D == Len(stack)
<1>6. s \in DOMAIN Top.cands /\ s \in Slots
  <2>1. PICK T \in SUBSET Slots : Top.cands \in [T -> SUBSET Act]
    BY <1>4 DEF Frames
  <2>2. QED
    BY <2>1 DEF Acyclic
<1>7. Possible(grid, Top.act, s, strict) /\ Clashes(grid, Top.act, s) = S
  BY <1>5, <1>6
<1>8. /\ S \in SUBSET Act /\ S \subseteq Placed(grid) /\ Good(Lifted(grid, S))
      /\ Good(Put(Lifted(grid, S), Top.act, s))
      /\ e \in Entries /\ Undone(Put(Lifted(grid, S), Top.act, s), e) = Lifted(grid, S)
      /\ Placed(Put(Lifted(grid, S), Top.act, s)) = (Placed(grid) \ S) \cup {Top.act}
  <2> HIDE DEF e, S
  <2>1. e = Did("P", Top.act, s)
    BY DEF e
  <2>2. QED
    BY <1>4, <1>6, <1>7, <2>1, Settled
<1> HIDE DEF S, e
<1>9. Displaced(grid, q) = Lifted(grid, S) /\ \E mid : Traces(mid, q, grid, Lifted(grid, S))
  BY <1>4, <1>8, Unwinding
<1>10. q \in Seq(Entries)
  <2>1. q \in Seq({Did("U", a, grid.place[a]) : a \in S})
    BY <1>8, RemovalsList
  <2>2. \A a \in S : Did("U", a, grid.place[a]) \in Entries
    <3>1. \A a \in S : a \in Act /\ grid.place[a] \in Slots
      BY <1>4, <1>8, GridParts DEF Placed, Good, Sound, Places
    <3>2. QED
      BY <3>1 DEF Did, Entries
  <2> DEFINE E == {Did("U", a, grid.place[a]) : a \in S}
  <2>3. E \subseteq Entries
    BY <2>2
  <2> HIDE DEF q, E
  <2>4. q \in Seq(E)
    BY <2>1 DEF E
  <2>5. QED
    BY <2>3, <2>4
<1>11. moveJournal \in Seq(Entries) /\ moveJournal' = (moveJournal \o q) \o <<e>>
  BY <1>2, <1>3 DEF FetTypes, S, e
<1>12. grid' = Put(Lifted(grid, S), Top.act, s)
  BY <1>3, <1>9 DEF S
<1> HIDE DEF q
<1>13. /\ Good(grid') /\ Undone(grid', e) = Lifted(grid, S)
       /\ Placed(grid') = (Placed(grid) \ S) \cup {Top.act}
  BY <1>8, <1>12
<1>14. /\ moveJournal \o q \in Seq(Entries) /\ Len(moveJournal) \in Nat /\ Len(q) \in Nat
       /\ Len(moveJournal \o q) = Len(moveJournal) + Len(q)
       /\ moveJournal' \in Seq(Entries) /\ Len(moveJournal') = Len(moveJournal) + Len(q) + 1
  <2>1. /\ moveJournal \o q \in Seq(Entries) /\ Len(moveJournal) \in Nat /\ Len(q) \in Nat
        /\ Len(moveJournal \o q) = Len(moveJournal) + Len(q)
    BY <1>10, <1>11, ConcatProperties
  <2>2. <<e>> \in Seq(Entries) /\ Len(<<e>>) = 1
    BY <1>8
  <2>3. moveJournal' \in Seq(Entries) /\ Len(moveJournal') = Len(moveJournal \o q) + 1
    BY <1>11, <2>1, <2>2, ConcatProperties
  <2>4. QED
    BY <2>1, <2>3
<1>15. PICK past1 : /\ Traces(past1, moveJournal \o q, entry, Lifted(grid, S))
                    /\ \A n \in 0 .. Len(moveJournal) : past1[n] = past[n]
  <2>1. PICK mid : Traces(mid, q, grid, Lifted(grid, S))
    BY <1>9
  <2>2. Traces(past, moveJournal, entry, grid)
    BY <1>1 DEF Follows, History
  <2>3. moveJournal \in Seq(Entries)
    BY <1>11
  <2> DEFINE h == Lifted(grid, S)
  <2>4. Traces(mid, q, grid, h)
    BY <2>1
  <2> HIDE DEF h
  <2>5. \E past2 : /\ Traces(past2, moveJournal \o q, entry, h)
                   /\ \A n \in 0 .. Len(moveJournal) : past2[n] = past[n]
    BY <1>10, <2>2, <2>3, <2>4, TraceGrows
  <2>6. QED
    BY <2>5 DEF h
<1>16. PICK past2 : /\ Traces(past2, moveJournal', entry, grid')
                    /\ \A n \in 0 .. Len(moveJournal \o q) : past2[n] = past1[n]
  <2> DEFINE h == Lifted(grid, S)
             J == moveJournal \o q
             k == grid'
  <2>1. J \in Seq(Entries) /\ e \in Entries /\ Good(k) /\ Undone(k, e) = h
        /\ Traces(past1, J, entry, h)
    BY <1>8, <1>13, <1>14, <1>15
  <2> HIDE DEF h, J, k
  <2>2. \E past2 : Traces(past2, J \o <<e>>, entry, k) /\ \A n \in 0 .. Len(J) : past2[n] = past1[n]
    BY <2>1, TraceStep
  <2>3. QED
    BY <1>11, <2>2 DEF J, k
<1>17. \A n \in 0 .. Top.mark : past2[n] = past[n]
  <2>1. \A n \in 0 .. Len(moveJournal) : n \in 0 .. Len(moveJournal \o q)
    BY <1>14
  <2>2. QED
    BY <1>4, <1>15, <1>16, <2>1
<1>18. entry' = entry /\ UNCHANGED control /\ result' = "none"
  BY <1>2 DEF control
<1>19. History(past2)'
  BY <1>16, <1>18 DEF History
<1>20. stack' = [stack EXCEPT ![Len(stack)] = f]
  BY <1>3 DEF SetTop, S
<1>21. /\ f \in Frames /\ f.act = Top.act /\ f.mark = Top.mark /\ f.before = Top.before
       /\ f.cands = Top.cands /\ f.at = "wait" /\ f.waiting = S /\ f.child = Top.child
  BY <1>4, <1>6, <1>8 DEF Frames
<1> HIDE DEF f
<1>22. /\ \A x \in S, k \in 0 .. D - 1 : x \notin Pending(stack, todo, k)
       /\ \A x \in S : x \notin Placed(grid')
  <2>1. Top.act \notin Placed(grid)
    BY <1>4 DEF Placed
  <2>2. QED
    BY <1>4, <1>8, <1>13, <2>1 DEF Reached
<1>23. Reached(grid', stack', todo, entry, D + 1)
  <2>1. stack \in Seq(Frames)
    BY <1>2 DEF FetTypes
  <2>2. stack'[D] = f /\ \A j \in 1 .. D - 1 : stack'[j] = stack[j]
    BY <1>4, <1>20, <1>21, <2>1, LastReplaced
  <2>3. \A x \in Placed(grid) : x \in Placed(grid') \/ x \in S
    BY <1>13
  <2>4. \A x \in Placed(entry) : x \in Placed(grid') \/ Owed(stack, x, 0, D) \/ x \in stack'[D].waiting
    BY <1>4, <1>21, <2>2, <2>3 DEF Reached
  <2>5. \A k \in 1 .. D - 1 : \/ stack[k].act \in Placed(grid') \/ Owed(stack, stack[k].act, k, D)
                              \/ stack[k].act \in stack'[D].waiting
    BY <1>4, <1>21, <2>2, <2>3 DEF Reached
  <2>6. stack'[D].act \in Placed(grid')
    BY <1>13, <1>21, <2>2
  <2>7. \A k \in 0 .. D - 1, x \in Act : x \in Pending(stack, todo, k) => x \notin Placed(grid')
    <3>1. \A k \in 0 .. D - 1 : Top.act \notin Pending(stack, todo, k)
      BY <1>4 DEF FrameHolds
    <3>2. QED
      BY <1>4, <1>13, <3>1 DEF Reached
  <2>8. \A x \in Act : x \in stack'[D].waiting /\ x # stack'[D].child => x \notin Placed(grid')
    BY <1>21, <1>22, <2>2
  <2> DEFINE st2 == stack'
  <2> HIDE DEF D, st2
  <2>9. D \in Nat \ {0}
    BY <1>4 DEF D
  <2>10. Reached(grid', st2, todo, entry, D + 1)
    BY <2>2, <2>4, <2>5, <2>6, <2>7, <2>8, <2>9, ReachedTop DEF st2
  <2>11. QED
    BY <2>10 DEF st2
<1>24. swapped' \subseteq Act /\ Top.mark <= Len(moveJournal')
  <2>1. swapped' \subseteq Act
    BY <1>2, <1>3, <1>8 DEF FetTypes, S
  <2>2. QED
    BY <1>4, <1>14, <2>1
<1>25. \A t \in DOMAIN f.cands : /\ Possible(past[Top.mark], Top.act, t, strict)
                                 /\ Clashes(past[Top.mark], Top.act, t) = f.cands[t]
  BY <1>4, <1>5, <1>21
<1>26. QED
  BY <1>1, <1>2, <1>14, <1>17, <1>18, <1>19, <1>20, <1>21, <1>22, <1>23, <1>24, <1>25, Replaced

\* A failed branch is undone: the grid is the one at the mark of the frame.
LEMMA BacktrackKeeps == FetInv /\ Backtrack => FetInv'
<1> SUFFICES ASSUME FetInv, Backtrack PROVE FetInv'
  OBVIOUS
<1>1. PICK past : Follows(past)
  BY DEF FetInv
<1>2. FetTypes /\ stack # <<>> /\ UNCHANGED control
  BY DEF FetInv, Backtrack
<1>3. /\ Top \in Frames /\ Top.mark \in 0 .. Len(moveJournal) /\ Len(moveJournal) \in Nat
      /\ FrameHolds(past, stack, todo, entry, strict, Len(stack)) /\ Top = stack[Len(stack)]
  BY <1>1, <1>2, StackFacts
<1>4. grid' = past[Top.mark] /\ moveJournal' = SubSeq(moveJournal, 1, Top.mark)
      /\ swapped' = swapped \ Top.moved
  BY <1>1, <1>2, <1>3, HistoryRollsBack DEF Backtrack, Follows
<1>5. /\ moveJournal' \in Seq(Entries) /\ Len(moveJournal') = Top.mark /\ swapped' \subseteq Act
      /\ Traces(past, moveJournal', entry, grid')
  <2>1. moveJournal \in Seq(Entries) /\ Traces(past, moveJournal, entry, grid) /\ swapped \subseteq Act
    BY <1>1, <1>2 DEF FetTypes, Follows, History
  <2>2. moveJournal' \in Seq(Entries) /\ Len(moveJournal') = Top.mark
    BY <1>3, <1>4, <2>1, PrefixFacts
  <2>3. Traces(past, moveJournal', entry, grid')
    BY <1>3, <1>4, <2>1, TraceCut
  <2>4. QED
    BY <1>4, <2>1, <2>2, <2>3
<1>6. entry' = entry /\ History(past)'
  BY <1>2, <1>5 DEF control, History
<1>7. Top.mark <= Len(moveJournal') /\ \A n \in 0 .. Top.mark : past[n] = past[n]
  BY <1>3, <1>5
<1>8. CASE Level >= CutLevel
  <2>1. stack' = SubSeq(stack, 1, Len(stack) - 1) /\ result' = "failed"
    BY <1>8 DEF Backtrack, Return
  <2>2. Reached(grid', stack, todo, entry, Len(stack))
    BY <1>3, <1>4 DEF FrameHolds
  <2>3. Len(stack) = 1 => grid' = entry
    BY <1>1, <1>3, <1>4 DEF FrameHolds, Follows, History, Traces
  <2>4. QED
    BY <1>1, <1>2, <1>5, <1>6, <1>7, <2>1, <2>2, <2>3, Popped
<1>9. CASE ~ (Level >= CutLevel)
  <2> DEFINE L == [s \in DOMAIN Top.cands \ {Top.slot} |-> Top.cands[s]]
             f == [Top EXCEPT !.at = "try", !.moved = {}, !.waiting = {}, !.cands = L]
  <2>1. stack' = [stack EXCEPT ![Len(stack)] = f] /\ result' = "none"
    BY <1>9 DEF Backtrack, SetTop
  <2>2. L \in UNION {[T -> SUBSET Act] : T \in SUBSET Slots}
    <3>1. PICK T \in SUBSET Slots : Top.cands \in [T -> SUBSET Act]
      BY <1>3 DEF Frames
    <3>2. L \in [T \ {Top.slot} -> SUBSET Act] /\ T \ {Top.slot} \in SUBSET Slots
      BY <3>1
    <3> HIDE DEF L
    <3>3. QED
      BY <3>2
  <2>3. \A s \in DOMAIN L : s \in DOMAIN Top.cands /\ L[s] = Top.cands[s]
    OBVIOUS
  <2> HIDE DEF L
  <2>4. /\ f \in Frames /\ f.act = Top.act /\ f.mark = Top.mark /\ f.before = Top.before
        /\ f.cands = L /\ f.at = "try" /\ f.waiting = {}
    BY <1>3, <2>2 DEF Frames
  <2> HIDE DEF f
  <2>5. \A s \in DOMAIN f.cands : /\ Possible(past[Top.mark], Top.act, s, strict)
                                  /\ Clashes(past[Top.mark], Top.act, s) = f.cands[s]
    BY <1>3, <2>3, <2>4 DEF FrameHolds
  <2>6. f.mark = Len(moveJournal')
    BY <1>5, <2>4
  <2>7. QED
    BY <1>1, <1>2, <1>5, <1>6, <1>7, <2>1, <2>4, <2>5, <2>6, Replaced
<1>10. QED
  BY <1>8, <1>9

\* A displaced activity has been placed again: it is no longer owed.
LEMMA NextDisplacedKeeps == FetInv /\ NextDisplaced => FetInv'
<1> SUFFICES ASSUME FetInv, NextDisplaced PROVE FetInv'
  OBVIOUS
<1>1. PICK past : Follows(past)
  BY DEF FetInv
<1>2. /\ FetTypes /\ stack # <<>> /\ result = "placed" /\ UNCHANGED <<grid, moveJournal, control>>
  BY DEF FetInv, NextDisplaced
<1> DEFINE D == Len(stack)
<1>3. /\ Top \in Frames /\ Top.mark \in 0 .. Len(moveJournal) /\ Len(moveJournal) \in Nat
      /\ FrameHolds(past, stack, todo, entry, strict, D) /\ Top = stack[D]
      /\ D \in Nat \ {0}
  BY <1>1, <1>2, StackFacts
<1>4. Top.at = "wait" /\ Top.child \in Placed(grid) /\ Reached(grid, stack, todo, entry, D + 1)
  BY <1>1, <1>2 DEF Follows, TopHolds
<1>5. /\ \A x \in Placed(entry) : x \in Placed(grid) \/ Owed(stack, x, 0, D) \/ x \in Top.waiting
      /\ \A k \in 1 .. D - 1 : \/ stack[k].act \in Placed(grid) \/ Owed(stack, stack[k].act, k, D)
                               \/ stack[k].act \in Top.waiting
      /\ Top.act \in Placed(grid)
      /\ \A k \in 0 .. D - 1, x \in Act : x \in Pending(stack, todo, k) => x \notin Placed(grid)
      /\ \A x \in Act : x \in Top.waiting /\ x # Top.child => x \notin Placed(grid)
  <2>1. ASSUME NEW x, NEW k \in 0 .. D, Owed(stack, x, k, D + 1)
        PROVE  Owed(stack, x, k, D) \/ (k < D /\ x \in Top.waiting)
    BY <1>3, <2>1, OwedSplit
  <2>2. \A x \in Placed(entry) : x \in Placed(grid) \/ Owed(stack, x, 0, D) \/ x \in Top.waiting
    <3>1. 0 \in 0 .. D
      BY <1>3
    <3>2. QED
      BY <1>4, <2>1, <3>1 DEF Reached
  <2>3. ASSUME NEW k \in 1 .. D
        PROVE  stack[k].act \in Placed(grid) \/ Owed(stack, stack[k].act, k, D)
                 \/ (k < D /\ stack[k].act \in Top.waiting)
    <3>1. k \in 0 .. D /\ k \in 1 .. (D + 1) - 1
      BY <1>3
    <3>2. stack[k].act \in Placed(grid) \/ Owed(stack, stack[k].act, k, D + 1)
      BY <1>4, <3>1 DEF Reached
    <3>3. QED
      BY <2>1, <3>1, <3>2
  <2>4. Top.act \in Placed(grid)
    <3>1. D \in 1 .. D /\ ~ (D < D)
      BY <1>3
    <3>2. ~ Owed(stack, stack[D].act, D, D)
      BY <1>3 DEF Owed
    <3>3. QED
      BY <1>3, <2>3, <3>1, <3>2
  <2>5. \A k \in 0 .. D, x \in Act : x \in Pending(stack, todo, k) => x \notin Placed(grid)
    <3>1. (D + 1) - 1 = D
      BY <1>3
    <3>2. QED
      BY <1>4, <3>1 DEF Reached
  <2>6. \A k \in 1 .. D - 1 : k \in 1 .. D /\ k < D
    BY <1>3
  <2>7. D \in 0 .. D /\ \A k \in 0 .. D - 1 : k \in 0 .. D
    BY <1>3
  <2>8. Pending(stack, todo, D) = Top.waiting \ {Top.child}
    BY <1>3 DEF Pending
  <2> HIDE DEF D
  <2>9. QED
    BY <2>2, <2>3, <2>4, <2>5, <2>6, <2>7, <2>8
<1>6. entry' = entry /\ UNCHANGED control /\ grid' = grid /\ moveJournal' = moveJournal
  BY <1>2 DEF control
<1>7. /\ moveJournal' \in Seq(Entries) /\ Top.mark <= Len(moveJournal')
      /\ \A n \in 0 .. Top.mark : past[n] = past[n]
  BY <1>2, <1>3, <1>6 DEF FetTypes
<1>8. History(past)'
  BY <1>1, <1>6 DEF Follows, History
<1>9. CASE Top.waiting = {Top.child}
  <2>1. stack' = SubSeq(stack, 1, Len(stack) - 1) /\ result' = "placed" /\ swapped' = swapped \ Top.moved
    BY <1>9 DEF NextDisplaced, Return
  <2>2. swapped' \subseteq Act
    BY <1>2, <2>1 DEF FetTypes
  <2>3. Reached(grid', stack, todo, entry, Len(stack))
    <3>1. \A x \in Placed(entry) : x \in Placed(grid) \/ Owed(stack, x, 0, D)
      BY <1>4, <1>5, <1>9
    <3>2. \A k \in 1 .. D - 1 : stack[k].act \in Placed(grid) \/ Owed(stack, stack[k].act, k, D)
      BY <1>4, <1>5, <1>9
    <3>3. QED
      BY <1>5, <1>6, <3>1, <3>2 DEF Reached
  <2>4. Top.act \in Placed(grid')
    BY <1>5, <1>6
  <2>5. QED
    BY <1>1, <1>2, <1>6, <1>7, <1>8, <2>1, <2>2, <2>3, <2>4, Popped
<1>10. CASE Top.waiting # {Top.child}
  <2> DEFINE f == [Top EXCEPT !.waiting = Top.waiting \ {Top.child}]
  <2>1. stack' = [stack EXCEPT ![Len(stack)] = f] /\ result' = "none" /\ swapped' = swapped
    BY <1>10 DEF NextDisplaced, SetTop
  <2>2. swapped' \subseteq Act
    BY <1>2, <2>1 DEF FetTypes
  <2>3. Top.waiting \ {Top.child} \in SUBSET Act
    BY <1>3 DEF Frames
  <2>4. /\ f \in Frames /\ f.act = Top.act /\ f.mark = Top.mark /\ f.before = Top.before
        /\ f.cands = Top.cands /\ f.at = "wait" /\ f.waiting = Top.waiting \ {Top.child}
        /\ f.child = Top.child
    BY <1>3, <1>4, <2>3 DEF Frames
  <2> HIDE DEF f
  <2>5. \A s \in DOMAIN f.cands : /\ Possible(past[Top.mark], Top.act, s, strict)
                                  /\ Clashes(past[Top.mark], Top.act, s) = f.cands[s]
    BY <1>3, <2>4 DEF FrameHolds
  <2>6. \A x \in f.waiting, k \in 0 .. D - 1 : x \notin Pending(stack, todo, k)
    BY <1>3, <2>4 DEF FrameHolds
  <2>7. \A x \in f.waiting : x \notin Placed(grid')
    BY <1>5, <1>6, <2>3, <2>4
  <2>8. Reached(grid', stack', todo, entry, D + 1)
    <3>1. stack \in Seq(Frames)
      BY <1>2 DEF FetTypes
    <3>2. stack'[D] = f /\ \A j \in 1 .. D - 1 : stack'[j] = stack[j]
      BY <1>3, <2>1, <2>4, <3>1, LastReplaced
    <3>3. \A x \in Top.waiting : x \in Placed(grid') \/ x \in stack'[D].waiting
      BY <1>4, <1>6, <2>4, <3>2
    <3>4. \A x \in Placed(entry) : x \in Placed(grid') \/ Owed(stack, x, 0, D) \/ x \in stack'[D].waiting
      BY <1>5, <1>6, <3>3
    <3>5. \A k \in 1 .. D - 1 : \/ stack[k].act \in Placed(grid') \/ Owed(stack, stack[k].act, k, D)
                                \/ stack[k].act \in stack'[D].waiting
      BY <1>5, <1>6, <3>3
    <3>6. stack'[D].act \in Placed(grid')
      BY <1>5, <1>6, <2>4, <3>2
    <3>7. \A x \in Act : x \in stack'[D].waiting /\ x # stack'[D].child => x \notin Placed(grid')
      BY <2>7, <3>2
    <3>8. \A k \in 0 .. D - 1, x \in Act : x \in Pending(stack, todo, k) => x \notin Placed(grid')
      BY <1>5, <1>6
    <3> DEFINE st2 == stack'
    <3> HIDE DEF D, st2
    <3>9. D \in Nat \ {0}
      BY <1>3
    <3>10. Reached(grid', st2, todo, entry, D + 1)
      BY <3>2, <3>4, <3>5, <3>6, <3>7, <3>8, <3>9, ReachedTop DEF st2
    <3>11. QED
      BY <3>10 DEF st2
  <2>9. QED
    BY <1>1, <1>2, <1>6, <1>7, <1>8, <2>1, <2>2, <2>4, <2>5, <2>6, <2>7, <2>8, Replaced
<1>11. QED
  BY <1>9, <1>10

\* The frame of a call that is about to be made.
LEMMA NewFrame ==
  ASSUME NEW a \in Act, NEW S \in SUBSET Slots, NEW m \in Nat, Good(grid)
  PROVE  LET f == Frame(a, S, m) IN
         /\ f \in Frames /\ f.act = a /\ f.at = "enter" /\ f.mark = m /\ f.waiting = {}
         /\ f.before = grid.place /\ DOMAIN f.cands = {}
<1> DEFINE f == Frame(a, S, m)
<1>1. /\ f.act = a /\ f.at = "enter" /\ f.mark = m /\ f.waiting = {} /\ f.before = grid.place
      /\ f.cands = <<>>
  BY DEF Frame
<1>2. grid.place \in Places
  BY GridParts DEF Good, Sound
<1>3. <<>> \in UNION {[T -> SUBSET Act] : T \in SUBSET Slots} /\ DOMAIN <<>> = {}
  <2>1. <<>> \in [{} -> SUBSET Act] /\ {} \in SUBSET Slots /\ DOMAIN <<>> = {}
    OBVIOUS
  <2>2. QED
    BY <2>1
<1>4. f \in Frames
  BY <1>2, <1>3 DEF Frame, Frames
<1>5. QED
  BY <1>1, <1>3, <1>4

\* A call for a displaced activity: the new frame begins at the end of the journal.
LEMMA RecurseKeeps == FetInv /\ Recurse => FetInv'
<1> SUFFICES ASSUME FetInv, Recurse PROVE FetInv'
  OBVIOUS
<1>1. PICK past : Follows(past)
  BY DEF FetInv
<1>2. /\ FetTypes /\ stack # <<>> /\ Top.at = "wait" /\ result = "none"
      /\ UNCHANGED <<search, result, control>>
  BY DEF FetInv, Recurse, Running
<1> DEFINE D == Len(stack)
           N == Len(moveJournal)
<1>3. PICK c \in Top.waiting :
        stack' = Append([stack EXCEPT ![Len(stack)].child = c], Frame(c, Slots, Len(moveJournal)))
  BY DEF Recurse
<1>4. /\ Top \in Frames /\ Top.mark \in 0 .. N /\ N \in Nat /\ Good(grid)
      /\ \A i \in 1 .. D : stack[i] \in Frames /\ stack[i].mark <= Top.mark
      /\ FrameHolds(past, stack, todo, entry, strict, D) /\ Top = stack[D]
      /\ D \in Nat \ {0}
  BY <1>1, <1>2, StackFacts
<1>5. /\ \A x \in Top.waiting : x \notin Placed(grid)
      /\ Reached(grid, stack, todo, entry, D + 1)
  BY <1>1, <1>2 DEF Follows, TopHolds
<1>6. c \in Act
  BY <1>4 DEF Frames
<1> DEFINE e == Frame(c, Slots, N)
           f == [Top EXCEPT !.child = c]
           st == [stack EXCEPT ![D] = f]
<1>7. /\ e \in Frames /\ e.act = c /\ e.at = "enter" /\ e.mark = N /\ e.waiting = {}
      /\ e.before = grid.place /\ DOMAIN e.cands = {}
  BY <1>4, <1>6, NewFrame
<1>8. /\ f \in Frames /\ f.act = Top.act /\ f.at = "wait" /\ f.mark = Top.mark
      /\ f.before = Top.before /\ f.cands = Top.cands /\ f.waiting = Top.waiting /\ f.child = c
  BY <1>2, <1>4, <1>6 DEF Frames
<1>9. st = [stack EXCEPT ![Len(stack)].child = c]
  BY <1>4
<1> HIDE DEF e, f
<1>10. stack \in Seq(Frames)
  BY <1>2 DEF FetTypes
<1>11. /\ st \in Seq(Frames) /\ Len(st) = D /\ st[D] = f /\ \A k \in 1 .. D - 1 : st[k] = stack[k]
  BY <1>4, <1>8, <1>10, LastReplaced
<1>12. stack' = Append(st, e)
  BY <1>3, <1>9 DEF e
<1> HIDE DEF st
<1>13. /\ stack' \in Seq(Frames) /\ Len(stack') = D + 1 /\ stack'[D + 1] = e /\ stack'[D] = f
       /\ \A k \in 1 .. D - 1 : stack'[k] = stack[k]
       /\ stack' # <<>> /\ Top' = e
  <2>1. /\ stack' \in Seq(Frames) /\ Len(stack') = D + 1 /\ stack'[D + 1] = e
        /\ \A k \in 1 .. D : stack'[k] = st[k] /\ stack' # <<>>
    BY <1>7, <1>11, <1>12, AppendProperties
  <2>2. D \in 1 .. D /\ \A k \in 1 .. D - 1 : k \in 1 .. D
    BY <1>4
  <2>3. stack' # <<>>
    BY <2>1, <2>2
  <2>4. Top' = e
    BY <2>1 DEF Top
  <2>5. QED
    BY <1>11, <2>1, <2>2, <2>3, <2>4
<1>14. /\ grid' = grid /\ moveJournal' = moveJournal /\ swapped' = swapped /\ entry' = entry
       /\ todo' = todo /\ strict' = strict /\ UNCHANGED control /\ result' = "none"
  BY <1>2 DEF search, control
<1>15. FetTypes'
  BY <1>2, <1>13, <1>14 DEF FetTypes, control
<1>16. History(past)'
  BY <1>1, <1>14 DEF Follows, History
<1> DEFINE st2 == stack'
<1> HIDE DEF D, N, st2
<1>17. /\ st2[D + 1] = e /\ st2[D] = f /\ \A k \in 1 .. D - 1 : st2[k] = stack[k]
       /\ D \in Nat \ {0} /\ D = Len(stack)
  BY <1>4, <1>13 DEF st2, D
<1>18. ASSUME NEW i \in 1 .. D - 1 PROVE FrameHolds(past, st2, todo, entry, strict, i)
  <2>1. i \in Nat \ {0} /\ i \in 1 .. Len(stack) /\ \A k \in 1 .. i : k \in 1 .. D - 1
    BY <1>17
  <2>2. FrameHolds(past, stack, todo, entry, strict, i)
    BY <1>1, <2>1 DEF Follows
  <2>3. \A k \in 1 .. i : st2[k] = stack[k]
    BY <1>17, <2>1
  <2>4. QED
    BY <2>1, <2>2, <2>3, FrameSame
<1>19. ASSUME NEW k \in 0 .. D - 1 PROVE Pending(st2, todo, k) = Pending(stack, todo, k)
  <2>1. k # 0 => k \in 1 .. D - 1
    OBVIOUS
  <2>2. k # 0 => st2[k] = stack[k]
    BY <1>17, <2>1
  <2>3. QED
    BY <2>2 DEF Pending
<1>20. FrameHolds(past, st2, todo, entry, strict, D)
  <2>1. Reached(past[f.mark], st2, todo, entry, D)
    <3>1. Reached(past[f.mark], stack, todo, entry, D)
      BY <1>4, <1>8 DEF FrameHolds
    <3>2. D \in Nat /\ \A k \in 1 .. D - 1 : st2[k] = stack[k]
      BY <1>17
    <3>3. QED
      BY <3>1, <3>2, ReachedSame
  <2>2. /\ past[f.mark].place = f.before
        /\ f.before[f.act] = Unplaced
        /\ \A s \in DOMAIN f.cands :
              /\ Possible(past[f.mark], f.act, s, strict)
              /\ Clashes(past[f.mark], f.act, s) = f.cands[s]
        /\ D = 1 => f.mark = 0
    BY <1>4, <1>8 DEF FrameHolds
  <2>3. \A k \in 0 .. D - 1 :
           f.act \notin Pending(st2, todo, k) /\ \A x \in f.waiting : x \notin Pending(st2, todo, k)
    BY <1>4, <1>8, <1>19 DEF FrameHolds
  <2>4. /\ \A k \in 1 .. D - 1 : st2[k].mark <= f.mark
        /\ D > 1 => st2[D - 1].at = "wait" /\ st2[D - 1].child = f.act
    <3>1. D > 1 => D - 1 \in 1 .. D - 1
      BY <1>17
    <3>2. D > 1 => st2[D - 1] = stack[D - 1]
      BY <1>17, <3>1
    <3>3. QED
      BY <1>4, <1>8, <1>17, <3>2 DEF FrameHolds
  <2>5. QED
    BY <1>8, <1>17, <2>1, <2>2, <2>3, <2>4 DEF FrameHolds
<1>21. FrameHolds(past, st2, todo, entry, strict, D + 1)
  <2>1. past[e.mark] = grid
    BY <1>1, <1>7 DEF Follows, History, Traces, N
  <2>2. e.before[e.act] = Unplaced
    BY <1>5, <1>6, <1>7 DEF Placed
  <2>3. ASSUME NEW k \in 0 .. D PROVE c \notin Pending(st2, todo, k)
    <3>1. CASE k = D
      BY <1>8, <1>17, <3>1 DEF Pending
    <3>2. CASE k # D
      <4>1. k \in 0 .. D - 1
        BY <1>17, <3>2
      <4>2. QED
        BY <1>4, <1>19, <4>1 DEF FrameHolds
    <3>3. QED
      BY <3>1, <3>2
  <2>4. \A k \in 1 .. D : st2[k].mark <= e.mark
    <3>1. ASSUME NEW k \in 1 .. D PROVE st2[k].mark = stack[k].mark
      <4>1. k # D => k \in 1 .. D - 1
        BY <1>17
      <4>2. QED
        BY <1>4, <1>8, <1>17, <4>1
    <3>2. ASSUME NEW k \in 1 .. D PROVE stack[k].mark <= N
      <4>1. stack[k].mark \in Nat /\ stack[k].mark <= Top.mark /\ Top.mark \in 0 .. N /\ N \in Nat
        BY <1>4 DEF Frames
      <4>2. QED
        BY <4>1
    <3>3. QED
      BY <1>7, <3>1, <3>2
  <2>5. Reached(grid, st2, todo, entry, D + 1)
    <3>1. ASSUME NEW x, NEW k \in 0 .. D, Owed(stack, x, k, D + 1) PROVE Owed(st2, x, k, D + 1)
      <4>1. Owed(stack, x, k, D) \/ (k < D /\ x \in stack[D].waiting)
        BY <1>17, <3>1, OwedSplit
      <4>2. Owed(stack, x, k, D) \/ (k < D /\ x \in st2[D].waiting)
        BY <1>4, <1>8, <1>17, <4>1
      <4>3. QED
        BY <1>17, <4>2, OwedSplit
    <3>2. \A x \in Placed(entry) : x \in Placed(grid) \/ Owed(st2, x, 0, D + 1)
      <4>1. 0 \in 0 .. D
        BY <1>17
      <4>2. QED
        BY <1>5, <3>1, <4>1 DEF Reached
    <3>3. ASSUME NEW k \in 1 .. D PROVE st2[k].act \in Placed(grid) \/ Owed(st2, st2[k].act, k, D + 1)
      <4>1. k \in 0 .. D /\ k \in 1 .. (D + 1) - 1 /\ (k # D => k \in 1 .. D - 1)
        BY <1>17
      <4>2. st2[k].act = stack[k].act
        BY <1>4, <1>8, <1>17, <4>1
      <4>3. stack[k].act \in Placed(grid) \/ Owed(stack, stack[k].act, k, D + 1)
        BY <1>5, <4>1 DEF Reached
      <4>4. QED
        BY <3>1, <4>1, <4>2, <4>3
    <3>4. ASSUME NEW k \in 0 .. D, NEW x \in Act, x \in Pending(st2, todo, k)
          PROVE  x \notin Placed(grid)
      <4>1. CASE k = D
        BY <1>5, <1>8, <1>17, <3>4, <4>1 DEF Pending
      <4>2. CASE k # D
        <5>1. k \in 0 .. D - 1 /\ k \in 0 .. (D + 1) - 1
          BY <1>17, <4>2
        <5>2. QED
          BY <1>5, <1>19, <3>4, <5>1 DEF Reached
      <4>3. QED
        BY <4>1, <4>2
    <3>5. (D + 1) - 1 = D
      BY <1>17
    <3>6. QED
      BY <3>2, <3>3, <3>4, <3>5 DEF Reached
  <2>6. (D + 1) - 1 = D /\ D + 1 # 1
    BY <1>17
  <2>7. QED
    BY <1>7, <1>8, <1>17, <2>1, <2>2, <2>3, <2>4, <2>5, <2>6 DEF FrameHolds
<1>22. \A i \in 1 .. Len(stack') : FrameHolds(past, stack', todo', entry', strict', i)
  <2>1. \A i \in 1 .. D + 1 : i \in 1 .. D - 1 \/ i = D \/ i = D + 1
    BY <1>17
  <2>2. \A i \in 1 .. D + 1 : FrameHolds(past, st2, todo, entry, strict, i)
    BY <1>18, <1>20, <1>21, <2>1
  <2>3. QED
    BY <1>13, <1>14, <2>2 DEF st2, D
<1>23. TopHolds'
  <2>1. e.mark <= Len(moveJournal') /\ e.mark = Len(moveJournal') /\ e.at # "wait"
    BY <1>4, <1>7, <1>14 DEF N
  <2>2. QED
    BY <1>13, <1>14, <2>1 DEF TopHolds
<1>24. QED
  BY <1>15, <1>16, <1>22, <1>23 DEF FetInv, Follows

(***************************************************************************)
(* The steps of solve, and the invariant.                                  *)
(***************************************************************************)
\* With nothing left of the stack, what is pending is what solve has yet to try.
LEMMA ReachedIdle ==
  ASSUME NEW h, NEW td, NEW en, Placed(en) \subseteq Placed(h), \A x \in Act : x \in td => x \notin Placed(h)
  PROVE  \A st : Reached(h, st, td, en, 1)
<1> TAKE st
<1>1. \A k \in 0 .. 1 - 1 : Pending(st, td, k) = td
  BY DEF Pending
<1>2. 1 .. 1 - 1 = {}
  OBVIOUS
<1>3. QED
  BY <1>1, <1>2 DEF Reached

\* solve begins with the empty grid and an empty journal.
LEMMA InitKeeps == Init => FetInv
<1> SUFFICES ASSUME Init PROVE FetInv
  OBVIOUS
<1> DEFINE past == [n \in {0} |-> EmptyGrid]
<1>1. Good(EmptyGrid) /\ Placed(EmptyGrid) = {}
  BY EmptyIsSound DEF Good, WithinLimits
<1>2. Len(moveJournal) = 0 /\ past[0] = EmptyGrid
  BY DEF Init
<1>3. History(past)
  <2>1. 0 .. 0 = {0} /\ 1 .. 0 = {}
    OBVIOUS
  <2> HIDE DEF past
  <2>2. grid = EmptyGrid /\ entry = EmptyGrid
    BY DEF Init
  <2>3. QED
    BY <1>1, <1>2, <2>1, <2>2 DEF History, Traces
<1>4. Reached(grid, stack, todo, entry, 1)
  BY <1>1, ReachedIdle DEF Init
<1>5. TopHolds
  <2>1. Len(stack) + 1 = 1
    BY DEF Init
  <2>2. QED
    BY <1>4, <2>1 DEF TopHolds, Init
<1>6. \A i \in 1 .. Len(stack) : FrameHolds(past, stack, todo, entry, strict, i)
  BY DEF Init
<1>7. FetTypes
  <2>1. moveJournal \in Seq(Entries) /\ stack \in Seq(Frames) /\ swapped \subseteq Act
        /\ todo \subseteq Act
    BY DEF Init
  <2>2. result = "none" /\ phase = "main" /\ passNo \in 0 .. MaxPasses
    BY ConstructAssumption DEF Init
  <2>3. QED
    BY <2>1, <2>2 DEF FetTypes
<1> HIDE DEF past
<1>8. QED
  BY <1>3, <1>5, <1>6, <1>7 DEF FetInv, Follows

\* Between two attempts the grid does not change.
LEMMA BetweenAttempts ==
  ASSUME FetInv, stack = <<>>, UNCHANGED <<search, stack, entry>>, result' = "none",
         todo' \subseteq Act, \A x \in todo' : x \notin Placed(grid),
         phase' \in {"main", "passes", "lastMile", "done"}, passNo' \in 0 .. MaxPasses
  PROVE  FetInv'
<1>1. PICK past : Follows(past)
  BY DEF FetInv
<1>2. FetTypes
  BY DEF FetInv
<1>3. /\ grid' = grid /\ moveJournal' = moveJournal /\ swapped' = swapped /\ entry' = entry
      /\ stack' = <<>>
  BY DEF search
<1>4. History(past)'
  BY <1>1, <1>3 DEF Follows, History
<1>5. Placed(entry) \subseteq Placed(grid)
  BY FetInvLoss DEF NothingLost
<1>6. Reached(grid', stack', todo', entry', 1)
  BY <1>3, <1>5, ReachedIdle
<1>7. TopHolds'
  <2>1. Len(stack') + 1 = 1
    BY <1>3
  <2>2. QED
    BY <1>3, <1>6, <2>1 DEF TopHolds
<1>8. \A i \in 1 .. Len(stack') : FrameHolds(past, stack', todo', entry', strict', i)
  BY <1>3
<1>9. FetTypes'
  BY <1>2, <1>3 DEF FetTypes
<1>10. QED
  BY <1>4, <1>7, <1>8, <1>9 DEF FetInv, Follows

\* What solve has yet to try is not placed.
LEMMA TodoIsLeft == FetInv /\ stack = <<>> => todo \subseteq Act /\ \A x \in todo : x \notin Placed(grid)
<1> SUFFICES ASSUME FetInv, stack = <<>>
             PROVE  todo \subseteq Act /\ \A x \in todo : x \notin Placed(grid)
  OBVIOUS
<1>1. PICK past : Follows(past)
  BY DEF FetInv
<1>2. todo \subseteq Act
  BY DEF FetInv, FetTypes
<1>3. Reached(grid, stack, todo, entry, 1)
  <2>1. Len(stack) + 1 = 1
    OBVIOUS
  <2>2. QED
    BY <1>1, <2>1 DEF Follows, TopHolds
<1>4. 0 \in 0 .. 1 - 1 /\ Pending(stack, todo, 0) = todo
  BY DEF Pending
<1>5. QED
  BY <1>2, <1>3, <1>4 DEF Reached

\* An attempt begins: the journal is empty and the grid of the moment is its only past.
LEMMA AttemptKeeps ==
  ASSUME FetInv, Idle, NEW a \in Longest(todo), NEW S \in SUBSET Slots, Attempt(a, S)
  PROVE  FetInv'
<1> DEFINE f == Frame(a, S, 0)
<1>1. FetTypes /\ Good(grid) /\ stack = <<>> /\ result = "none"
  BY FetInvGood DEF FetInv, Idle
<1>2. todo \subseteq Act /\ \A x \in todo : x \notin Placed(grid)
  BY <1>1, TodoIsLeft
<1>3. a \in Act /\ a \in todo
  BY <1>2 DEF Longest
<1>4. /\ f \in Frames /\ f.act = a /\ f.at = "enter" /\ f.mark = 0 /\ f.waiting = {}
      /\ f.before = grid.place /\ DOMAIN f.cands = {}
  BY <1>1, <1>3, NewFrame
<1>5. PICK past : past[0] = grid
  <2>1. [n \in {0} |-> grid][0] = grid
    OBVIOUS
  <2>2. QED
    BY <2>1
<1>6. /\ stack' = <<f>> /\ moveJournal' = <<>> /\ entry' = grid /\ todo' = todo \ {a}
      /\ grid' = grid /\ UNCHANGED <<swapped, result, phase, passNo, strict, guard>>
  BY DEF Attempt
<1> HIDE DEF f
<1>7. /\ stack' \in Seq(Frames) /\ Len(stack') = 1 /\ stack'[1] = f /\ stack' # <<>>
      /\ Top' = f /\ Len(moveJournal') = 0 /\ moveJournal' \in Seq(Entries)
  BY <1>4, <1>6 DEF Top
<1>8. FetTypes'
  BY <1>1, <1>2, <1>6, <1>7 DEF FetTypes
<1>9. History(past)'
  <2>1. 0 .. 0 = {0} /\ 1 .. 0 = {}
    OBVIOUS
  <2>2. QED
    BY <1>1, <1>5, <1>6, <1>7, <2>1 DEF History, Traces
<1>10. FrameHolds(past, stack', todo', entry', strict', 1)
  <2>1. \A x \in Act : x \in todo' => x \notin Placed(grid)
    BY <1>2, <1>6
  <2>2. Reached(grid, stack', todo', grid, 1)
    BY <2>1, ReachedIdle
  <2>3. \A k \in 0 .. 1 - 1 : Pending(stack', todo', k) = todo \ {a}
    BY <1>6 DEF Pending
  <2>4. f.before[f.act] = Unplaced
    BY <1>2, <1>3, <1>4 DEF Placed
  <2>5. 1 .. 1 - 1 = {}
    OBVIOUS
  <2> DEFINE st == stack'
             td == todo'
  <2>6. /\ st[1] = f /\ Reached(grid, st, td, grid, 1)
        /\ \A k \in 0 .. 1 - 1 : Pending(st, td, k) = todo \ {a}
    BY <1>7, <2>2, <2>3
  <2>7. entry' = grid
    BY <1>6
  <2> HIDE DEF st, td
  <2>8. FrameHolds(past, st, td, grid, strict', 1)
    BY <1>4, <1>5, <2>4, <2>5, <2>6 DEF FrameHolds
  <2>9. QED
    BY <2>7, <2>8 DEF st, td
<1>11. \A i \in 1 .. Len(stack') : FrameHolds(past, stack', todo', entry', strict', i)
  <2>1. \A i \in 1 .. Len(stack') : i = 1
    BY <1>7
  <2>2. QED
    BY <1>10, <2>1
<1>12. TopHolds'
  <2>1. result' = "none" /\ f.at # "wait" /\ f.mark <= Len(moveJournal') /\ f.mark = Len(moveJournal')
    BY <1>1, <1>4, <1>6, <1>7
  <2>2. QED
    BY <1>7, <2>1 DEF TopHolds
<1>13. QED
  BY <1>8, <1>9, <1>11, <1>12 DEF FetInv, Follows

\* An attempt of the main loop or of a pass.
LEMMA TryMainKeeps == FetInv /\ TryMain => FetInv'
<1> SUFFICES ASSUME FetInv, TryMain PROVE FetInv'
  OBVIOUS
<1>1. PICK a \in Longest(todo) : Attempt(a, Slots)
  BY DEF TryMain
<1>2. Idle
  BY DEF TryMain
<1>3. QED
  BY <1>1, <1>2, AttemptKeeps

\* An attempt of lastMileEjectionRepair, or an activity it has no slot for.
LEMMA TryLastMileKeeps == FetInv /\ TryLastMile => FetInv'
<1> SUFFICES ASSUME FetInv, TryLastMile PROVE FetInv'
  OBVIOUS
<1>1. PICK a \in Longest(todo) :
        IF LastMileSlots(a) # {} THEN Attempt(a, LastMileSlots(a))
        ELSE /\ todo' = todo \ {a}
             /\ UNCHANGED <<search, stack, result, phase, passNo, strict, guard, entry>>
  BY DEF TryLastMile
<1>2. Idle /\ stack = <<>> /\ result = "none"
  BY DEF TryLastMile, Idle
<1>3. CASE LastMileSlots(a) # {}
  <2>1. LastMileSlots(a) \in SUBSET Slots
    BY DEF LastMileSlots
  <2>2. QED
    BY <1>1, <1>2, <1>3, <2>1, AttemptKeeps
<1>4. CASE LastMileSlots(a) = {}
  <2>1. todo' = todo \ {a} /\ UNCHANGED <<search, stack, result, phase, passNo, strict, guard, entry>>
    BY <1>1, <1>4
  <2>2. todo' \subseteq Act /\ \A x \in todo' : x \notin Placed(grid)
    BY <1>2, <2>1, TodoIsLeft
  <2>3. phase \in {"main", "passes", "lastMile", "done"} /\ passNo \in 0 .. MaxPasses
    BY DEF FetInv, FetTypes
  <2>4. QED
    BY <1>2, <2>1, <2>2, <2>3, BetweenAttempts
<1>5. QED
  BY <1>3, <1>4

\* An answer is read, a pass begins, the passes end, solve ends.
LEMMA OtherStepsKeep == FetInv /\ (Answered \/ NextPass \/ EndPasses \/ Finish) => FetInv'
<1> SUFFICES ASSUME FetInv, Answered \/ NextPass \/ EndPasses \/ Finish PROVE FetInv'
  OBVIOUS
<1>1. phase \in {"main", "passes", "lastMile", "done"} /\ passNo \in 0 .. MaxPasses
  BY DEF FetInv, FetTypes
<1>2. stack = <<>> => todo \subseteq Act /\ \A x \in todo : x \notin Placed(grid)
  BY TodoIsLeft
<1>3. Left(grid) \subseteq Act /\ \A x \in Left(grid) : x \notin Placed(grid)
  BY DEF Left
<1>4. CASE Answered
  <2>1. stack = <<>> /\ result' = "none" /\ UNCHANGED <<search, stack, control>>
    BY <1>4 DEF Answered
  <2>2. todo' = todo /\ phase' = phase /\ passNo' = passNo /\ entry' = entry
    BY <2>1 DEF control
  <2>3. QED
    BY <1>1, <1>2, <2>1, <2>2, BetweenAttempts
<1>5. CASE NextPass
  <2>1. /\ stack = <<>> /\ result = "none" /\ passNo < MaxPasses
        /\ phase' = "passes" /\ passNo' = passNo + 1 /\ todo' = Left(grid)
        /\ UNCHANGED <<search, stack, result, entry>>
    BY <1>5 DEF NextPass, Idle
  <2>2. passNo' \in 0 .. MaxPasses
    BY <1>1, <2>1, ConstructAssumption
  <2>3. QED
    BY <1>3, <2>1, <2>2, BetweenAttempts
<1>6. CASE EndPasses
  <2>1. /\ stack = <<>> /\ result = "none" /\ phase' = "lastMile" /\ todo' = Left(grid)
        /\ UNCHANGED <<search, stack, result, passNo, strict, entry>>
    BY <1>6 DEF EndPasses, Idle
  <2>2. QED
    BY <1>1, <1>3, <2>1, BetweenAttempts
<1>7. CASE Finish
  <2>1. /\ stack = <<>> /\ result = "none" /\ phase' = "done" /\ todo' = {}
        /\ UNCHANGED <<search, stack, result, passNo, strict, guard, entry>>
    BY <1>7 DEF Finish, Idle
  <2>2. QED
    BY <1>1, <2>1, BetweenAttempts
<1>8. QED
  BY <1>4, <1>5, <1>6, <1>7

\* A step of something else.
LEMMA StutterKeeps == FetInv /\ UNCHANGED vars => FetInv'
<1> SUFFICES ASSUME FetInv, UNCHANGED vars PROVE FetInv'
  OBVIOUS
<1>1. PICK past : Follows(past)
  BY DEF FetInv
<1>2. /\ grid' = grid /\ moveJournal' = moveJournal /\ stack' = stack /\ swapped' = swapped
      /\ result' = result /\ phase' = phase /\ todo' = todo /\ passNo' = passNo
      /\ strict' = strict /\ entry' = entry
  BY DEF vars
<1>3. FetTypes'
  BY <1>2 DEF FetInv, FetTypes
<1>4. History(past)' /\ TopHolds'
  BY <1>1, <1>2 DEF Follows, History, TopHolds, Top
<1>5. \A i \in 1 .. Len(stack') : FrameHolds(past, stack', todo', entry', strict', i)
  BY <1>1, <1>2 DEF Follows
<1>6. QED
  BY <1>3, <1>4, <1>5 DEF FetInv, Follows

\* Every step of solve keeps the invariant.
LEMMA StepKeeps == FetInv /\ [Next]_vars => FetInv'
<1> SUFFICES ASSUME FetInv, [Next]_vars PROVE FetInv'
  OBVIOUS
<1>1. CASE RandomSwap
  BY <1>1, GiveUpKeeps, PlaceFreeKeeps, EvaluateKeeps, DisplaceKeeps, NoCandidateKeeps,
     RecurseKeeps, NextDisplacedKeeps, BacktrackKeeps, OtherStepsKeep DEF RandomSwap
<1>2. CASE Solve
  BY <1>2, TryMainKeeps, TryLastMileKeeps, OtherStepsKeep DEF Solve
<1>3. CASE UNCHANGED vars
  BY <1>3, StutterKeeps
<1>4. QED
  BY <1>1, <1>2, <1>3 DEF Next

(***************************************************************************)
(* The theorems                                                            *)
(***************************************************************************)
\* The inductive invariant: at every step of solve the grids since the attempt began are
\* sound, the journal leads from each to the next, and every open call of randomSwap
\* still knows the grid it began with.
THEOREM ConstructionStaysSound == Spec => []FetInv
<1>1. Init => FetInv
  BY InitKeeps
<1>2. FetInv /\ [Next]_vars => FetInv'
  BY StepKeeps
<1>3. QED
  BY <1>1, <1>2, PTL DEF Spec

\* The type of the state: placements, rows, frames, and marks that never lie beyond the
\* journal (jrnRollback pops down to a mark).
THEOREM ConstructionTyped == Spec => []TypeOK
<1>1. FetInv => TypeOK
  BY FetInvType
<1>2. QED
  BY <1>1, ConstructionStaysSound, PTL

\* For every timetable: the rows of classes, teachers and rooms agree with actPlacement,
\* no two activities share a cell of a resource, and none stands on an off or fixed cell,
\* in the middle of any depth of displacements and rollbacks of randomSwap.
THEOREM RowsAgree == Spec => []GridConsistent
<1>1. FetInv => GridConsistent
  BY FetInvGrid
<1>2. QED
  BY <1>1, ConstructionStaysSound, PTL

\* getSubjectSessionLimit, tested for the activity that is placed, holds for all.
THEOREM LimitsStay == Spec => []LimitsHold
<1>1. FetInv => LimitsHold
  BY FetInvGrid
<1>2. QED
  BY <1>1, ConstructionStaysSound, PTL

\* jrnRollback to the mark of any open call restores the placements it began with.
THEOREM RollbackRestores == Spec => []RollbackIsExact
<1>1. FetInv => RollbackIsExact
  BY FetInvRollback
<1>2. QED
  BY <1>1, ConstructionStaysSound, PTL

\* The list of slots and occupants that randomSwap makes once is true for each slot it
\* tries later, whatever was displaced and undone in between.
THEOREM ListsStayTrue == Spec => []CandidatesAreFresh
<1>1. FetInv => CandidatesAreFresh
  BY FetInvCandidates
<1>2. QED
  BY <1>1, ConstructionStaysSound, PTL

\* An attempt of randomSwap never costs a placed lesson, and a failed one changes nothing.
THEOREM AttemptsLoseNothing == Spec => []NothingLost
<1>1. FetInv => NothingLost
  BY FetInvLoss
<1>2. QED
  BY <1>1, ConstructionStaysSound, PTL
=============================================================================
