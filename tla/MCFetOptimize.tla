--------------------------- MODULE MCFetOptimize ---------------------------
EXTENDS FetOptimize

\* Five classes whose lessons are loaded in parts: in each initial schedule the activities
\* not named are unplaced, so that every operator has one where it finds its move.
CONSTANTS c1, c2, c3, c4, c5, t1, t2, t3, t4, lab

MCAct == 1 .. 21
MCClassOf ==
    [a \in MCAct |-> CASE a <= 3 -> c1 [] a \in 4 .. 6 -> c2 [] a \in 7 .. 11 -> c3
                       [] a \in 12 .. 15 -> c4 [] OTHER -> c5]
MCTeachersOf ==
    [a \in MCAct |-> {<<t2, t1, t3, t1, t3, t4, t4, t4, t4, t4, t1, t1, t1, t4, t4,
                       t1, t4, t1, t4, t1, t2>>[a]}]
MCRoomsOf == [a \in MCAct |-> IF a \in {2, 6} THEN {lab} ELSE {}]
\* The lessons of c5 are of six subjects with hours of their own.
MCSubjectOf == [a \in MCAct |-> IF a > 15 THEN {<<16, 17, 18, 16, 20, 21>>[a - 15]} ELSE MCTeachersOf[a]]
MCHours == [m \in {16, 17, 18, 20, 21} |->
    CASE m = 16 -> {0, 7} [] m = 17 -> {1} [] m = 18 -> {6} [] m = 20 -> {9} [] OTHER -> {10}]
MCSubjectOff == UNION {{<<{m}, s>> : s \in Slots \ MCHours[m]} : m \in DOMAIN MCHours}
MCDuration == [a \in MCAct |-> IF a = 6 THEN 2 ELSE 1]
MCShift == [c \in {c1, c2, c3, c4, c5} |-> IF c = c5 THEN "any" ELSE "sang"]
MCClassOff ==
    {<<c1, 8>>, <<c2, 1>>, <<c2, 2>>, <<c4, 8>>} \cup {<<c5, s>> : s \in {2, 3, 4, 5, 8, 11}}
MCTeacherOff == {<<t2, 6>>, <<t3, 6>>, <<t3, 7>>, <<t3, 8>>}
MCFixed == {[class |-> c4, slot |-> 2, subject |-> {}, teachers |-> {}, rooms |-> {}]}
MCSessionLimit == [c \in {c1, c2, c3, c4, c5} |->
    [m \in {{t} : t \in {t1, t2, t3, t4}} \cup {{m} : m \in DOMAIN MCHours} |-> 3]]
MCLessonBlocks == {[class |-> c3, subject |-> {t4}, len |-> 2, min |-> 0, max |-> 2]}

MCInitialGrids == {Relocated(EmptyGrid, p) : p \in
    {<<To(1, 7), To(2, 0), To(3, 1), To(4, 6), To(5, 0), To(6, 7)>>,
     <<To(3, 1), To(5, 0), To(7, 0), To(8, 1), To(9, 6), To(11, 2)>>,
     <<To(7, 0), To(8, 1), To(9, 2), To(10, 6), To(11, 7)>>,
     <<To(12, 0), To(13, 1), To(14, 6), To(15, 7), To(11, 8)>>,
     <<To(5, 0), To(7, 1), To(11, 7), To(12, 0), To(13, 6)>>,
     <<To(16, 0), To(17, 1), To(18, 6), To(19, 7), To(20, 9), To(21, 10)>>}}
=============================================================================
