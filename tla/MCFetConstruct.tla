--------------------------- MODULE MCFetConstruct ---------------------------
(***************************************************************************)
(* A half day of two classes that share a teacher.                         *)
(***************************************************************************)
EXTENDS FetConstruct, TLC

CONSTANTS c1, c2, t1, t2, t3, lab

MCClassOf == 1 :> c1 @@ 2 :> c1 @@ 3 :> c2 @@ 4 :> c2 @@ 5 :> c1
MCTeachersOf == 1 :> {t1} @@ 2 :> {t2} @@ 3 :> {t1} @@ 4 :> {t2, t3} @@ 5 :> {t3}
MCRoomsOf == 1 :> {lab} @@ 2 :> {} @@ 3 :> {} @@ 4 :> {lab} @@ 5 :> {}
MCSubjectOf == 1 :> "math" @@ 2 :> "art" @@ 3 :> "math" @@ 4 :> "art" @@ 5 :> "art"
MCDuration == 1 :> 1 @@ 2 :> 1 @@ 3 :> 2 @@ 4 :> 1 @@ 5 :> 1
MCShift == c1 :> "any" @@ c2 :> "sang"
MCClassOff == {<<c1, 3>>, <<c1, 5>>}
MCTeacherOff == {<<t2, 0>>}
MCRoomOff == {<<lab, 4>>}
MCSubjectOff == {<<"math", 4>>}
MCFixed == {[class |-> c1, slot |-> 0, subject |-> "flag", teachers |-> {t3}, rooms |-> {}]}
MCSessionLimit == [c \in {c1, c2} |-> "math" :> 2 @@ "art" :> 1 @@ "flag" :> 1]

(***************************************************************************)
(* One class; three lessons of a subject may share a session, and the one  *)
(* lesson of another subject fits in the middle period only.               *)
(***************************************************************************)
RunAct == 1 .. 4
RunClassOf == [a \in RunAct |-> c1]
RunTeachersOf == [a \in RunAct |-> IF a = 4 THEN {t1} ELSE {t2}]
RunRoomsOf == [a \in RunAct |-> {}]
RunSubjectOf == [a \in RunAct |-> IF a = 4 THEN "math" ELSE "art"]
RunDuration == [a \in RunAct |-> 1]
RunShift == c1 :> "any"
RunTeacherOff == {t1} \X {0, 2, 3, 4, 5}
RunSessionLimit == c1 :> ("math" :> 1 @@ "art" :> 3)
=============================================================================
