\* Seven slots are left for five blocks, so that blocks must push each other away.
SPECIFICATION Spec
CONSTANTS
    c1 = c1  c2 = c2  t1 = t1  t2 = t2  t3 = t3  lab = lab
    Days = 1
    Periods = 3
    Classes = {c1, c2}
    Teachers = {t1, t2, t3}
    Rooms = {lab}
    Act = {1, 2, 3, 4, 5}
    ClassOf <- MCClassOf
    TeachersOf <- MCTeachersOf
    RoomsOf <- MCRoomsOf
    SubjectOf <- MCSubjectOf
    Duration <- MCDuration
    Shift <- MCShift
    ClassOff <- MCClassOff
    TeacherOff <- MCTeacherOff
    RoomOff <- MCRoomOff
    SubjectOff <- MCSubjectOff
    Fixed <- MCFixed
    SessionLimit <- MCSessionLimit
    MaxLevel = 3
    CutLevel = 2
    MaxPasses = 2
    RelaxedPass = 1
    MinTwoGuard = TRUE
INVARIANTS GridConsistent RollbackIsExact CandidatesAreFresh NothingLost LimitsHold
PROPERTY Terminates
CHECK_DEADLOCK FALSE
