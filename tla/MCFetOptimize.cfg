SPECIFICATION Spec
CONSTANTS
    c1 = c1  c2 = c2  c3 = c3  c4 = c4  c5 = c5  t1 = t1  t2 = t2  t3 = t3  t4 = t4  lab = lab
    Days = 2
    Periods = 3
    Classes = {c1, c2, c3, c4, c5}
    Teachers = {t1, t2, t3, t4}
    Rooms = {lab}
    Act <- MCAct
    ClassOf <- MCClassOf
    TeachersOf <- MCTeachersOf
    RoomsOf <- MCRoomsOf
    SubjectOf <- MCSubjectOf
    Duration <- MCDuration
    Shift <- MCShift
    ClassOff <- MCClassOff
    TeacherOff <- MCTeacherOff
    RoomOff = {}
    SubjectOff <- MCSubjectOff
    Fixed <- MCFixed
    SessionLimit <- MCSessionLimit
    Scored = {t1, t2, t3, t4}
    LessonBlocks <- MCLessonBlocks
    SwapDepth = 2
    WalkSteps = 1
    InitialGrids <- MCInitialGrids
    Modes = {"optimize_singletons", "optimize_sessions"}
    EliteSize = 2
    MaxStagnant = 11
    MaxRestarts = 1
    PerturbMoves = 1
INVARIANTS OperatorsLeaveIntact MetricsDescribeSchedule NeverWorseThanInitial
PROPERTY KeepsGuard
CHECK_DEADLOCK FALSE
