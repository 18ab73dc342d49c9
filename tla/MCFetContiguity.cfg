SPECIFICATION Spec
CONSTANTS
    c1 = c1  c2 = c2  t1 = t1  t2 = t2  t3 = t3  lab = lab
    Days = 1
    Periods = 3
    Classes = {c1}
    Teachers = {t1, t2}
    Rooms = {}
    Act <- RunAct
    ClassOf <- RunClassOf
    TeachersOf <- RunTeachersOf
    RoomsOf <- RunRoomsOf
    SubjectOf <- RunSubjectOf
    Duration <- RunDuration
    Shift <- RunShift
    ClassOff = {}
    TeacherOff <- RunTeacherOff
    RoomOff = {}
    SubjectOff = {}
    Fixed = {}
    SessionLimit <- RunSessionLimit
    MaxLevel = 3
    CutLevel = 2
    MaxPasses = 2
    RelaxedPass = 1
    MinTwoGuard = FALSE
INVARIANT SubjectsContiguous
CHECK_DEADLOCK FALSE
