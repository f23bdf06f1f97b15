SPECIFICATION SumSpec
CONSTANTS
    Boot = b
    Threads = {b, t1, t2}
    MThreads = {b, u1, u2, u3}
    NULL = NULL
    ExitCodes = {0, 1}
    HZ = 2
    SleepSecs = {2}
    JoinSecs = 1
    MaxFailures = 1
SYMMETRY MCSymmetry
VIEW WithoutKids
INVARIANTS
    ThreadsPlaced
    PidsOwned
    NoLostExit
    SemIsGate
    ListsAgree
PROPERTIES
    StatusAfterExit
    StatusKept
    PidsLifecycle
CHECK_DEADLOCK FALSE
