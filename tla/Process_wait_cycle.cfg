SPECIFICATION Spec
CONSTANTS
    Boot = b
    Threads = {b, t1, t2, t3}
    NULL = NULL
    ExitCodes = {0}
    HZ = 1
    SleepSecs = {1}
    JoinSecs = 1
    MaxFailures = 0
SYMMETRY ProcessSymmetry
INVARIANT NoWaitCycle
