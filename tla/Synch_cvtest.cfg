SPECIFICATION CvtestSpec
CHECK_DEADLOCK FALSE
CONSTANTS
    Threads = {t1, t2}
    NULL = NULL
    InitialCount = 0
    MaxCount = 1
INVARIANT LockExclusive
