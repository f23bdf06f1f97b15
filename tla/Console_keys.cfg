SPECIFICATION Spec
CONSTANTS
    Threads = {t1, t2}
    NULL = NULL
    Lines <- MCLines
    Keys <- TwoKeys
    MaxCalls = 2
    MaxPolled = 0
INVARIANT KeyReadOnce
CHECK_DEADLOCK FALSE
