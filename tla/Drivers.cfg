SPECIFICATION DriversSpec
CONSTANTS
    Threads = {t1, t2}
    NULL = NULL
    Lines <- MCLines
    Keys <- OneKey
    MaxCalls = 2
    MaxPolled = 1
    LThreads = {l1, l2}
    Data = {a, b}
    NoData = NoData
    LHD_SECTSIZE = 2
    d_blocks = 2
    MaxOffset = 2
    MaxResid = 4
INVARIANTS CompletionAwaited ClearToWrite Delivered UserWritesAtomic
PROPERTIES AtomicSectors DeviceFreed WriteEnds
CHECK_DEADLOCK FALSE
