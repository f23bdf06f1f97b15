SPECIFICATION SumSpec
CONSTANTS
  Threads = {t1, t2, t3}
  NULL = NULL
  InitialCount = 1
  MaxCount = 2
  PThreads = {b, p1, p2}
  Boot = b
  ExitCodes = {0}
  HZ = 1
  SleepSecs = {1}
  JoinSecs = 1
  MaxFailures = 0
  EThreads = {e1, e2}
  Handles = {h1, h2}
  RootHandle = h0
  MaxRetries = 1
  None = NULL
  Cpu = cpu
  Devices = {0, 1, 2}
  Timer = 1
  Drivers = {1, 2}
  NSlots = 4
  MaxDuds = 1
  MaxDepth = 2
  Cats = {c1, c2, c3}
  Mice = {m1, m2}
  NMeals = 2
INVARIANTS LockExclusive NoLostWakeup HandlesSound BowlsSound
PROPERTIES
  ImplementsMonitor WaitersServed ReadyRuns SleepEnds CallsEnd StuckLinePanics
CHECK_DEADLOCK FALSE
