SPECIFICATION SumSpec
CONSTANTS
  Threads = {t1, t2}
  Boot = t1
  Devices = {0, 1, 2}
  Timer = 1
  Drivers = {1, 2}
  NSlots = 4
  MaxDuds = 1
  MaxDepth = 2
  None = None
  PageSize = 4
  Sizes <- MCSizes
  NPages = 5
  NPageRefs = 2
  HeapRequests = {1, 2, 5}
  CThreads = {c1, c2, c3}
  QueueSize = 2
  KeepMax = 3
  NBits = 5
  BitsPerWord = 3
  HeapBase = 1
  HeapLimit = 10
  Requests = {0, 1, 2, 3}
  Bits = 8
  Chars = {"%", "#", "-", "0", "4", "q", "d", "o", "x", "p", "s", "c", "X"}
  Plain = {"z"}
  Nums = {0, 7, 128, 255}
  Lens = {0, 4}
  MaxFormat = 5
  W = 2
  Tables = {"randtbl", "a"}
  randtbl = "randtbl"
  Seeds = {1}
  VThreads = {"m", "t"}
  Menu = "m"
  NChunks = 2
  NThreads = 2
  NCreates = 2
  BufSize = 2
  FileSizes = {3, 4}
  MaxFailures = 1
SYMMETRY MCSymmetry
INVARIANTS InterruptsSound HeapSound MallocSound LibrarySound UnitTestsPass
  ReferencesSound TestsSound
PROPERTIES ImplementsLists ShutdownClean
CHECK_DEADLOCK FALSE
