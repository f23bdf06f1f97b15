SPECIFICATION SumSpec
CONSTANTS
  Threads = {a1, a2}
  PageSize = 2
  NFrames = 9
  NumTlb = 3
  StackPages = 1
  UserStack = 6
  Images <- MCImages
  Touched = {6, 10}
  Zero = Zero
  KernelData = KernelData
  NBlocks = 8
  Cells = 2
  NDirect = 1
  DbPerIdb = 2
  Names = {a, b}
  Fds = {f1}
  OpenModes <- MCOpenModes
  Offsets = {1}
  Lengths = {5}
  Writes <- MCWrites
  MaxFailures = 1
  Letters = {"df", "1", "on", " ", ";", "p"}
  BufSize = 6
  MaxArgs = 2
  Modulus = 4
  Programs = {p1, p2}
  FirstProgram = p1
  AddrSize = 8
  UserTop = 6
  Mapped = {0, 1, 2, 4, 5}
  Ptrs = {0, 2, 4, 7}
  Sizes = {0, 1, 2, 3, 7}
  MaxCalls = 2
  None = None
  NULL = NULL
INVARIANTS TlbCurrent MemoryPrivate FilesSound MenuFaithful SyscallsSound
PROPERTY ImplementsFileStore
SYMMETRY MCSymmetry
VIEW SumView
CHECK_DEADLOCK FALSE
