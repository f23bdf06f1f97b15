SPECIFICATION Spec
CONSTANTS
  Threads = {"m", "t"}
  Menu = "m"
  Config <- MCConfig
  Paths <- MCPaths
  Files <- MCFiles
  None = None
INVARIANT ReclaimedUnused
CHECK_DEADLOCK FALSE
