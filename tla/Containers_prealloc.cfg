SPECIFICATION Spec
CONSTANTS
  Threads = {c1, c2, c3}
  QueueSize = 2
  KeepMax = 3
  NBits = 5
  BitsPerWord = 3
  None = None
INVARIANT PreallocationSuffices
CHECK_DEADLOCK FALSE
