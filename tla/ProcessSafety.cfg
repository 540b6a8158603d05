SPECIFICATION Spec
CONSTANTS
  b1 = b1
  b2 = b2
  b3 = b3
  b4 = b4
  Idle = Idle
  NULL = NULL
  Block <- MCBlock4
  Signal = {"SIGSEGV", "SIGCHLD"}
  Ignored = {"SIGCHLD"}
  SegV = "SIGSEGV"
  PidArg <- MCPidArg
  StackGarbage = {0, 1}
  MaxSignals = 2
  SharedWait = FALSE
SYMMETRY MCSymmetry
INVARIANTS TypeOK RunningNotLost QueueSound NoPanic
PROPERTY FreesOnlyExited
