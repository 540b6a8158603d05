SPECIFICATION Spec
CONSTANTS
  b1 = b1
  b2 = b2
  b3 = b3
  b4 = b4
  Idle = Idle
  NULL = NULL
  Block <- MCBlock4
  Signal = {"SIGSEGV"}
  Ignored = {}
  SegV = "SIGSEGV"
  PidArg <- MCPidArgChild
  StackGarbage = {0}
  MaxSignals = 1
  SharedWait = FALSE
INVARIANT LiveNotLost
