\* Three signals, of a kind that is ignored, one that is not, and SIGKILL.
CONSTANTS
  Signal = {"SIGKILL", "SIGCHLD", "SIGUSR1"}
  Ignored = {"SIGCHLD"}
  MaxSent = 3
SPECIFICATION FairSpec
CHECK_DEADLOCK FALSE
INVARIANTS
  HandlersNest
PROPERTIES
  KillEnds
