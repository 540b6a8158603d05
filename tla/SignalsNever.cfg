\* A program that has a handler for a signal is ended by it.
CONSTANTS
  Signal = {"SIGKILL", "SIGCHLD", "SIGUSR1"}
  Ignored = {"SIGCHLD"}
  MaxSent = 3
SPECIFICATION Spec
CHECK_DEADLOCK FALSE
PROPERTIES
  HandlerCounts
