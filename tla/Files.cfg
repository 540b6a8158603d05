\* Two descriptors in all: one process has both, or a child has a copy.
CONSTANTS
  p1 = p1
  p2 = p2
  Process = {p1, p2}
  Boot = p1
  listdir <- MClistdir
  getsize <- MCgetsize
  strlen <- MCstrlen
  PathArg <- MCPathArg
  DeviceName <- MCDeviceName
  SelectArg <- MCSelectArg
  FlagArg = {{}}
  FdArg = {0, 1}
  Offset = {0}
  Bytes = {2, 7}
  Garbage = {0, 1}
  Blocks = 4
  MaxOpen = 2
  MaxListed = 2
  MaxCount = 2
  MaxFd = 7
  DIRENT = 2
  Word = 8
SPECIFICATION FairSpec
CHECK_DEADLOCK FALSE
INVARIANTS
  Sound
  IsTree
PROPERTIES
  SelectReturns
