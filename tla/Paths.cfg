\* Paths of up to three parts and 9 characters, which is as long as PATH_MAX; a
\* path that is too long stops the kernel.
CONSTANTS
  Name = {"a", "b"}
  Width <- MCWidth
  Path <- MCPath
  MaxParts = 3
  PATH_MAX = 9
SPECIFICATION FairSpec
CHECK_DEADLOCK FALSE
INVARIANTS
  TypeOK
  PathsClean
PROPERTIES
  CleaningKeepsMeaningBelowRoot
  CleaningEnds
