\* Buffers of six characters.
CONSTANTS
  Name = {"a", "b"}
  Width <- MCWidth
  Path <- MCPath
  MaxParts = 3
  PATH_MAX = 6
SPECIFICATION Spec
CHECK_DEADLOCK FALSE
INVARIANTS
  BufferFits
