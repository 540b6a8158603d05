\* Two processes, up to three descriptors each: 3 is beyond what add_descriptor
\* gives first, so dup2 makes gaps.
CONSTANTS
  p1 = p1
  p2 = p2
  o1 = o1
  o2 = o2
  o3 = o3
  Process = {p1, p2}
  Boot = p1
  Obj = {o1, o2, o3}
  FdArg = {0, 1, 3}
  MaxFd = 7
  IdBound = 3
  MaxOpen = 3
SYMMETRY MCSymmetry
SPECIFICATION Spec
CHECK_DEADLOCK FALSE
INVARIANTS
  TypeOK
  DescriptorsInOrder
  CountsSound
PROPERTIES
  IsFdTable
