\* A heap of two expansions at most.
CONSTANTS
  HEADER = 2
  ALIGN = 4
  Kheap = 4
  INIT_HEAP = 16
  EXPAND = 16
  TABLE = 4
  Size = {0, 3, 5}
  SizeA = {1, 4}
  Growth = {2, 3}
  MaxEnd = 35
  MaxLive = 4
SPECIFICATION Spec
CHECK_DEADLOCK FALSE
INVARIANTS
  TypeOK
  ListSound
  NoTrouble
PROPERTIES
  IsAllocator
