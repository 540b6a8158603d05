\* A magic number that an older header has left.
CONSTANTS
  HEADER = 2
  ALIGN = 4
  Kheap = 4
  INIT_HEAP = 16
  EXPAND = 16
  TABLE = 4
  Size = {5, 6}
  SizeA = {1}
  Growth = {2, 3}
  MaxEnd = 35
  MaxLive = 4
SPECIFICATION Spec
CHECK_DEADLOCK FALSE
INVARIANTS
  HeaderIsItsOwn
