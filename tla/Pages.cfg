\* A page that is not usable memory below two that are, of which the search finds
\* the first whether or not it is used; what brk_start holds is an address behind
\* the heap.
CONSTANTS
  p1 = p1
  p2 = p2
  Proc = {p1, p2}
  TotalPages = 10
  WordBits = 5
  Usable = {0, 1, 2, 3, 4, 5, 7, 8}
  KernelPages = 1
  Framebuffer = {9}
  INIT_HEAP_PAGES = 1
  GROW = 1
  MaxHeap = 2
  NoPage = NoPage
  PAGE = 2
  LIMIT = 8
  TOP = 4
  Direct = {7}
  KHEAP = 4
  STACK = 1
  MAX_STACK_SIZE = 4
  TABLE = 2
  InitProgram <- MCInit
  Program <- MCProgram
  Break = {4, 12, 14}
  BrkGarbage = {11}
SYMMETRY MCSymmetry
SPECIFICATION Spec
\* The kernel stops when it is out of memory.
CHECK_DEADLOCK FALSE
INVARIANTS
  TypeOK
  NothingLost
  StopsOnlyAtAHole
PROPERTIES
  OwnedOnceBut
