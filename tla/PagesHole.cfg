\* Below the end of the usable memory there is a page that is not usable, which
\* the search for a free page comes back to for ever.
CONSTANTS
  p1 = p1
  p2 = p2
  Proc = {p1, p2}
  TotalPages = 10
  WordBits = 5
  Usable = {0, 1, 2, 3, 4, 5, 6, 8}
  KernelPages = 1
  Framebuffer = {9}
  INIT_HEAP_PAGES = 1
  GROW = 1
  MaxHeap = 2
  NoPage = NoPage
  PAGE = 2
  LIMIT = 8
  TOP = 4
  Direct = {7}
  KHEAP = 4
  STACK = 1
  MAX_STACK_SIZE = 4
  TABLE = 2
  InitProgram <- MCInit
  Program <- MCProgram
  Break = {4, 12, 14}
  BrkGarbage = {11}
SYMMETRY MCSymmetry
SPECIFICATION Spec
CHECK_DEADLOCK FALSE
INVARIANT StopsOnlyWhenFull
