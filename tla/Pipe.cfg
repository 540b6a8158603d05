\* A ring of three bytes: a read or a write may wrap, fill it or empty it.
CONSTANTS
  Zero = 0
  Byte = {0, 1}
  PIPE_SIZE = 3
  Request = {0, 1, 2, 3, 4}
SPECIFICATION Spec
INVARIANTS
  TypeOK
  PositionsAgree
PROPERTIES
  IsFifo
