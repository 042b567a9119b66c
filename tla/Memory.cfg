SPECIFICATION Spec
CONSTANTS
  Tasks = {p1, p2, p3}
  First = p1
  Pages = {code, heap, stack}
  Tables = {1, 2}
  Table <- MCTable
  FilePages = {code}
  Stack = stack
  NR_FRAMES = 8
  Frames = {f1, f2, f3, f4, f5}
  Low = low
  NoFrame = NoFrame
  Programs = {1}
SYMMETRY Symmetry
CHECK_DEADLOCK FALSE
INVARIANTS  WritableIsOwn
PROPERTY MemoryIsPrivate
