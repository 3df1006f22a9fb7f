SPECIFICATION MCSpec
CONSTANTS
  Which = {"kmalloc"}
  NumPages = 2
  BkPages = 1
  Sizes = {1}
  Callers = {c1}
  NoBlock = NoBlock
  Harts = {h1}
  Spaces = {kernel}
  Frames = {f1}
  Index <- TwoIndices
  VPages <- ThreePages
  Leaves = {leaf}
  Null = Null
  None = None
  Pointers = {p1, p2, p3}
  Requests = {2, 3}
  PageUnits = 4
  Word = 256
  MaxPages = 8
  Careful = FALSE
  Processes = {q1}
  ProcessPages = {}
  PageSize = 4
  Thread <- ThreadCode
  Trap <- TrapCode
  StackPointer = 96
  Files <- SomeFiles
  Copies <- SomeCopies
INVARIANT HeapBlocksApart
CHECK_DEADLOCK FALSE
