SPECIFICATION MCSpec
CONSTANTS
  Which = {"cpage"}
  NumPages = 12
  BkPages = 1
  Sizes = {1, 4}
  Callers = {c1, c2, c3}
  NoBlock = NoBlock
  Harts = {h1}
  Spaces = {kernel}
  Frames = {f1}
  Index <- TwoIndices
  VPages <- ThreePages
  Leaves = {leaf}
  Null = Null
  None = None
  Pointers = {p1}
  Requests = {2}
  PageUnits = 4
  Word = 256
  MaxPages = 1
  Careful = TRUE
  Processes = {q1}
  ProcessPages = {}
  PageSize = 4
  Thread <- ThreadCode
  Trap <- TrapCode
  StackPointer = 96
  Files <- SomeFiles
  Copies <- SomeCopies
INVARIANT BlocksDisjoint
CHECK_DEADLOCK FALSE
