SPECIFICATION MCSpec
CONSTANTS
  Which = {"cpage", "mmu", "kmalloc", "process"}
  NumPages = 11
  BkPages = 4
  Sizes = {1, 2}
  Callers = {c1, c2, c3, c4, c5}
  NoBlock = NoBlock
  Harts = {h1, h2}
  Spaces = {kernel, user}
  Frames = {f1, f2, f3, f4}
  Index <- TwoIndices
  VPages <- ThreePages
  Leaves = {leaf}
  Null = Null
  None = None
  Pointers = {p1, p2, p3}
  Requests = {2, 3}
  PageUnits = 4
  Word = 256
  MaxPages = 8
  Careful = TRUE
  Processes = {q1}
  ProcessPages = {5, 6, 7, 8, 9}
  PageSize = 4
  Thread <- ThreadCode
  Trap <- TrapCode
  StackPointer = 96
  Files <- SomeFiles
  Copies <- SomeCopies
SYMMETRY Symmetry
INVARIANTS
  TypesOK
  BlocksDisjoint
  BlocksMarked
  PagesAccounted
  TablesSound
  HeapSound
  SwitchSafe
  ImageSound
PROPERTY MmuIsMap
CHECK_DEADLOCK FALSE
