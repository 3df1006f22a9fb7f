SPECIFICATION MCSpec
CONSTANTS
  Harts = {h0, h1}
  Boot = h0
  Procs = {p1, p2, p3}
  Handles = {"address", "tree"}
  Slices = {1}
  MaxRuntime = 2
  None = None
INVARIANTS
  TypeOK
  EachProcessOnce
  HangsOnlyWhenFew
  RegistersKept
PROPERTIES
  NobodyStarves
CHECK_DEADLOCK FALSE
