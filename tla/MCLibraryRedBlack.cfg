SPECIFICATION MCSchedule
CONSTANTS
  Which = {"tree"}
  Keys = {0, 1, 2, 3, 4, 5}
  Values = {p}
  NULL = NULL
  Procs = {p1}
  Initial = 1
  Members = {m1}
  Registrar = boot
  MaxRounds = 1
  NumPages = 1
  Harts = {h1}
  Null = Null
  Nobody = Nobody
  Half = 256
  Word = 4
  Texts <- SomeTexts
  Counts <- SomeCounts
  MemSize = 10
  LineSize = 12
  Lines <- SomeLines
  KeyBytes <- SomeBytes
  EventKinds <- SomeEvents
  NumHarts = 2
  Editors = {"kernel"}
  MaxKeys = 1
INVARIANT IsRedBlackTree
CHECK_DEADLOCK FALSE
