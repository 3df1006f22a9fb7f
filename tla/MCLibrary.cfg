SPECIFICATION MCSpec
CONSTANTS
  Which = {"tree", "map", "semaphore", "barrier", "ncpage", "strings", "shells", "printf"}
  Keys = {0, 1, 2, 3, 4}
  Values = {p, q}
  NULL = NULL
  Procs = {p1, p2, p3, p4, p5}
  Initial = 2
  Members = {m1, m2, m3}
  Registrar = boot
  MaxRounds = 2
  NumPages = 3
  Harts = {h1, h2, h3}
  Null = Null
  Nobody = Nobody
  Half = 256
  Word = 4
  Texts <- SomeTexts
  Counts <- SomeCounts
  MemSize = 10
  LineSize = 12
  Lines <- SomeLines
  KeyBytes <- SomeBytes
  EventKinds <- SomeEvents
  NumHarts = 2
  Editors = {"kernel", "user", "events"}
  MaxKeys = 3
INVARIANTS
  TypesOK
  SynchronisationKept
  EachPageOnce
  HelpersRight
  FormattedRight
  ShownIsRun
  KeysOnce
PROPERTIES
  Dictionaries
  EverybodyPasses
CHECK_DEADLOCK FALSE
