SPECIFICATION FairSpec
CONSTANTS
  Harts = {h0, h1, h2}
  Boot = h0
  Targets = {mcode, scode}
  LeavesM = {scode}
  Frames = {frame}
  None = None
  MaxCalls = 4
INVARIANTS
  TypeOK
  LocksHeldInside
  WakeupExact
  TableTellsTruth
PROPERTIES
  LifecycleSpec
  StartingLeadsToStarted
  EveryHartBoots
CHECK_DEADLOCK FALSE
