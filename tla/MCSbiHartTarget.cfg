SPECIFICATION Spec
CONSTANTS
  Harts = {h0, h1, h2}
  Boot = h0
  Targets = {test_hart}
  LeavesM = {}
  Frames = {frame}
  None = None
  MaxCalls = 2
INVARIANT TargetDelivered
CHECK_DEADLOCK FALSE
