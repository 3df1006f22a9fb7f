SPECIFICATION FairSpec
CONSTANTS
  Console = h0
  Others = {}
  Chars = {"a", "enter"}
  BuffSize = 2
  LineSize = 2
  MaxTyped = 2
  Nobody = Nobody
PROPERTY EnterIsSeen
CHECK_DEADLOCK FALSE
