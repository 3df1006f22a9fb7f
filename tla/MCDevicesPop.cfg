SPECIFICATION MCSpec
CONSTANTS
  Which = {"interrupts"}
  QueueSize = 6
  Capacity = 2
  Chains = {2, 3}
  MaxEvents = 3
  MaxRequests = 3
  BlockQueue = 8
  Word = 16
  Kinds = {"read", "write"}
  MaxReads = 3
  Sizes = {1}
  None = None
  Ports = {1, 2, 3}
  Machine <- QemuMachine
  Registers <- QemuRegisters
  ConfigBar = "bar4"
  SizeChoices <- QemuSizes
  Stride = 256
  Pad = 16
  HartZero = h0
  OtherHarts = {h1}
  Chars = {"a", "enter", "backspace", "ff"}
  Nobody = Nobody
  BuffSize = 2
  LineSize = 2
  MaxTyped = 3
  Disks <- MinixDisks
  Walkers = {"print", "cache"}
  Depth = 3
  ExtDisks <- ExtImages
  Lasts = {"end", "length"}
  Displays <- SomeDisplays
  Area = 224
  Unit = 40
  Pen = 2
  Full = 3
  Coordinates = {0, 2, 3}
  Garbage = {4, 15}
  MaxRefusals = 1
INVARIANT PopsAreEvents
CHECK_DEADLOCK FALSE
