SPECIFICATION Spec
CONSTANTS
  NumTransfers = 2
  Packets <- TwoPictures
  SizeBuf = 3
  Modes = {TRUE}
  MayFail = {"unplug"}
  MaxStarts = 1
INVARIANT CloseEndsThreads
CHECK_DEADLOCK FALSE
