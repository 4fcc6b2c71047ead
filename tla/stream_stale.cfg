SPECIFICATION Spec
CONSTANTS
  NumTransfers = 1
  Packets <- SmallPictures
  SizeBuf = 2
  Modes = {TRUE}
  MayFail = {"packet"}
  MaxStarts = 1
PROPERTY ShownOnce
CHECK_DEADLOCK FALSE
