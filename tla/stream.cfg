SPECIFICATION FairSpec
CONSTANTS
  NumTransfers = 2
  Packets <- TwoPictures
  SizeBuf = 3
  Modes = {TRUE, FALSE}
  MayFail = {"start", "submit", "resubmit", "error", "packet", "header", "empty", "noData", "noEof", "loss", "unplug"}
  MaxStarts = 1
INVARIANTS TypeOK FrameIntegrity StopDrains NoWakeupLost
PROPERTIES ImplementsSource FramesReachCaller CloseReturns
CHECK_DEADLOCK FALSE
