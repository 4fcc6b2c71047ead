SPECIFICATION FairSpec
CONSTANTS
  Clients = {1, 2}
  EncoderTypes = {0, 2}
  MayFail = {"open", "size", "prepare", "gone", "collect", "interrupt"}
  MayCall <- TwoCallers
  MaxCalls <- FourAndOne
  MaxRecordings = 2
INVARIANTS TypeOK StopWaits EndsClean OneLatePicture CameraKept
PROPERTIES StopReturns ReleaseEnds
CHECK_DEADLOCK FALSE
