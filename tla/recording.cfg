SPECIFICATION FairSpec
CONSTANTS
  NumEncoders = 2
  EncodeSrcs <- VideoAndAudio
  MayFail = {"codec", "prepare", "collect"}
  MaxFrames <- TwoAndOne
INVARIANTS TypeOK MuxerCount
PROPERTIES ImplementsMuxerFile FileFinished WaitersReleased
CHECK_DEADLOCK FALSE
