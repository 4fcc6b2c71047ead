SPECIFICATION FairSpec
CONSTANTS
  NULL = NULL
  Frames = {f1, f2}
  PreviewWindows = {w1}
  CaptureWindows = {}
  Callbacks = {o1}
  MaxFrame = 1
  PoolSize = 1
  ApiCalls = {"setPreviewDisplay", "startPreview", "setFrameCallback"}
  MayFail = {}
  MaxSessions = 1
  MaxCaptured = 2
  MaxRefs = 1
PROPERTIES PreviewFramesDrain CaptureFrameDrains
CHECK_DEADLOCK FALSE
