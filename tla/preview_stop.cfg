SPECIFICATION FairSpec
CONSTANTS
  NULL = NULL
  Frames = {f1, f2, f3}
  PreviewWindows = {w1}
  CaptureWindows = {}
  Callbacks = {o1}
  MaxFrame = 1
  PoolSize = 1
  ApiCalls = {"setPreviewDisplay", "startPreview", "stopPreview"}
  MayFail = {}
  MaxSessions = 1
  MaxCaptured = 1
  MaxRefs = 1
PROPERTY StopReturns
CHECK_DEADLOCK FALSE
