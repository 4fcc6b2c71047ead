SPECIFICATION Spec
CONSTANTS
  NULL = NULL
  Frames = {f1, f2, f3}
  PreviewWindows = {w1}
  CaptureWindows = {w2}
  Callbacks = {o1}
  MaxFrame = 1
  PoolSize = 1
  ApiCalls = {"setPreviewDisplay", "startPreview", "stopPreview", "setFrameCallback", "setCaptureDisplay"}
  MayFail = {}
  MaxSessions = 1
  MaxCaptured = 3
  MaxRefs = 1
SYMMETRY FrameSymmetry
PROPERTY RecordingContinues
CHECK_DEADLOCK FALSE
