SPECIFICATION Spec
CONSTANTS
  NULL = NULL
  Frames = {f1, f2, f3}
  PreviewWindows = {w1}
  CaptureWindows = {w2}
  Callbacks = {o1}
  MaxFrame = 1
  PoolSize = 1
  ApiCalls = {"setPreviewDisplay", "startPreview", "stopPreview", "setFrameCallback", "setCaptureDisplay"}
  MayFail = {"duplicate", "convert", "onFrame", "alloc"}
  MaxSessions = 1
  MaxCaptured = 2
  MaxRefs = 1
SYMMETRY FrameSymmetry
INVARIANTS FrameOwnership MemoryBound
PROPERTY ImplementsChannel
CHECK_DEADLOCK FALSE
