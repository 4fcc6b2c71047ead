SPECIFICATION Spec
CONSTANTS
  NULL = NULL
  Frames = {f1, f2, f3, f4}
  PreviewWindows = {w1}
  CaptureWindows = {w2}
  Callbacks = {o1}
  MaxFrame = 1
  PoolSize = 1
  ApiCalls = {"setPreviewDisplay", "startPreview", "stopPreview", "release"}
  MayFail = {"prepare", "stream", "thread", "wakeup"}
  MaxSessions = 2
  MaxCaptured = 2
  MaxRefs = 1
SYMMETRY FrameSymmetry
INVARIANTS TypeOK FrameOwnership MemoryBound StopQuiesces FreshFrames NoWakeupLost
CHECK_DEADLOCK FALSE
