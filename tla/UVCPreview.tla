----------------------------- MODULE UVCPreview -----------------------------
(***************************************************************************)
(* The preview and capture pipeline of UVCPreview.cpp: the thread that     *)
(* calls the public methods, libuvc's callback thread, the preview thread  *)
(* and one capture thread per preview session, sharing two mutexes, two    *)
(* condition variables and a pool of frames.                               *)
(*                                                                         *)
(* A section under one mutex that does not wait is one action; a           *)
(* pthread_cond_wait splits it into "wait" and "woken".  Reads and writes  *)
(* the code makes outside every mutex are actions of their own.            *)
(***************************************************************************)
EXTENDS Integers, Sequences, FiniteSets, Functions

CONSTANTS
  Frames,       (* the uvc_frame_t objects malloc can hand out              *)
  PreviewWindows, (* the Surfaces the application draws the preview on      *)
  CaptureWindows, (* the Surfaces it records from                           *)
  Callbacks,    (* the IFrameCallback objects it listens with               *)
  NULL,
  MaxFrame,     (* MAX_FRAME: capacity of previewFrames                     *)
  PoolSize,     (* FRAME_POOL_SZ: capacity of mFramePool                    *)
  ApiCalls,     (* the public methods the application uses                  *)
  MayFail,      (* the external calls that may fail                         *)
  MaxSessions,  (* bound: preview threads created                           *)
  MaxCaptured,  (* bound: frames the camera delivers                        *)
  MaxRefs       (* bound: references one window may have                    *)

ASSUME SizesAssumption ==
  /\ MaxFrame \in Nat \ {0}
  /\ PoolSize \in Nat
  /\ MaxSessions \in Nat \ {0}
  /\ MaxCaptured \in Nat
  /\ MaxRefs \in Nat

ASSUME ObjectsAssumption ==
  /\ NULL \notin Frames \cup PreviewWindows \cup CaptureWindows \cup Callbacks
  /\ IsFiniteSet(Frames)

VARIABLES
  mIsRunning,        (* volatile flag, read and written without a lock       *)
  mIsCapturing,      (* volatile flag, read and written without a lock       *)
  mPreviewWindow, mCaptureWindow, mFrameCallbackObj,
  windowRefs,        (* references the native code holds on each window      *)
  previewFrames,     (* queue from libuvc to the preview thread              *)
  captureQueu,       (* latest frame, from the preview to the capture thread *)
  framePool,         (* mFramePool                                           *)
  live,              (* frames malloc'ed and not freed                       *)
  content,           (* the number of the picture in each frame, 0 for none  *)
  hold,              (* the frame each local variable of a thread points to  *)
  captureLock,       (* the API thread is inside capture_mutex               *)
  apiPc, apiCall,    (* the thread that calls the public methods             *)
  cbPc,              (* libuvc's callback thread                             *)
  captured,          (* pictures copied out of libuvc so far                 *)
  pvPc,              (* preview_thread                                       *)
  streaming,         (* libuvc delivers frames                               *)
  captureThread,     (* the pthread_t capture_thread; 0: not joinable        *)
  session,           (* preview threads created so far                       *)
  sessionBase,       (* captured when this session began                     *)
  cpPc, cpMode,      (* capture threads, one per session                     *)
  cpUsing,           (* the window or callback a capture thread is inside    *)
  delivered          (* the last picture given to onFrame                    *)

flags     == <<mIsRunning, mIsCapturing>>
targets   == <<mPreviewWindow, mCaptureWindow, mFrameCallbackObj, windowRefs>>
queues    == <<previewFrames, captureQueu>>
memory    == <<framePool, live, content>>
apiVars   == <<captureLock, apiPc, apiCall>>
cbVars    == <<cbPc, captured>>
sessions  == <<captureThread, session, sessionBase>>
pvVars    == <<pvPc, streaming>>
cpVars    == <<cpPc, cpMode, cpUsing, delivered>>
vars == <<flags, targets, queues, memory, hold, apiVars, cbVars, pvVars,
          sessions, cpVars>>

CaptureThreads == 1 .. MaxSessions

(* The local variables that own a frame: `copy` of                         *)
(* uvc_preview_frame_callback, `frame` and `converted` of the preview      *)
(* thread, `frame` (or callback_frame) and `converted` of a capture thread.*)
Copy           == <<"copy", 0>>
PvFrame        == <<"frame", 0>>
PvConverted    == <<"converted", 0>>
CpFrame(t)     == <<"frame", t>>
CpConverted(t) == <<"converted", t>>
Locals == {Copy} \cup ({"frame", "converted"} \X (0 .. MaxSessions))

Windows == PreviewWindows \cup CaptureWindows
FrameOrNull == Frames \cup {NULL}
Targets     == Windows \cup Callbacks \cup {NULL}

ApiPcs == {"idle", "createThread", "startFailed", "signalPreview",
           "signalCapture", "joinCapture", "joinPreview", "clearPreview",
           "clearCapture", "releaseWindows", "delete", "deleted",
           "waitCapture", "blockedOnCapture", "replace"}
CbPcs  == {"idle", "duplicate", "add"}
PvPcs  == {"none", "prepare", "startStream", "clear", "createCapture", "loop",
           "take", "blocked", "woken", "draw", "drawn", "addCapture", "exit",
           "stopStream", "joinCallback", "done"}
CpPcs  == {"none", "clear", "loop", "select", "check", "take", "blocked",
           "woken", "convert", "post", "posting", "callback", "converted",
           "invoke", "inCall", "leave", "forget", "broadcast", "done"}

Init ==
  /\ mIsRunning = FALSE /\ mIsCapturing = FALSE
  /\ mPreviewWindow = NULL /\ mCaptureWindow = NULL /\ mFrameCallbackObj = NULL
  /\ windowRefs = [w \in Windows |-> 0]
  /\ previewFrames = <<>> /\ captureQueu = NULL
  /\ framePool = {} /\ live = {} /\ content = [f \in Frames |-> 0]
  /\ hold = [l \in Locals |-> NULL]
  /\ captureLock = FALSE
  /\ apiPc = "idle" /\ apiCall = [op |-> "none", arg |-> NULL]
  /\ cbPc = "idle" /\ captured = 0
  /\ pvPc = "none" /\ streaming = FALSE
  /\ captureThread = 0 /\ session = 0 /\ sessionBase = 0
  /\ cpPc = [t \in CaptureThreads |-> "none"]
  /\ cpMode = [t \in CaptureThreads |-> "idle"]
  /\ cpUsing = [t \in CaptureThreads |-> NULL]
  /\ delivered = 0

-----------------------------------------------------------------------------
(* Frames: get_frame and recycle_frame.  The pool is a stack whose order   *)
(* nobody can tell, so it is a set; the content of a frame that is in the  *)
(* pool or on the heap is dead.                                            *)

(* Mutant: a frame handed out stays in the pool.                           *)
GetFrameLeavesIt(l, f) ==
  /\ f \in framePool \/ (framePool = {} /\ f \in Frames \ live)
  /\ framePool' = framePool \cup {f}
  /\ live' = live \cup {f}
  /\ hold' = [hold EXCEPT ![l] = f]

(* `l = get_frame(...)` returns f, from the pool if it has one.            *)
GetFrame(l, f) ==
  /\ \/ f \in framePool
     \/ framePool = {} /\ f \in Frames \ live
  /\ framePool' = framePool \ {f}
  /\ live' = live \cup {f}
  /\ hold' = [hold EXCEPT ![l] = f]

(* get_frame returns NULL: the pool is empty and malloc fails.             *)
NoFrameLeft ==
  framePool = {} /\ ("alloc" \in MayFail \/ live = Frames)

(* Mutant: the pool is one too large.                                      *)
KeptOneMore(pool, s) ==
  {s[i] : i \in {j \in DOMAIN s : j <= PoolSize + 1 - Cardinality(pool)}}

(* The frames of the sequence s that still fit in a pool.                  *)
Kept(pool, s) ==
  {s[i] : i \in {j \in DOMAIN s : j <= PoolSize - Cardinality(pool)}}

(* recycle_frame on each frame of s in turn: to the pool, or freed.        *)
Recycle(s) ==
  /\ framePool' = framePool \cup Kept(framePool, s)
  /\ live' = live \ (Range(s) \ Kept(framePool, s))
  /\ content' = [f \in Frames |-> IF f \in Range(s) THEN 0 ELSE content[f]]

(* Mutant: clearCaptureFrame without its null check.                       *)
QueuedCaptureUnchecked == <<captureQueu>>

QueuedCapture == IF captureQueu = NULL THEN <<>> ELSE <<captureQueu>>

(* Mutant: previewFrames.clear() is missing.                               *)
RecycleOnly == Recycle(previewFrames) /\ UNCHANGED previewFrames

clearPreviewFrame ==
  /\ Recycle(previewFrames)
  /\ previewFrames' = <<>>

clearCaptureFrame ==
  /\ Recycle(QueuedCapture)
  /\ captureQueu' = NULL

(* Windows are reference counted; NULL is never acquired or released.      *)
Acquired(refs, w) == IF w = NULL THEN refs ELSE [refs EXCEPT ![w] = @ + 1]
Released(refs, w) == IF w = NULL THEN refs ELSE [refs EXCEPT ![w] = @ - 1]

-----------------------------------------------------------------------------
(* The condition variables.  Only the preview thread waits on              *)
(* preview_sync; capture threads, and the API thread in setFrameCallback   *)
(* and setCaptureDisplay, wait on capture_sync.                            *)

(* Mutants: the wakeups are forgotten.                                     *)
NoSignal == UNCHANGED pvPc
NobodyWoken(pc) == pc

SignalPreview == pvPc' = IF pvPc = "blocked" THEN "woken" ELSE pvPc

BlockedCaptures == {t \in CaptureThreads : cpPc[t] = "blocked"}

(* pthread_cond_signal(&capture_sync) wakes one capture thread, if any waits. *)
SignalCapture ==
  \/ BlockedCaptures = {} /\ UNCHANGED cpPc
  \/ \E t \in BlockedCaptures : cpPc' = [cpPc EXCEPT ![t] = "woken"]

WokenCaptures(pc) ==
  [t \in CaptureThreads |-> IF pc[t] = "blocked" THEN "woken" ELSE pc[t]]
WokenApi == IF apiPc = "blockedOnCapture" THEN "replace" ELSE apiPc

-----------------------------------------------------------------------------
(* The API thread: the public methods.  They are taken to be called one at *)
(* a time, though not all of UVCCamera's are synchronized, and the         *)
(* encoder's thread calls stopCapture too.  What follows once a window is  *)
(* released too often is undefined: no more calls then.                    *)

Calls(m) ==
  apiPc = "idle" /\ m \in ApiCalls /\ \A w \in Windows : windowRefs[w] >= 0
ApiGoto(pc) == apiPc' = pc /\ UNCHANGED <<captureLock, apiCall>>
NoCall == [op |-> "none", arg |-> NULL]

(* The JNI layer acquires w with ANativeWindow_fromSurface; the old window *)
(* is released unless it is the same one.                                  *)
setPreviewDisplay(w) ==
  /\ Calls("setPreviewDisplay")
  /\ w # NULL => windowRefs[w] < MaxRefs
  /\ mPreviewWindow' = w
  /\ windowRefs' = IF w = mPreviewWindow THEN Acquired(windowRefs, w)
                   ELSE Released(Acquired(windowRefs, w), mPreviewWindow)
  /\ UNCHANGED <<flags, mCaptureWindow, mFrameCallbackObj, queues, memory, hold,
                 apiVars, cbVars, pvVars, sessions, cpVars>>

(* startPreview sets the flag before it takes preview_mutex.               *)
startPreview ==
  /\ Calls("startPreview") /\ session < MaxSessions
  /\ ~mIsRunning
  /\ mIsRunning' = TRUE
  /\ ApiGoto("createThread")
  /\ UNCHANGED <<mIsCapturing, targets, queues, memory, hold, cbVars, pvVars,
                 sessions, cpVars>>

CreatePreviewThread ==
  /\ apiPc = "createThread" /\ mPreviewWindow # NULL
  /\ pvPc' = "prepare"
  /\ session' = session + 1 /\ sessionBase' = captured
  /\ ApiGoto("idle")
  /\ UNCHANGED <<flags, targets, queues, memory, hold, cbVars, streaming,
                 captureThread, cpVars>>

PreviewThreadNotCreated ==
  /\ apiPc = "createThread"
  /\ mPreviewWindow = NULL \/ "thread" \in MayFail
  /\ ApiGoto("startFailed")
  /\ UNCHANGED <<flags, targets, queues, memory, hold, cbVars, pvVars, sessions,
                 cpVars>>

StartPreviewFails ==
  /\ apiPc = "startFailed"
  /\ mIsRunning' = FALSE
  /\ SignalPreview
  /\ ApiGoto("idle")
  /\ UNCHANGED <<mIsCapturing, targets, queues, memory, hold, cbVars, streaming,
                 sessions, cpVars>>

(* stopPreview, and UVCCamera::release, which calls it and then deletes    *)
(* the UVCPreview.                                                         *)
stopPreview(op) ==
  /\ Calls(IF op = "stop" THEN "stopPreview" ELSE "release")
  /\ mIsRunning' = FALSE
  /\ apiPc' = IF mIsRunning THEN "signalPreview" ELSE "clearPreview"
  /\ apiCall' = [op |-> op, arg |-> NULL]
  /\ UNCHANGED <<mIsCapturing, targets, queues, memory, hold, captureLock,
                 cbVars, pvVars, sessions, cpVars>>

StopSignalPreview ==
  /\ apiPc = "signalPreview"
  /\ SignalPreview
  /\ ApiGoto("signalCapture")
  /\ UNCHANGED <<flags, targets, queues, memory, hold, cbVars, streaming,
                 sessions, cpVars>>

StopSignalCapture ==
  /\ apiPc = "signalCapture"
  /\ SignalCapture
  /\ ApiGoto("joinCapture")
  /\ UNCHANGED <<flags, targets, queues, memory, hold, cbVars, pvVars, sessions,
                 cpMode, cpUsing, delivered>>

(* pthread_join(capture_thread).  The preview thread creates that thread,  *)
(* so the handle may be none yet, or one already joined; pthread_join then *)
(* fails at once (ESRCH) and the code goes on.                             *)
JoinCaptureThread ==
  /\ apiPc = "joinCapture"
  /\ captureThread # 0 => cpPc[captureThread] = "done"
  /\ captureThread' = 0
  /\ ApiGoto("joinPreview")
  /\ UNCHANGED <<flags, targets, queues, memory, hold, cbVars, pvVars, session,
                 sessionBase, cpVars>>

(* Mutant: stopPreview does not wait for the preview thread.               *)
DetachPreviewThread ==
  /\ apiPc = "joinPreview"
  /\ ApiGoto("clearPreview")
  /\ UNCHANGED <<flags, targets, queues, memory, hold, cbVars, pvVars, sessions, cpVars>>

(* pthread_join(preview_thread); clearDisplay then only paints the windows.*)
JoinPreviewThread ==
  /\ apiPc = "joinPreview"
  /\ pvPc = "done"
  /\ pvPc' = "none"
  /\ ApiGoto("clearPreview")
  /\ UNCHANGED <<flags, targets, queues, memory, hold, cbVars, streaming,
                 sessions, cpVars>>

StopClearPreview ==
  /\ apiPc = "clearPreview"
  /\ clearPreviewFrame
  /\ ApiGoto("clearCapture")
  /\ UNCHANGED <<flags, targets, captureQueu, hold, cbVars, pvVars, sessions,
                 cpVars>>

StopClearCapture ==
  /\ apiPc = "clearCapture"
  /\ clearCaptureFrame
  /\ ApiGoto("releaseWindows")
  /\ UNCHANGED <<flags, targets, previewFrames, hold, cbVars, pvVars, sessions,
                 cpVars>>

(* Each window under its own mutex; no other thread is left that uses the  *)
(* preview window, so the two sections are one step.                       *)
StopReleaseWindows ==
  /\ apiPc = "releaseWindows"
  /\ mPreviewWindow' = NULL /\ mCaptureWindow' = NULL
  /\ windowRefs' = Released(Released(windowRefs, mPreviewWindow), mCaptureWindow)
  /\ apiPc' = IF apiCall.op = "release" THEN "delete" ELSE "idle"
  /\ apiCall' = NoCall
  /\ UNCHANGED <<flags, mFrameCallbackObj, queues, memory, hold, captureLock,
                 cbVars, pvVars, sessions, cpVars>>

(* ~UVCPreview after stopPreview: windows and queues are already empty     *)
(* unless a thread survived, and the pool is freed.                        *)
DeleteUVCPreview ==
  /\ apiPc = "delete"
  /\ mPreviewWindow' = NULL /\ mCaptureWindow' = NULL
  /\ windowRefs' = Released(Released(windowRefs, mPreviewWindow), mCaptureWindow)
  /\ framePool' = {} /\ previewFrames' = <<>> /\ captureQueu' = NULL
  /\ live' = live \ (framePool \cup Range(previewFrames) \cup {captureQueu})
  /\ content' = [f \in Frames |-> IF f \in live' THEN content[f] ELSE 0]
  /\ ApiGoto("deleted")
  /\ UNCHANGED <<flags, mFrameCallbackObj, hold, cbVars, pvVars, sessions, cpVars>>

(* The common beginning of setFrameCallback and setCaptureDisplay, inside  *)
(* capture_mutex: a capture thread at work is told to stop, and waited for *)
(* if there is an old object it may be using.                              *)
BeginReplace(call, old) ==
  /\ captureLock' = TRUE
  /\ apiCall' = call
  /\ IF mIsRunning /\ mIsCapturing
     THEN /\ mIsCapturing' = FALSE
          /\ IF old # NULL
             THEN SignalCapture /\ apiPc' = "waitCapture"
             ELSE UNCHANGED cpPc /\ apiPc' = "replace"
     ELSE UNCHANGED <<mIsCapturing, cpPc>> /\ apiPc' = "replace"
  /\ UNCHANGED <<mIsRunning, queues, memory, hold, cbVars, pvVars, sessions,
                 cpMode, cpUsing, delivered>>

setFrameCallback(o) ==
  /\ Calls("setFrameCallback")
  /\ BeginReplace([op |-> "frameCallback", arg |-> o], mFrameCallbackObj)
  /\ UNCHANGED targets

setCaptureDisplay(w) ==
  /\ Calls("setCaptureDisplay")
  /\ w # NULL => windowRefs[w] < MaxRefs
  /\ BeginReplace([op |-> "captureDisplay", arg |-> w], mCaptureWindow)
  /\ windowRefs' = Acquired(windowRefs, w)
  /\ UNCHANGED <<mPreviewWindow, mCaptureWindow, mFrameCallbackObj>>

(* pthread_cond_wait(&capture_sync, &capture_mutex), not in a loop.        *)
WaitFinishingCapturing ==
  /\ apiPc = "waitCapture"
  /\ apiPc' = "blockedOnCapture" /\ captureLock' = FALSE
  /\ UNCHANGED <<apiCall, flags, targets, queues, memory, hold, cbVars, pvVars,
                 sessions, cpVars>>

Replace(op) ==
  /\ apiPc = "replace" /\ apiCall.op = op
  /\ apiPc' = "idle" /\ apiCall' = NoCall /\ captureLock' = FALSE
  /\ UNCHANGED <<flags, mPreviewWindow, queues, memory, hold, cbVars, pvVars,
                 sessions, cpVars>>

(* The rest of setFrameCallback: the old global reference is deleted; an   *)
(* object without onFrame is refused.                                      *)
ReplaceFrameCallback ==
  /\ Replace("frameCallback")
  /\ \/ mFrameCallbackObj' = apiCall.arg
     \/ /\ "onFrame" \in MayFail
        /\ apiCall.arg # mFrameCallbackObj
        /\ mFrameCallbackObj' = NULL
  /\ UNCHANGED <<mCaptureWindow, windowRefs>>

(* The rest of setCaptureDisplay; previewFormat is never RGB_565, so the   *)
(* window's format is never refused.                                       *)
ReplaceCaptureWindow ==
  /\ Replace("captureDisplay")
  /\ mCaptureWindow' = apiCall.arg
  /\ windowRefs' = IF apiCall.arg = mCaptureWindow THEN windowRefs
                   ELSE Released(windowRefs, mCaptureWindow)
  /\ UNCHANGED mFrameCallbackObj

ApiStep ==
  \/ CreatePreviewThread \/ PreviewThreadNotCreated \/ StartPreviewFails
  \/ StopSignalPreview \/ StopSignalCapture \/ JoinCaptureThread
  \/ JoinPreviewThread \/ StopClearPreview \/ StopClearCapture
  \/ StopReleaseWindows \/ DeleteUVCPreview
  \/ WaitFinishingCapturing \/ ReplaceFrameCallback \/ ReplaceCaptureWindow

ApiCall ==
  \/ \E w \in PreviewWindows \cup {NULL} : setPreviewDisplay(w)
  \/ \E w \in CaptureWindows \cup {NULL} : setCaptureDisplay(w)
  \/ \E o \in Callbacks \cup {NULL} : setFrameCallback(o)
  \/ startPreview
  \/ \E op \in {"stop", "release"} : stopPreview(op)

-----------------------------------------------------------------------------
(* libuvc's callback thread: uvc_preview_frame_callback, called with a     *)
(* frame of the negotiated size while the stream runs.                     *)

FrameCallback(f) ==
  /\ cbPc = "idle" /\ streaming /\ captured < MaxCaptured
  /\ mIsRunning
  /\ GetFrame(Copy, f)
  /\ cbPc' = "duplicate"
  /\ UNCHANGED <<content, captured, flags, targets, queues, apiVars, pvVars,
                 sessions, cpVars>>

DuplicateFrame ==
  /\ cbPc = "duplicate"
  /\ cbPc' = "add"
  /\ captured' = captured + 1
  /\ content' = [content EXCEPT ![hold[Copy]] = captured + 1]
  /\ UNCHANGED <<flags, targets, queues, framePool, live, hold, apiVars, pvVars,
                 sessions, cpVars>>

DuplicateFails ==
  /\ cbPc = "duplicate" /\ "duplicate" \in MayFail
  /\ cbPc' = "idle"
  /\ Recycle(<<hold[Copy]>>)
  /\ hold' = [hold EXCEPT ![Copy] = NULL]
  /\ UNCHANGED <<captured, flags, targets, queues, apiVars, pvVars, sessions,
                 cpVars>>

(* addPreviewFrame: a frame nobody wants, or that does not fit, goes back. *)
addPreviewFrame ==
  /\ cbPc = "add"
  /\ IF mIsRunning /\ Len(previewFrames) < MaxFrame
     THEN /\ previewFrames' = Append(previewFrames, hold[Copy])
          /\ SignalPreview
          /\ UNCHANGED memory
     ELSE /\ Recycle(<<hold[Copy]>>)
          /\ UNCHANGED <<previewFrames, pvPc>>
  /\ hold' = [hold EXCEPT ![Copy] = NULL]
  /\ cbPc' = "idle"
  /\ UNCHANGED <<captured, flags, targets, captureQueu, apiVars, streaming,
                 sessions, cpVars>>

CallbackStep == DuplicateFrame \/ DuplicateFails \/ addPreviewFrame

-----------------------------------------------------------------------------
(* The preview thread: preview_thread_func, prepare_preview, do_preview.   *)

PvGoto(from, to) == pvPc = from /\ pvPc' = to
PvOnly == UNCHANGED <<flags, targets, apiVars, cbVars, cpVars>>
PvKeepsFrames == UNCHANGED <<queues, memory, hold>>

(* A failed negotiation ends the thread; mIsRunning stays set.             *)
PreparePreview ==
  /\ \/ PvGoto("prepare", "startStream")
     \/ "prepare" \in MayFail /\ PvGoto("prepare", "done")
  /\ PvOnly /\ PvKeepsFrames /\ UNCHANGED <<streaming, sessions>>

StartStreaming ==
  /\ \/ PvGoto("startStream", "clear") /\ streaming' = TRUE
     \/ /\ "stream" \in MayFail
        /\ PvGoto("startStream", "done") /\ UNCHANGED streaming
  /\ PvOnly /\ PvKeepsFrames /\ UNCHANGED sessions

PvClearPreviewFrame ==
  /\ PvGoto("clear", "createCapture")
  /\ clearPreviewFrame
  /\ PvOnly /\ UNCHANGED <<captureQueu, hold, streaming, sessions>>

(* The result of pthread_create is not looked at.                          *)
CreateCaptureThread ==
  /\ PvGoto("createCapture", "loop")
  /\ \/ /\ captureThread' = session
        /\ cpPc' = [cpPc EXCEPT ![session] = "clear"]
     \/ "thread" \in MayFail /\ UNCHANGED <<captureThread, cpPc>>
  /\ PvKeepsFrames
  /\ UNCHANGED <<flags, targets, apiVars, cbVars, streaming, session, sessionBase,
                 cpMode, cpUsing, delivered>>

PvLoop ==
  /\ PvGoto("loop", IF mIsRunning THEN "take" ELSE "exit")
  /\ PvOnly /\ PvKeepsFrames /\ UNCHANGED <<streaming, sessions>>

(* The end of waitPreviewFrame, reached with or without having waited.     *)
TakePreviewFrame ==
  /\ IF mIsRunning /\ previewFrames # <<>>
     THEN /\ hold' = [hold EXCEPT ![PvFrame] = Head(previewFrames)]
          /\ previewFrames' = Tail(previewFrames)
          /\ pvPc' = "draw"
     ELSE UNCHANGED <<hold, previewFrames>> /\ pvPc' = "loop"
  /\ PvOnly /\ UNCHANGED <<captureQueu, memory, streaming, sessions>>

waitPreviewFrame ==
  \/ pvPc = "take" /\ previewFrames # <<>> /\ TakePreviewFrame
  \/ /\ previewFrames = <<>> /\ PvGoto("take", "blocked")
     /\ PvOnly /\ PvKeepsFrames /\ UNCHANGED <<streaming, sessions>>
  \/ pvPc = "woken" /\ TakePreviewFrame

(* draw_preview_one: convert into a frame of its own, paint the window     *)
(* under preview_mutex, recycle the converted frame; without a window or a *)
(* free frame it does nothing.                                             *)
DrawPreviewOne(f) ==
  /\ PvGoto("draw", "drawn") /\ mPreviewWindow # NULL
  /\ GetFrame(PvConverted, f)
  /\ PvOnly /\ UNCHANGED <<queues, content, streaming, sessions>>

DrawNothing ==
  /\ PvGoto("draw", "addCapture") /\ (mPreviewWindow = NULL \/ NoFrameLeft)
  /\ PvOnly /\ PvKeepsFrames /\ UNCHANGED <<streaming, sessions>>

DrawnPreviewOne ==
  /\ PvGoto("drawn", "addCapture")
  /\ Recycle(<<hold[PvConverted]>>)
  /\ hold' = [hold EXCEPT ![PvConverted] = NULL]
  /\ PvOnly /\ UNCHANGED <<queues, streaming, sessions>>

(* addCaptureFrame keeps only the latest frame; when the preview no longer *)
(* runs the frame is neither queued nor recycled.                          *)
addCaptureFrame ==
  /\ PvGoto("addCapture", "loop") /\ ~captureLock
  /\ hold' = [hold EXCEPT ![PvFrame] = NULL]
  /\ IF mIsRunning
     THEN /\ Recycle(QueuedCapture)
          /\ captureQueu' = hold[PvFrame]
          /\ cpPc' = WokenCaptures(cpPc)
          /\ apiPc' = WokenApi
     ELSE UNCHANGED <<memory, captureQueu, cpPc, apiPc>>
  /\ UNCHANGED <<flags, targets, previewFrames, captureLock, apiCall, cbVars,
                 streaming, sessions, cpMode, cpUsing, delivered>>

(* pthread_cond_signal(&capture_sync), outside capture_mutex.              *)
PvSignalCapture ==
  /\ PvGoto("exit", "stopStream")
  /\ \/ /\ apiPc # "blockedOnCapture" \/ BlockedCaptures # {}
        /\ SignalCapture /\ UNCHANGED apiPc
     \/ /\ apiPc = "blockedOnCapture"
        /\ apiPc' = WokenApi /\ UNCHANGED cpPc
  /\ PvKeepsFrames
  /\ UNCHANGED <<flags, targets, captureLock, apiCall, cbVars, streaming, sessions,
                 cpMode, cpUsing, delivered>>

(* uvc_stop_streaming joins libuvc's callback thread before it returns.    *)
StopStreaming ==
  /\ \/ PvGoto("stopStream", "joinCallback") /\ streaming' = FALSE
     \/ PvGoto("joinCallback", "done") /\ cbPc = "idle" /\ UNCHANGED streaming
  /\ PvOnly /\ PvKeepsFrames /\ UNCHANGED sessions

PreviewStep ==
  \/ PreparePreview \/ StartStreaming \/ PvClearPreviewFrame
  \/ CreateCaptureThread \/ PvLoop \/ waitPreviewFrame
  \/ \E f \in Frames : DrawPreviewOne(f)
  \/ DrawNothing \/ DrawnPreviewOne \/ addCaptureFrame
  \/ PvSignalCapture \/ StopStreaming

-----------------------------------------------------------------------------
(* A capture thread t: capture_thread_func, do_capture and the loops it    *)
(* calls.  What a thread does with a deleted UVCPreview is undefined and   *)
(* is not followed.                                                        *)

CpAt(t, pc) == apiPc # "deleted" /\ cpPc[t] = pc
CpGoto(t, from, to) == CpAt(t, from) /\ cpPc' = [cpPc EXCEPT ![t] = to]
CpOnly == UNCHANGED <<mIsRunning, mPreviewWindow, mFrameCallbackObj, previewFrames,
                      captureLock, apiCall, cbVars, pvVars, sessions>>
CpKeeps == UNCHANGED <<apiPc, mIsCapturing, mCaptureWindow, windowRefs>>
CpKeepsFrames == UNCHANGED <<captureQueu, memory, hold>>

CpClearCaptureFrame(t) ==
  /\ CpGoto(t, "clear", "loop") /\ ~captureLock
  /\ clearCaptureFrame
  /\ CpOnly /\ CpKeeps /\ UNCHANGED <<hold, cpMode, cpUsing, delivered>>

(* do_capture: mIsCapturing is set again in every round.                   *)
CpLoop(t) ==
  /\ CpGoto(t, "loop", IF mIsRunning THEN "select" ELSE "done")
  /\ mIsCapturing' = (mIsCapturing \/ mIsRunning)
  /\ CpOnly /\ CpKeepsFrames
  /\ UNCHANGED <<apiPc, mCaptureWindow, windowRefs, cpMode, cpUsing, delivered>>

CpSelect(t) ==
  /\ CpGoto(t, "select", "check")
  /\ cpMode' = [cpMode EXCEPT ![t] = IF mCaptureWindow # NULL THEN "surface" ELSE "idle"]
  /\ CpOnly /\ CpKeeps /\ CpKeepsFrames /\ UNCHANGED <<cpUsing, delivered>>

(* The loop condition of do_capture_surface and do_capture_idle_loop.      *)
CpCheck(t) ==
  /\ CpGoto(t, "check", IF mIsRunning /\ mIsCapturing THEN "take"
                        ELSE IF cpMode[t] = "surface" THEN "leave" ELSE "broadcast")
  /\ CpOnly /\ CpKeeps /\ CpKeepsFrames /\ UNCHANGED <<cpMode, cpUsing, delivered>>

(* The end of waitCaptureFrame, reached with or without having waited.     *)
TakeCaptureFrame(t, from) ==
  /\ ~captureLock
  /\ IF mIsRunning /\ captureQueu # NULL
     THEN /\ CpGoto(t, from, IF cpMode[t] = "surface" THEN "convert" ELSE "callback")
          /\ hold' = [hold EXCEPT ![CpFrame(t)] = captureQueu]
          /\ captureQueu' = NULL
     ELSE CpGoto(t, from, "check") /\ UNCHANGED <<hold, captureQueu>>
  /\ CpOnly /\ CpKeeps /\ UNCHANGED <<memory, cpMode, cpUsing, delivered>>

waitCaptureFrame(t) ==
  \/ captureQueu # NULL /\ TakeCaptureFrame(t, "take")
  \/ /\ captureQueu = NULL /\ ~captureLock
     /\ CpGoto(t, "take", "blocked")
     /\ CpOnly /\ CpKeeps /\ CpKeepsFrames /\ UNCHANGED <<cpMode, cpUsing, delivered>>
  \/ TakeCaptureFrame(t, "woken")

(* do_capture_surface converts into a frame that it keeps while it loops.  *)
CpConvert(t, f) ==
  /\ CpGoto(t, "convert", "post") /\ mIsCapturing
  /\ hold[CpConverted(t)] = NULL
  /\ GetFrame(CpConverted(t), f)
  /\ CpOnly /\ CpKeeps /\ UNCHANGED <<captureQueu, content, cpMode, cpUsing, delivered>>

CpConvertAgain(t) ==
  /\ CpGoto(t, "convert", "post") /\ mIsCapturing
  /\ hold[CpConverted(t)] # NULL
  /\ CpOnly /\ CpKeeps /\ CpKeepsFrames /\ UNCHANGED <<cpMode, cpUsing, delivered>>

CpSkipSurface(t) ==
  /\ \/ CpGoto(t, "convert", "callback")
        /\ (~mIsCapturing \/ (hold[CpConverted(t)] = NULL /\ NoFrameLeft))
     \/ CpGoto(t, "post", "callback")
        /\ (mCaptureWindow = NULL \/ "convert" \in MayFail)
  /\ CpOnly /\ CpKeeps /\ CpKeepsFrames /\ UNCHANGED <<cpMode, cpUsing, delivered>>

(* copyToSurface on mCaptureWindow, without capture_mutex.                 *)
CpPost(t) ==
  /\ CpGoto(t, "post", "posting") /\ mCaptureWindow # NULL
  /\ cpUsing' = [cpUsing EXCEPT ![t] = mCaptureWindow]
  /\ CpOnly /\ CpKeeps /\ CpKeepsFrames /\ UNCHANGED <<cpMode, delivered>>

CpPosted(t) ==
  /\ CpGoto(t, "posting", "callback")
  /\ cpUsing' = [cpUsing EXCEPT ![t] = NULL]
  /\ CpOnly /\ CpKeeps /\ CpKeepsFrames /\ UNCHANGED <<cpMode, delivered>>

(* do_capture_callback, without capture_mutex.  Nobody listens, or the     *)
(* conversion has no frame or fails: the frame just goes back.             *)
CpNoCallback(t) ==
  /\ \/ CpGoto(t, "callback", "check") /\ (mFrameCallbackObj = NULL \/ NoFrameLeft)
     \/ CpGoto(t, "converted", "check") /\ "convert" \in MayFail
  /\ Recycle(<<hold[CpFrame(t)]>>)
  /\ hold' = [hold EXCEPT ![CpFrame(t)] = NULL]
  /\ CpOnly /\ CpKeeps /\ UNCHANGED <<captureQueu, cpMode, cpUsing, delivered>>

CpCallbackRaw(t) ==
  /\ CpGoto(t, "callback", "invoke") /\ mFrameCallbackObj # NULL
  /\ CpOnly /\ CpKeeps /\ CpKeepsFrames /\ UNCHANGED <<cpMode, cpUsing, delivered>>

(* With a mFrameCallbackFunc, callback_frame is a converted copy f in a    *)
(* frame of its own, and the original is recycled.                         *)
CpCallbackConverted(t, f) ==
  /\ CpGoto(t, "callback", "converted") /\ mFrameCallbackObj # NULL
  /\ \/ f \in framePool
     \/ framePool = {} /\ f \in Frames \ live
  /\ LET frame == hold[CpFrame(t)]
         pool  == framePool \ {f}
     IN  /\ framePool' = pool \cup Kept(pool, <<frame>>)
         /\ live' = (live \cup {f}) \ ({frame} \ Kept(pool, <<frame>>))
         /\ content' = [content EXCEPT ![f] = content[frame], ![frame] = 0]
  /\ hold' = [hold EXCEPT ![CpFrame(t)] = f]
  /\ CpOnly /\ CpKeeps /\ UNCHANGED <<captureQueu, cpMode, cpUsing, delivered>>

(* CallVoidMethod reads mFrameCallbackObj once more.                       *)
CpInvoke(t) ==
  /\ CpGoto(t, "invoke", "inCall") \/ CpGoto(t, "converted", "inCall")
  /\ cpUsing' = [cpUsing EXCEPT ![t] = mFrameCallbackObj]
  /\ delivered' = content[hold[CpFrame(t)]]
  /\ CpOnly /\ CpKeeps /\ CpKeepsFrames /\ UNCHANGED cpMode

CpReturn(t) ==
  /\ CpGoto(t, "inCall", "check")
  /\ cpUsing' = [cpUsing EXCEPT ![t] = NULL]
  /\ Recycle(<<hold[CpFrame(t)]>>)
  /\ hold' = [hold EXCEPT ![CpFrame(t)] = NULL]
  /\ CpOnly /\ CpKeeps /\ UNCHANGED <<captureQueu, cpMode, delivered>>

(* The end of do_capture_surface: the converted frame goes back and        *)
(* mCaptureWindow is released and then forgotten, without capture_mutex.   *)
CpReleaseWindow(t) ==
  /\ CpGoto(t, "leave", IF mCaptureWindow = NULL THEN "broadcast" ELSE "forget")
  /\ Recycle(IF hold[CpConverted(t)] = NULL THEN <<>> ELSE <<hold[CpConverted(t)]>>)
  /\ hold' = [hold EXCEPT ![CpConverted(t)] = NULL]
  /\ windowRefs' = Released(windowRefs, mCaptureWindow)
  /\ CpOnly
  /\ UNCHANGED <<apiPc, mIsCapturing, mCaptureWindow, captureQueu, cpMode, cpUsing,
                 delivered>>

CpForgetWindow(t) ==
  /\ CpGoto(t, "forget", "broadcast")
  /\ mCaptureWindow' = NULL
  /\ CpOnly /\ CpKeepsFrames
  /\ UNCHANGED <<apiPc, mIsCapturing, windowRefs, cpMode, cpUsing, delivered>>

(* pthread_cond_broadcast(&capture_sync), outside capture_mutex.           *)
CpBroadcast(t) ==
  /\ CpAt(t, "broadcast")
  /\ cpPc' = [WokenCaptures(cpPc) EXCEPT ![t] = "loop"]
  /\ apiPc' = WokenApi
  /\ CpOnly /\ CpKeepsFrames
  /\ UNCHANGED <<mIsCapturing, mCaptureWindow, windowRefs, cpMode, cpUsing, delivered>>

CaptureStep(t) ==
  \/ CpClearCaptureFrame(t) \/ CpLoop(t) \/ CpSelect(t) \/ CpCheck(t)
  \/ waitCaptureFrame(t)
  \/ \E f \in Frames : CpConvert(t, f) \/ CpCallbackConverted(t, f)
  \/ CpConvertAgain(t) \/ CpSkipSurface(t) \/ CpPost(t) \/ CpPosted(t)
  \/ CpNoCallback(t) \/ CpCallbackRaw(t) \/ CpInvoke(t) \/ CpReturn(t)
  \/ CpReleaseWindow(t) \/ CpForgetWindow(t) \/ CpBroadcast(t)

-----------------------------------------------------------------------------
(* POSIX lets pthread_cond_wait return without a signal.                   *)
SpuriousWakeup ==
  /\ "wakeup" \in MayFail
  /\ \/ pvPc = "blocked" /\ pvPc' = "woken" /\ UNCHANGED <<apiPc, cpPc>>
     \/ apiPc = "blockedOnCapture" /\ apiPc' = WokenApi /\ UNCHANGED <<pvPc, cpPc>>
     \/ \E t \in BlockedCaptures :
          cpPc' = [cpPc EXCEPT ![t] = "woken"] /\ UNCHANGED <<apiPc, pvPc>>
  /\ UNCHANGED <<flags, targets, queues, memory, hold, captureLock, apiCall, cbVars,
                 streaming, sessions, cpMode, cpUsing, delivered>>

Next ==
  \/ ApiCall \/ ApiStep
  \/ (\E f \in Frames : FrameCallback(f)) \/ CallbackStep
  \/ PreviewStep
  \/ \E t \in CaptureThreads : CaptureStep(t)
  \/ SpuriousWakeup

Spec == Init /\ [][Next]_vars

(* The operating system runs every thread that can run.  The application   *)
(* need not call, and the camera need not deliver, anything more; nothing  *)
(* is assumed about who gets a mutex that several threads want.            *)
FairSpec ==
  /\ Spec
  /\ WF_vars(ApiStep)
  /\ WF_vars(CallbackStep)
  /\ WF_vars(PreviewStep)
  /\ \A t \in CaptureThreads : WF_vars(CaptureStep(t))

-----------------------------------------------------------------------------
(* Properties                                                              *)

(* Every variable has its type: the queues hold frames, every thread is at *)
(* one of its places in the code.                                          *)
SettingTypes ==
  /\ mIsRunning \in BOOLEAN /\ mIsCapturing \in BOOLEAN
  /\ mPreviewWindow \in PreviewWindows \cup {NULL}
  /\ mCaptureWindow \in CaptureWindows \cup {NULL}
  /\ mFrameCallbackObj \in Callbacks \cup {NULL}
  /\ windowRefs \in [Windows -> Int]
FrameTypes ==
  /\ previewFrames \in Seq(Frames) /\ captureQueu \in FrameOrNull
  /\ framePool \in SUBSET Frames /\ live \in SUBSET Frames
  /\ content \in [Frames -> Nat]
  /\ hold \in [Locals -> FrameOrNull]
ApiTypes ==
  /\ captureLock \in BOOLEAN /\ apiPc \in ApiPcs
  /\ apiCall \in [op : {"none", "stop", "release"}, arg : {NULL}]
                 \cup [op : {"frameCallback"}, arg : Callbacks \cup {NULL}]
                 \cup [op : {"captureDisplay"}, arg : CaptureWindows \cup {NULL}]
WorkerTypes ==
  /\ cbPc \in CbPcs /\ captured \in Nat
  /\ pvPc \in PvPcs /\ streaming \in BOOLEAN
  /\ captureThread \in 0 .. MaxSessions
  /\ session \in 0 .. MaxSessions /\ sessionBase \in Nat
  /\ cpPc \in [CaptureThreads -> CpPcs]
  /\ cpMode \in [CaptureThreads -> {"idle", "surface"}]
  /\ cpUsing \in [CaptureThreads -> Targets]
  /\ delivered \in Nat
TypeOK == SettingTypes /\ FrameTypes /\ ApiTypes /\ WorkerTypes

(* Frames some pointer of the program still reaches, and those none does.  *)
Held == Range(hold) \ {NULL}
Owned == framePool \cup Range(previewFrames) \cup ({captureQueu} \ {NULL}) \cup Held
Leaked == live \ Owned

(* get_frame, the queues and recycle_frame hand a frame from one owner to  *)
(* the next: no frame is ever in two places (it would be recycled, filled  *)
(* or freed under its other owner), and none is used after it is freed.    *)
FrameOwnership ==
  /\ \A l, m \in Locals : l # m /\ hold[l] # NULL => hold[l] # hold[m]
  /\ \A i, j \in DOMAIN previewFrames : i # j => previewFrames[i] # previewFrames[j]
  /\ Held \cap (framePool \cup Range(previewFrames) \cup {captureQueu}) = {}
  /\ captureQueu \notin framePool \cup Range(previewFrames)
  /\ framePool \cap Range(previewFrames) = {}
  /\ Owned \subseteq live

(* previewFrames and mFramePool stay within MAX_FRAME and FRAME_POOL_SZ,   *)
(* and each preview session loses at most the one frame that               *)
(* addCaptureFrame drops when the preview has just been stopped.           *)
MemoryBound ==
  /\ Len(previewFrames) <= MaxFrame
  /\ Cardinality(framePool) <= PoolSize
  /\ Cardinality(Leaked) <= session

(* When stopPreview has returned, nothing of the session is left in the    *)
(* queues, the preview thread is gone and libuvc calls back no more.       *)
StopQuiesces ==
  apiPc \in {"idle", "deleted"} /\ ~mIsRunning =>
    /\ previewFrames = <<>> /\ captureQueu = NULL
    /\ pvPc = "none" /\ ~streaming /\ cbPc = "idle"

(* No picture of an earlier session is queued or drawn in a later one, or  *)
(* taken by its capture thread.  A capture thread that outlived its own    *)
(* session, because stopPreview failed to join it, may still have one from *)
(* before, and may still give it to onFrame.                               *)
FreshFrames ==
  /\ \A f \in Range(previewFrames) \cup ({captureQueu, hold[PvFrame]} \ {NULL}) :
       content[f] > sessionBase
  /\ \A t \in CaptureThreads :
       hold[CpFrame(t)] # NULL => content[hold[CpFrame(t)]] > sessionBase \/ t < session

(* waitPreviewFrame and waitCaptureFrame sleep only while their queue is   *)
(* empty, in every session and for every capture thread that is left: who  *)
(* fills a queue wakes whoever waits for it, and a wait begins in the      *)
(* section that found the queue empty.                                     *)
NoWakeupLost ==
  /\ pvPc = "blocked" => previewFrames = <<>>
  /\ \A t \in CaptureThreads : cpPc[t] = "blocked" => captureQueu = NULL

(* While the preview runs and the application is not in a call that takes  *)
(* capture_mutex, no wakeup is lost: a frame that libuvc queued is taken   *)
(* by the preview thread, and the frame left for the capture thread is     *)
(* taken or replaced, also when no further frame arrives to wake them.     *)
Disturbed == ~mIsRunning \/ apiCall.op # "none"
PreviewFramesDrain ==
  \A f \in Frames :
    f \in Range(previewFrames) ~> (f \notin Range(previewFrames) \/ Disturbed)
CaptureFrameDrains ==
  \A f \in Frames : captureQueu = f ~> (captureQueu # f \/ Disturbed)

(* The pictures on their way in the first session.  A frame that onFrame   *)
(* is looking at has arrived; an unfilled one has not started.             *)
FramesOnTheWay ==
  LET taken  == IF cpPc[1] = "inCall" THEN {} ELSE {hold[CpFrame(1)]}
      filled == IF cbPc = "add" THEN {hold[Copy]} ELSE {}
  IN  (taken \cup {captureQueu, hold[PvFrame]} \cup Range(previewFrames) \cup filled)
      \ {NULL}
InFlight == {content[f] : f \in FramesOnTheWay}

(* In one session the pipeline implements FrameChannel: whatever the       *)
(* application calls meanwhile, onFrame sees pictures in the order they    *)
(* were taken, each at most once, though some are dropped.                 *)
Channel == INSTANCE FrameChannel WITH accepted <- captured, inFlight <- InFlight
ImplementsChannel == Channel!Spec

(* setFrameCallback's "wait finishing capturing": the object whose onFrame *)
(* a capture thread is running is the one still registered, so its global  *)
(* reference has not been deleted.                                         *)
CallbackOutlivesCall ==
  \A t \in CaptureThreads :
    cpPc[t] = "inCall" => cpUsing[t] = mFrameCallbackObj

(* startCapture "should call while previewing": a capture window that was  *)
(* set stays until the application sets another one or stops the preview.  *)
RecordingContinues ==
  [][mCaptureWindow # NULL /\ mCaptureWindow' = NULL
       => ~mIsRunning \/ apiCall.op = "captureDisplay"]_vars

(* stopPreview stops the preview: once it is called, it returns.           *)
StopReturns == apiCall.op = "stop" ~> apiCall.op # "stop"
=============================================================================
