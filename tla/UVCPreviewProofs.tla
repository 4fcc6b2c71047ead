-------------------------- MODULE UVCPreviewProofs --------------------------
(* Theorems about UVCPreview for every number of frames, sessions, windows *)
(* and callbacks, and every pool and queue size.                           *)
EXTENDS UVCPreview, TLAPS

(* A thread's local variable points to a frame exactly while the thread is *)
(* between taking it and handing it on.                                    *)
CpTaken == {"convert", "post", "posting", "callback", "converted", "invoke", "inCall"}
HoldInv ==
  /\ hold[Copy] # NULL <=> cbPc \in {"duplicate", "add"}
  /\ hold[PvFrame] # NULL <=> pvPc \in {"draw", "drawn", "addCapture"}
  /\ hold[PvConverted] # NULL <=> pvPc = "drawn"
  /\ \A t \in CaptureThreads : hold[CpFrame(t)] # NULL <=> cpPc[t] \in CpTaken

(* The local variables are different variables.                            *)
LEMMA LocalsDiffer ==
  /\ Copy \in Locals /\ PvFrame \in Locals /\ PvConverted \in Locals
  /\ Copy # PvFrame /\ Copy # PvConverted /\ PvFrame # PvConverted
  /\ \A t \in CaptureThreads :
       /\ CpFrame(t) \in Locals /\ CpConverted(t) \in Locals
       /\ CpFrame(t) # CpConverted(t)
       /\ CpFrame(t) \notin {Copy, PvFrame, PvConverted}
       /\ CpConverted(t) \notin {Copy, PvFrame, PvConverted}
       /\ \A u \in CaptureThreads :
            /\ CpFrame(t) # CpConverted(u)
            /\ t # u => CpFrame(t) # CpFrame(u) /\ CpConverted(t) # CpConverted(u)
  BY SizesAssumption DEF Copy, PvFrame, PvConverted, CpFrame, CpConverted, Locals, CaptureThreads

-----------------------------------------------------------------------------
(* What a step may do with frames.  Every action moves frames in one of    *)
(* the ways below; each way keeps the frame variables typed and every      *)
(* frame with one owner.                                                   *)
FramesFine == FrameTypes /\ FrameOwnership

(* recycle_frame puts some of its frames into the pool and frees the rest. *)
LEMMA RecycleSplits ==
  ASSUME FrameTypes, NEW s, Recycle(s)
  PROVE  /\ content' \in [Frames -> Nat]
         /\ \E kept \in SUBSET Range(s) :
              framePool' = framePool \cup kept /\ live' = live \ (Range(s) \ kept)
<1>1. Kept(framePool, s) \in SUBSET Range(s)
  BY DEF Kept, Range
<1> QED BY <1>1 DEF Recycle, FrameTypes

LEMMA RangeOfOne == ASSUME NEW f PROVE Range(<<f>>) = {f}
  BY DEF Range

(* l = get_frame(...), for a local variable that holds nothing.            *)
LEMMA GetFrameFine ==
  ASSUME FramesFine, NEW l \in Locals, hold[l] = NULL, NEW f \in Frames,
         GetFrame(l, f), UNCHANGED <<queues, content>>
  PROVE  FramesFine'
<1>1. FrameTypes'
  BY DEF FramesFine, FrameTypes, GetFrame, queues, FrameOrNull
<1>2. f \notin Held /\ f \notin Range(previewFrames) /\ f # captureQueu
  BY ObjectsAssumption DEF FramesFine, FrameOwnership, Owned, GetFrame, Held
<1>3. Held' = Held \cup {f}
  BY ObjectsAssumption DEF Held, GetFrame, FramesFine, FrameTypes, Range
<1>4. \A k, m \in Locals : k # m /\ hold'[k] # NULL => hold'[k] # hold'[m]
  BY <1>2 DEF Held, GetFrame, FramesFine, FrameTypes, FrameOwnership, Range
<1> QED
  BY <1>1, <1>2, <1>3, <1>4 DEF FramesFine, FrameOwnership, Owned, GetFrame, queues

(* recycle_frame(l), for a local variable that holds a frame.              *)
LEMMA RecycleLocalFine ==
  ASSUME FramesFine, NEW l \in Locals, hold[l] # NULL, Recycle(<<hold[l]>>),
         hold' = [hold EXCEPT ![l] = NULL], UNCHANGED queues
  PROVE  FramesFine'
<1>1. PICK kept \in SUBSET {hold[l]} :
        framePool' = framePool \cup kept /\ live' = live \ ({hold[l]} \ kept)
  BY RecycleSplits, RangeOfOne DEF FramesFine
<1>2. hold[l] \in Held
  BY DEF Held, FramesFine, FrameTypes, Range
<1>3. Held' = Held \ {hold[l]}
  BY DEF Held, FramesFine, FrameTypes, FrameOwnership, Range
<1>4. FrameTypes'
  BY <1>1, RecycleSplits DEF FramesFine, FrameTypes, FrameOrNull, queues
<1>5. \A k, m \in Locals : k # m /\ hold'[k] # NULL => hold'[k] # hold'[m]
  BY DEF FramesFine, FrameTypes, FrameOwnership
<1> QED
  BY <1>1, <1>2, <1>3, <1>4, <1>5 DEF FramesFine, FrameOwnership, Owned, queues

(* Recycling the preview queue, and emptying it.                           *)
LEMMA ClearPreviewFine ==
  ASSUME FramesFine, clearPreviewFrame, UNCHANGED <<captureQueu, hold>>
  PROVE  FramesFine'
<1>1. PICK kept \in SUBSET Range(previewFrames) :
        framePool' = framePool \cup kept /\ live' = live \ (Range(previewFrames) \ kept)
  BY RecycleSplits DEF FramesFine, clearPreviewFrame
<1>2. previewFrames' = <<>> /\ Range(previewFrames)' = {}
  BY DEF clearPreviewFrame, Range
<1>3. Range(previewFrames) \subseteq Frames
  BY DEF FramesFine, FrameTypes, Range
<1>4. FrameTypes'
  BY <1>1, <1>2, <1>3, RecycleSplits DEF FramesFine, FrameTypes, clearPreviewFrame
<1>5. Held' = Held
  BY DEF Held
<1> QED
  BY <1>1, <1>2, <1>4, <1>5 DEF FramesFine, FrameOwnership, Owned

(* The capture queue is recycled, and replaced by nothing or by what a     *)
(* local variable held.                                                    *)
LEMMA QueuedCaptureRange == Range(QueuedCapture) = {captureQueu} \ {NULL}
  BY RangeOfOne DEF QueuedCapture, Range

LEMMA ClearCaptureFine ==
  ASSUME FramesFine, clearCaptureFrame, UNCHANGED <<previewFrames, hold>>
  PROVE  FramesFine'
<1>1. PICK kept \in SUBSET ({captureQueu} \ {NULL}) :
        /\ framePool' = framePool \cup kept
        /\ live' = live \ (({captureQueu} \ {NULL}) \ kept)
  BY RecycleSplits, QueuedCaptureRange DEF FramesFine, clearCaptureFrame
<1>2. FrameTypes'
  BY <1>1, RecycleSplits DEF FramesFine, FrameTypes, FrameOrNull, clearCaptureFrame
<1>3. NULL \notin framePool' /\ NULL \notin Range(previewFrames)
  BY <1>2, ObjectsAssumption DEF FramesFine, FrameTypes, Range
<1>4. Held' = Held /\ NULL \notin Held
  BY DEF Held
<1> QED
  BY <1>1, <1>2, <1>3, <1>4 DEF FramesFine, FrameOwnership, Owned, clearCaptureFrame

LEMMA ReplaceCaptureFine ==
  ASSUME FramesFine, NEW l \in Locals, hold[l] # NULL, Recycle(QueuedCapture),
         captureQueu' = hold[l], hold' = [hold EXCEPT ![l] = NULL],
         UNCHANGED previewFrames
  PROVE  FramesFine'
<1>1. PICK kept \in SUBSET ({captureQueu} \ {NULL}) :
        /\ framePool' = framePool \cup kept
        /\ live' = live \ (({captureQueu} \ {NULL}) \ kept)
  BY RecycleSplits, QueuedCaptureRange DEF FramesFine
<1>2. FrameTypes'
  BY <1>1, RecycleSplits DEF FramesFine, FrameTypes, FrameOrNull
<1>3. hold[l] \in Held /\ Held' = Held \ {hold[l]}
  BY DEF Held, FramesFine, FrameTypes, FrameOwnership, Range
<1>4. \A k, m \in Locals : k # m /\ hold'[k] # NULL => hold'[k] # hold'[m]
  BY DEF FramesFine, FrameTypes, FrameOwnership
<1> QED
  BY <1>1, <1>2, <1>3, <1>4 DEF FramesFine, FrameOwnership, Owned

(* A local variable forgets its frame.                                     *)
LEMMA DropFine ==
  ASSUME FramesFine, NEW l \in Locals, hold' = [hold EXCEPT ![l] = NULL],
         UNCHANGED <<queues, memory>>
  PROVE  FramesFine'
<1>1. FrameTypes'
  BY DEF FramesFine, FrameTypes, FrameOrNull, queues, memory
<1>2. Held' \subseteq Held
  BY DEF Held, FramesFine, FrameTypes, Range
<1>3. \A k, m \in Locals : k # m /\ hold'[k] # NULL => hold'[k] # hold'[m]
  BY DEF FramesFine, FrameTypes, FrameOwnership
<1> QED
  BY <1>1, <1>2, <1>3 DEF FramesFine, FrameOwnership, Owned, queues, memory

(* A frame is queued for the preview thread, which then takes the oldest.  *)
LEMMA AppendFine ==
  ASSUME FramesFine, NEW l \in Locals, hold[l] # NULL,
         previewFrames' = Append(previewFrames, hold[l]),
         hold' = [hold EXCEPT ![l] = NULL], UNCHANGED <<captureQueu, memory>>
  PROVE  FramesFine'
<1>1. FrameTypes'
  BY DEF FramesFine, FrameTypes, FrameOrNull, memory
<1>2. hold[l] \in Held /\ Held' = Held \ {hold[l]}
  BY DEF Held, FramesFine, FrameTypes, FrameOwnership, Range
<1>3. /\ Range(previewFrames)' = Range(previewFrames) \cup {hold[l]}
      /\ \A i, j \in DOMAIN previewFrames' : i # j => previewFrames'[i] # previewFrames'[j]
  <2>1. previewFrames \in Seq(Frames) /\ hold[l] \in Frames
    BY DEF FramesFine, FrameTypes, FrameOrNull
  <2>2. /\ DOMAIN previewFrames = 1 .. Len(previewFrames) /\ Len(previewFrames) \in Nat
        /\ DOMAIN previewFrames' = 1 .. Len(previewFrames) + 1
        /\ previewFrames'[Len(previewFrames) + 1] = hold[l]
        /\ \A i \in DOMAIN previewFrames : previewFrames'[i] = previewFrames[i]
    BY <2>1
  <2>3. hold[l] \notin Range(previewFrames)
    BY <1>2 DEF FramesFine, FrameOwnership
  <2>4. Range(previewFrames)' = Range(previewFrames) \cup {hold[l]}
    BY <2>2 DEF Range
  <2> QED
    BY <2>2, <2>3, <2>4 DEF FramesFine, FrameOwnership, Range
<1>4. \A k, m \in Locals : k # m /\ hold'[k] # NULL => hold'[k] # hold'[m]
  BY DEF FramesFine, FrameTypes, FrameOwnership
<1> QED
  BY <1>1, <1>2, <1>3, <1>4 DEF FramesFine, FrameOwnership, Owned, memory

LEMMA TakePreviewFine ==
  ASSUME FramesFine, NEW l \in Locals, hold[l] = NULL, previewFrames # <<>>,
         previewFrames' = Tail(previewFrames),
         hold' = [hold EXCEPT ![l] = Head(previewFrames)],
         UNCHANGED <<captureQueu, memory>>
  PROVE  FramesFine'
<1> DEFINE f == Head(previewFrames)
<1>1. previewFrames \in Seq(Frames) /\ f \in Frames
  BY DEF FramesFine, FrameTypes
<1>2. FrameTypes'
  BY <1>1 DEF FramesFine, FrameTypes, FrameOrNull, memory
<1>3. /\ Range(previewFrames)' \subseteq Range(previewFrames) \ {f}
      /\ f \in Range(previewFrames)
      /\ \A i, j \in DOMAIN previewFrames' : i # j => previewFrames'[i] # previewFrames'[j]
  <2>1. /\ DOMAIN previewFrames = 1 .. Len(previewFrames) /\ Len(previewFrames) \in Nat \ {0}
        /\ DOMAIN previewFrames' = 1 .. Len(previewFrames) - 1
        /\ previewFrames[1] = f
        /\ \A i \in DOMAIN previewFrames' : previewFrames'[i] = previewFrames[i + 1]
    BY <1>1
  <2>2. \A i, j \in DOMAIN previewFrames : i # j => previewFrames[i] # previewFrames[j]
    BY DEF FramesFine, FrameOwnership
  <2> QED
    BY <2>1, <2>2 DEF Range
<1>4. f \notin Held /\ f # captureQueu
  BY <1>3 DEF FramesFine, FrameOwnership
<1>5. Held' = Held \cup {f}
  BY <1>1, ObjectsAssumption DEF Held, FramesFine, FrameTypes, Range
<1>6. \A k, m \in Locals : k # m /\ hold'[k] # NULL => hold'[k] # hold'[m]
  BY <1>4 DEF Held, FramesFine, FrameTypes, FrameOwnership, Range
<1> QED
  BY <1>2, <1>3, <1>4, <1>5, <1>6 DEF FramesFine, FrameOwnership, Owned, memory

(* A capture thread takes the frame of the capture queue.                  *)
LEMMA TakeCaptureFine ==
  ASSUME FramesFine, NEW l \in Locals, hold[l] = NULL, captureQueu # NULL,
         captureQueu' = NULL, hold' = [hold EXCEPT ![l] = captureQueu],
         UNCHANGED <<previewFrames, memory>>
  PROVE  FramesFine'
<1>1. FrameTypes'
  BY DEF FramesFine, FrameTypes, FrameOrNull, memory
<1>2. captureQueu \notin Held /\ Held' = Held \cup {captureQueu}
  BY DEF Held, FramesFine, FrameTypes, FrameOwnership, Range
<1>3. \A k, m \in Locals : k # m /\ hold'[k] # NULL => hold'[k] # hold'[m]
  BY <1>2 DEF Held, FramesFine, FrameTypes, FrameOwnership, Range
<1>4. NULL \notin framePool /\ NULL \notin Range(previewFrames) /\ NULL \notin Held
  BY ObjectsAssumption DEF FramesFine, FrameTypes, Range, Held
<1> QED
  BY <1>1, <1>2, <1>3, <1>4 DEF FramesFine, FrameOwnership, Owned, memory

LEMMA UnchangedFine ==
  ASSUME FramesFine, UNCHANGED <<queues, memory, hold>>
  PROVE  FramesFine'
  BY DEF FramesFine, FrameTypes, FrameOwnership, Owned, Held, queues, memory

(* A copy of the frame a local variable holds is put in a fresh frame that *)
(* takes its place, and the original is recycled (do_capture_callback).    *)
LEMMA ConvertLocalFine ==
  ASSUME FramesFine, NEW t \in CaptureThreads, NEW f \in Frames,
         hold[CpFrame(t)] # NULL, CpCallbackConverted(t, f)
  PROVE  FramesFine'
<1> DEFINE frame == hold[CpFrame(t)]
           kept  == Kept(framePool \ {f}, <<frame>>)
<1>1. /\ f \in framePool \/ (framePool = {} /\ f \in Frames \ live)
      /\ framePool' = (framePool \ {f}) \cup kept
      /\ live' = (live \cup {f}) \ ({frame} \ kept)
      /\ content' = [content EXCEPT ![f] = content[frame], ![frame] = 0]
      /\ hold' = [hold EXCEPT ![CpFrame(t)] = f]
      /\ UNCHANGED <<previewFrames, captureQueu>>
  BY DEF CpCallbackConverted, CpOnly
<1>2. kept \subseteq {frame}
  BY DEF Kept
<1> HIDE DEF kept
<1>3. CpFrame(t) \in Locals /\ frame \in Frames /\ frame \in Held
  BY LocalsDiffer DEF FramesFine, FrameTypes, FrameOrNull, Held, Range
<1>4. f \notin Held /\ f \notin Range(previewFrames) /\ f # captureQueu
  BY <1>1, ObjectsAssumption DEF FramesFine, FrameOwnership, Owned, Held
<1>5. FrameTypes'
  BY <1>1, <1>2, <1>3 DEF FramesFine, FrameTypes, FrameOrNull
<1>6. Held' = (Held \ {frame}) \cup {f}
  BY <1>1, <1>3, <1>4, ObjectsAssumption DEF Held, FramesFine, FrameTypes, FrameOwnership, Range
<1>7. \A k, m \in Locals : k # m /\ hold'[k] # NULL => hold'[k] # hold'[m]
  BY <1>1, <1>4, <1>3 DEF Held, FramesFine, FrameTypes, FrameOwnership, Range
<1>8. Range(previewFrames)' = Range(previewFrames)
  BY <1>1
<1> QED
  BY <1>1, <1>2, <1>3, <1>4, <1>5, <1>6, <1>7, <1>8 DEF FramesFine, FrameOwnership, Owned

-----------------------------------------------------------------------------
(* The inductive invariant: types, owners, what the local variables hold,  *)
(* and how far the threads are when a session starts or stops.             *)
Stopping == {"signalPreview", "signalCapture", "joinCapture", "joinPreview"}
Stopped  == {"clearPreview", "clearCapture", "releaseWindows", "delete", "deleted"}
StageInv ==
  /\ apiPc = "createThread" => session < MaxSessions
  /\ pvPc # "none" => session # 0
  /\ apiPc \in {"createThread", "startFailed"} => mIsRunning /\ pvPc = "none"
  /\ apiPc \in Stopping \cup Stopped => ~mIsRunning
  /\ ~mIsRunning /\ apiPc \notin Stopping => pvPc = "none"
  /\ pvPc \in {"none", "prepare", "startStream", "done"} => ~streaming /\ cbPc = "idle"
  /\ pvPc = "joinCallback" => ~streaming
  /\ pvPc = "none" /\ apiPc # "clearPreview" => previewFrames = <<>>
  /\ pvPc = "none" /\ apiPc \notin {"clearPreview", "clearCapture"} => captureQueu = NULL
  /\ \A t \in CaptureThreads : cpPc[t] # "none" =>
       \/ t < session
       \/ t = session /\ pvPc \notin {"prepare", "startStream", "clear", "createCapture"}
CoreInv == SettingTypes /\ ApiTypes /\ WorkerTypes /\ FramesFine /\ HoldInv
IInv == CoreInv /\ StageInv

LEMMA RefsTyped ==
  ASSUME NEW refs \in [Windows -> Int], NEW w \in Windows \cup {NULL}
  PROVE  Acquired(refs, w) \in [Windows -> Int] /\ Released(refs, w) \in [Windows -> Int]
  BY DEF Acquired, Released

(* Waking threads up keeps every one of them at a place of its code.       *)
LEMMA WakeupsTyped ==
  ASSUME ApiTypes, WorkerTypes
  PROVE  /\ WokenApi \in ApiPcs /\ WokenCaptures(cpPc) \in [CaptureThreads -> CpPcs]
         /\ SignalPreview => pvPc' \in PvPcs
         /\ SignalCapture => cpPc' \in [CaptureThreads -> CpPcs]
  BY DEF ApiTypes, WorkerTypes, WokenApi, WokenCaptures, SignalPreview, SignalCapture,
         BlockedCaptures, ApiPcs, PvPcs, CpPcs

(* Steps after which every local variable still holds what it should.      *)
LEMMA HoldUnchanged ==
  ASSUME HoldInv, UNCHANGED <<hold, cbPc, pvPc, cpPc>>
  PROVE  HoldInv'
  BY DEF HoldInv

LEMMA SignalPreviewHold ==
  ASSUME HoldInv, SignalPreview, UNCHANGED <<hold, cbPc, cpPc>>
  PROVE  HoldInv'
  BY DEF HoldInv, SignalPreview

LEMMA SignalCaptureHold ==
  ASSUME HoldInv, WorkerTypes, SignalCapture, UNCHANGED <<hold, cbPc, pvPc>>
  PROVE  HoldInv'
  BY DEF HoldInv, WorkerTypes, SignalCapture, BlockedCaptures, CpTaken

LEMMA PreviewMovesHold ==
  ASSUME HoldInv, UNCHANGED <<hold, cbPc, cpPc>>,
         pvPc \notin {"draw", "drawn", "addCapture"},
         pvPc' \notin {"draw", "drawn", "addCapture"}
  PROVE  HoldInv'
  BY DEF HoldInv

LEMMA CaptureMovesHold ==
  ASSUME HoldInv, WorkerTypes, NEW t \in CaptureThreads, NEW pc,
         cpPc' = [cpPc EXCEPT ![t] = pc], cpPc[t] \in CpTaken <=> pc \in CpTaken,
         UNCHANGED <<cbPc, pvPc>>,
         \A l \in Locals : l # CpConverted(t) => hold'[l] = hold[l]
  PROVE  HoldInv'
<1>1. \A u \in CaptureThreads : cpPc'[u] \in CpTaken <=> cpPc[u] \in CpTaken
  BY DEF WorkerTypes
<1>2. hold'[Copy] = hold[Copy] /\ hold'[PvFrame] = hold[PvFrame] /\ hold'[PvConverted] = hold[PvConverted]
  BY LocalsDiffer
<1>3. \A u \in CaptureThreads : hold'[CpFrame(u)] = hold[CpFrame(u)]
  BY LocalsDiffer
<1> QED
  BY <1>1, <1>2, <1>3 DEF HoldInv

(* The public methods.                                                     *)
LEMMA BeginReplaceFine ==
  ASSUME IInv, NEW call, NEW old, BeginReplace(call, old)
  PROVE  /\ FramesFine' /\ HoldInv' /\ WorkerTypes'
         /\ apiPc' \in ApiPcs /\ captureLock' \in BOOLEAN
         /\ mIsRunning' \in BOOLEAN /\ mIsCapturing' \in BOOLEAN /\ apiCall' = call
<1> USE DEF IInv, CoreInv, flags, queues, memory, cbVars, sessions, pvVars
<1>1. CASE SignalCapture /\ mIsCapturing' = FALSE /\ apiPc' = "waitCapture"
  BY <1>1, UnchangedFine, SignalCaptureHold, WakeupsTyped
  DEF BeginReplace, SettingTypes, WorkerTypes, StageInv, ApiPcs
<1>2. CASE UNCHANGED cpPc /\ mIsCapturing' \in {FALSE, mIsCapturing} /\ apiPc' = "replace"
  BY <1>2, UnchangedFine, HoldUnchanged
  DEF BeginReplace, SettingTypes, WorkerTypes, StageInv, ApiPcs
<1> QED
  BY <1>1, <1>2 DEF BeginReplace

LEMMA ApiCallFine == ASSUME IInv, ApiCall PROVE CoreInv'
<1> USE DEF IInv, CoreInv, flags, targets, queues, memory, apiVars, cbVars, sessions, pvVars, cpVars
<1>1. ASSUME NEW w \in PreviewWindows \cup {NULL}, setPreviewDisplay(w) PROVE CoreInv'
  <2>1. SettingTypes'
    BY <1>1, RefsTyped DEF setPreviewDisplay, SettingTypes, Windows
  <2> QED
    BY <1>1, <2>1, UnchangedFine, HoldUnchanged
    DEF setPreviewDisplay, ApiTypes, WorkerTypes
<1>2. ASSUME NEW w \in CaptureWindows \cup {NULL}, setCaptureDisplay(w) PROVE CoreInv'
  BY <1>2, BeginReplaceFine, RefsTyped DEF setCaptureDisplay, SettingTypes, ApiTypes, Windows
<1>3. ASSUME NEW o \in Callbacks \cup {NULL}, setFrameCallback(o) PROVE CoreInv'
  BY <1>3, BeginReplaceFine DEF setFrameCallback, SettingTypes, ApiTypes
<1>4. ASSUME startPreview PROVE CoreInv'
  BY <1>4, UnchangedFine, HoldUnchanged
  DEF startPreview, ApiGoto, ApiPcs, SettingTypes, ApiTypes, WorkerTypes
<1>5. ASSUME NEW op \in {"stop", "release"}, stopPreview(op) PROVE CoreInv'
  BY <1>5, UnchangedFine, HoldUnchanged
  DEF stopPreview, ApiPcs, SettingTypes, ApiTypes, WorkerTypes
<1> QED
  BY <1>1, <1>2, <1>3, <1>4, <1>5 DEF ApiCall

LEMMA ApiStepFine == ASSUME IInv, ApiStep PROVE CoreInv'
<1> USE DEF IInv, CoreInv, flags, targets, queues, memory, apiVars, cbVars, sessions, pvVars, cpVars
<1>1. ASSUME CreatePreviewThread PROVE CoreInv'
  <2>1. session + 1 \in 0 .. MaxSessions
    BY <1>1, SizesAssumption DEF CreatePreviewThread, WorkerTypes, StageInv
  <2>2. HoldInv'
    BY <1>1, PreviewMovesHold DEF CreatePreviewThread, StageInv, ApiGoto
  <2> QED
    BY <1>1, <2>1, <2>2, UnchangedFine
    DEF CreatePreviewThread, ApiGoto, ApiPcs, PvPcs, SettingTypes, ApiTypes, WorkerTypes
<1>2. ASSUME PreviewThreadNotCreated PROVE CoreInv'
  BY <1>2, UnchangedFine, HoldUnchanged
  DEF PreviewThreadNotCreated, ApiGoto, ApiPcs, SettingTypes, ApiTypes, WorkerTypes
<1>3. ASSUME StartPreviewFails PROVE CoreInv'
  <2>1. HoldInv' /\ pvPc' \in PvPcs
    BY <1>3, WakeupsTyped, SignalPreviewHold DEF StartPreviewFails
  <2> QED
    BY <1>3, <2>1, UnchangedFine
    DEF StartPreviewFails, ApiGoto, ApiPcs, SettingTypes, ApiTypes, WorkerTypes
<1>4. ASSUME StopSignalPreview PROVE CoreInv'
  <2>1. HoldInv' /\ pvPc' \in PvPcs
    BY <1>4, WakeupsTyped, SignalPreviewHold DEF StopSignalPreview
  <2> QED
    BY <1>4, <2>1, UnchangedFine
    DEF StopSignalPreview, ApiGoto, ApiPcs, SettingTypes, ApiTypes, WorkerTypes
<1>5. ASSUME StopSignalCapture PROVE CoreInv'
  BY <1>5, UnchangedFine, WakeupsTyped, SignalCaptureHold
  DEF StopSignalCapture, ApiGoto, ApiPcs, SettingTypes, ApiTypes, WorkerTypes
<1>6. ASSUME JoinCaptureThread PROVE CoreInv'
  BY <1>6, UnchangedFine, HoldUnchanged, SizesAssumption
  DEF JoinCaptureThread, ApiGoto, ApiPcs, SettingTypes, ApiTypes, WorkerTypes
<1>7. ASSUME JoinPreviewThread PROVE CoreInv'
  BY <1>7, UnchangedFine, PreviewMovesHold
  DEF JoinPreviewThread, ApiGoto, ApiPcs, PvPcs, SettingTypes, ApiTypes, WorkerTypes
<1>8. ASSUME StopClearPreview PROVE CoreInv'
  BY <1>8, ClearPreviewFine, HoldUnchanged
  DEF StopClearPreview, clearPreviewFrame, ApiGoto, ApiPcs, SettingTypes, ApiTypes, WorkerTypes
<1>9. ASSUME StopClearCapture PROVE CoreInv'
  BY <1>9, ClearCaptureFine, HoldUnchanged
  DEF StopClearCapture, ApiGoto, ApiPcs, SettingTypes, ApiTypes, WorkerTypes
<1>10. ASSUME StopReleaseWindows PROVE CoreInv'
  BY <1>10, UnchangedFine, HoldUnchanged, RefsTyped
  DEF StopReleaseWindows, Windows, NoCall, ApiPcs, SettingTypes, ApiTypes, WorkerTypes
<1>11. ASSUME DeleteUVCPreview PROVE CoreInv'
  <2>1. FrameTypes'
    BY <1>11 DEF DeleteUVCPreview, FramesFine, FrameTypes, FrameOrNull
  <2>2. Range(previewFrames)' = {} /\ Held' = Held /\ NULL \notin Held
    BY <1>11 DEF DeleteUVCPreview, Held, Range
  <2>3. FramesFine'
    BY <1>11, <2>1, <2>2 DEF DeleteUVCPreview, FramesFine, FrameTypes, FrameOwnership, Owned
  <2>4. SettingTypes'
    BY <1>11, RefsTyped DEF DeleteUVCPreview, SettingTypes, Windows
  <2> QED
    BY <1>11, <2>3, <2>4, HoldUnchanged
    DEF DeleteUVCPreview, ApiGoto, ApiPcs, ApiTypes, WorkerTypes
<1>12. ASSUME WaitFinishingCapturing PROVE CoreInv'
  <2>1. HoldInv'
    BY <1>12, HoldUnchanged DEF WaitFinishingCapturing
  <2>2. ApiTypes'
    BY <1>12 DEF WaitFinishingCapturing, ApiPcs, ApiTypes
  <2> QED
    BY <1>12, <2>1, <2>2, UnchangedFine DEF WaitFinishingCapturing, SettingTypes, WorkerTypes
<1>13. ASSUME ReplaceFrameCallback PROVE CoreInv'
  BY <1>13, UnchangedFine, HoldUnchanged
  DEF ReplaceFrameCallback, Replace, NoCall, ApiPcs, SettingTypes, ApiTypes, WorkerTypes
<1>14. ASSUME ReplaceCaptureWindow PROVE CoreInv'
  BY <1>14, UnchangedFine, HoldUnchanged, RefsTyped
  DEF ReplaceCaptureWindow, Replace, Windows, NoCall, ApiPcs, SettingTypes, ApiTypes, WorkerTypes
<1> QED
  BY <1>1, <1>2, <1>3, <1>4, <1>5, <1>6, <1>7, <1>8, <1>9, <1>10, <1>11, <1>12, <1>13, <1>14 DEF ApiStep


(* libuvc's callback thread.                                               *)
LEMMA CallbackFine ==
  ASSUME IInv, (\E f \in Frames : FrameCallback(f)) \/ CallbackStep
  PROVE  CoreInv'
<1> USE DEF IInv, CoreInv, flags, targets, queues, memory, apiVars, cbVars, sessions, pvVars, cpVars
<1> USE LocalsDiffer
<1>1. ASSUME NEW f \in Frames, FrameCallback(f) PROVE CoreInv'
  <2>1. hold[Copy] = NULL
    BY <1>1 DEF FrameCallback, HoldInv
  <2>2. FramesFine'
    BY <1>1, <2>1, GetFrameFine DEF FrameCallback
  <2>3. HoldInv'
    BY <1>1, ObjectsAssumption DEF FrameCallback, GetFrame, HoldInv, FramesFine, FrameTypes
  <2> QED
    BY <1>1, <2>2, <2>3 DEF FrameCallback, CbPcs, SettingTypes, ApiTypes, WorkerTypes
<1>2. ASSUME DuplicateFrame PROVE CoreInv'
  <2>1. HoldInv'
    BY <1>2 DEF DuplicateFrame, HoldInv
  <2>2. FramesFine'
    <3>1. captured + 1 \in Nat
      BY DEF WorkerTypes
    <3>2. content' \in [Frames -> Nat]
      BY <1>2, <3>1 DEF DuplicateFrame, FramesFine, FrameTypes
    <3> QED
      BY <1>2, <3>2 DEF DuplicateFrame, FramesFine, FrameTypes, FrameOwnership, Owned, Held
  <2> QED
    BY <1>2, <2>1, <2>2 DEF DuplicateFrame, CbPcs, SettingTypes, ApiTypes, WorkerTypes
<1>3. ASSUME DuplicateFails PROVE CoreInv'
  <2>1. FramesFine'
    BY <1>3, RecycleLocalFine DEF DuplicateFails, HoldInv
  <2>2. HoldInv'
    BY <1>3 DEF DuplicateFails, HoldInv, FramesFine, FrameTypes
  <2> QED
    BY <1>3, <2>1, <2>2 DEF DuplicateFails, CbPcs, SettingTypes, ApiTypes, WorkerTypes
<1>4. ASSUME addPreviewFrame PROVE CoreInv'
  <2>1. hold[Copy] # NULL
    BY <1>4 DEF addPreviewFrame, HoldInv
  <2>2. FramesFine'
    BY <1>4, <2>1, AppendFine, RecycleLocalFine DEF addPreviewFrame
  <2>3. SignalPreview \/ UNCHANGED pvPc
    BY <1>4 DEF addPreviewFrame
  <2>4. HoldInv'
    BY <1>4, <2>3 DEF addPreviewFrame, SignalPreview, HoldInv, FramesFine, FrameTypes
  <2> QED
    BY <1>4, <2>2, <2>3, <2>4, WakeupsTyped
    DEF addPreviewFrame, CbPcs, SettingTypes, ApiTypes, WorkerTypes
<1> QED
  BY <1>1, <1>2, <1>3, <1>4 DEF CallbackStep

(* The preview thread.                                                     *)
LEMMA PreviewFine == ASSUME IInv, PreviewStep PROVE CoreInv'
<1> USE DEF IInv, CoreInv, flags, targets, queues, memory, apiVars, cbVars, sessions, pvVars, cpVars
<1> USE LocalsDiffer DEF PvGoto, PvOnly, PvKeepsFrames
<1>1. ASSUME PreparePreview \/ StartStreaming \/ StopStreaming \/ PvLoop PROVE CoreInv'
  <2>1. /\ UNCHANGED <<queues, memory, hold, cbPc, cpPc>> /\ pvPc' \in PvPcs
        /\ pvPc \notin {"draw", "drawn", "addCapture"}
        /\ pvPc' \notin {"draw", "drawn", "addCapture"}
    BY <1>1 DEF PreparePreview, StartStreaming, StopStreaming, PvLoop, PvPcs
  <2> QED
    BY <1>1, <2>1, UnchangedFine, PreviewMovesHold
    DEF PreparePreview, StartStreaming, StopStreaming, PvLoop, SettingTypes, ApiTypes, WorkerTypes
<1>2. ASSUME PvClearPreviewFrame PROVE CoreInv'
  BY <1>2, ClearPreviewFine, PreviewMovesHold
  DEF PvClearPreviewFrame, PvPcs, SettingTypes, ApiTypes, WorkerTypes
<1>3. ASSUME CreateCaptureThread PROVE CoreInv'
  <2>1. session \in CaptureThreads
    BY <1>3, SizesAssumption DEF CreateCaptureThread, StageInv, WorkerTypes, CaptureThreads
  <2>2. cpPc[session] = "none"
    BY <1>3, <2>1, SizesAssumption DEF CreateCaptureThread, StageInv, WorkerTypes
  <2>3. /\ cpPc' \in [CaptureThreads -> CpPcs]
        /\ \A t \in CaptureThreads : cpPc'[t] \in CpTaken <=> cpPc[t] \in CpTaken
    BY <1>3, <2>1, <2>2 DEF CreateCaptureThread, WorkerTypes, CpPcs, CpTaken
  <2>4. HoldInv'
    BY <1>3, <2>3 DEF CreateCaptureThread, HoldInv
  <2> QED
    BY <1>3, <2>3, <2>4, UnchangedFine
    DEF CreateCaptureThread, PvPcs, SettingTypes, ApiTypes, WorkerTypes
<1>4. ASSUME waitPreviewFrame PROVE CoreInv'
  <2>1. CASE TakePreviewFrame /\ previewFrames # <<>> /\ mIsRunning
    <3>1. hold[PvFrame] = NULL /\ pvPc \in {"take", "woken"}
      BY <1>4 DEF waitPreviewFrame, HoldInv
    <3>2. FramesFine'
      BY <2>1, <3>1, TakePreviewFine DEF TakePreviewFrame
    <3>3. Head(previewFrames) # NULL
      BY <2>1, ObjectsAssumption DEF FramesFine, FrameTypes
    <3>4. HoldInv'
      BY <2>1, <3>1, <3>3 DEF TakePreviewFrame, HoldInv, FramesFine, FrameTypes
    <3> QED
      BY <2>1, <3>2, <3>4 DEF TakePreviewFrame, PvPcs, SettingTypes, ApiTypes, WorkerTypes
  <2>2. CASE UNCHANGED <<queues, memory, hold>> /\ pvPc' \in {"loop", "blocked"}
    <3>1. pvPc \in {"take", "woken"} /\ PvOnly /\ UNCHANGED <<streaming, sessions>>
      BY <1>4 DEF waitPreviewFrame, TakePreviewFrame
    <3> QED
      BY <2>2, <3>1, UnchangedFine, PreviewMovesHold DEF PvPcs, SettingTypes, ApiTypes, WorkerTypes
  <2> QED
    BY <1>4, <2>1, <2>2 DEF waitPreviewFrame, TakePreviewFrame
<1>5. ASSUME NEW f \in Frames, DrawPreviewOne(f) PROVE CoreInv'
  <2>1. FramesFine'
    BY <1>5, GetFrameFine DEF DrawPreviewOne, HoldInv
  <2>2. HoldInv'
    BY <1>5, ObjectsAssumption DEF DrawPreviewOne, GetFrame, HoldInv, FramesFine, FrameTypes
  <2> QED
    BY <1>5, <2>1, <2>2 DEF DrawPreviewOne, PvPcs, SettingTypes, ApiTypes, WorkerTypes
<1>6. ASSUME DrawNothing PROVE CoreInv'
  BY <1>6, UnchangedFine DEF DrawNothing, HoldInv, PvPcs, SettingTypes, ApiTypes, WorkerTypes
<1>7. ASSUME DrawnPreviewOne PROVE CoreInv'
  <2>1. FramesFine'
    BY <1>7, RecycleLocalFine DEF DrawnPreviewOne, HoldInv
  <2>2. HoldInv'
    BY <1>7 DEF DrawnPreviewOne, HoldInv, FramesFine, FrameTypes
  <2> QED
    BY <1>7, <2>1, <2>2 DEF DrawnPreviewOne, PvPcs, SettingTypes, ApiTypes, WorkerTypes
<1>8. ASSUME addCaptureFrame PROVE CoreInv'
  <2>1. hold[PvFrame] # NULL
    BY <1>8 DEF addCaptureFrame, HoldInv
  <2>2. FramesFine'
    BY <1>8, <2>1, ReplaceCaptureFine, DropFine DEF addCaptureFrame
  <2>3. /\ cpPc' \in [CaptureThreads -> CpPcs] /\ apiPc' \in ApiPcs
        /\ \A t \in CaptureThreads : cpPc'[t] \in CpTaken <=> cpPc[t] \in CpTaken
    BY <1>8, WakeupsTyped DEF addCaptureFrame, WorkerTypes, ApiTypes, WokenCaptures, CpTaken
  <2>4. HoldInv'
    BY <1>8, <2>3 DEF addCaptureFrame, HoldInv, FramesFine, FrameTypes
  <2> QED
    BY <1>8, <2>2, <2>3, <2>4 DEF addCaptureFrame, PvPcs, SettingTypes, ApiTypes, WorkerTypes
<1>9. ASSUME PvSignalCapture PROVE CoreInv'
  <2>1. /\ cpPc' \in [CaptureThreads -> CpPcs] /\ apiPc' \in ApiPcs
        /\ \A t \in CaptureThreads : cpPc'[t] \in CpTaken <=> cpPc[t] \in CpTaken
    BY <1>9, WakeupsTyped
    DEF PvSignalCapture, SignalCapture, BlockedCaptures, WorkerTypes, ApiTypes, CpTaken
  <2>2. HoldInv'
    BY <1>9, <2>1 DEF PvSignalCapture, HoldInv
  <2> QED
    BY <1>9, <2>1, <2>2, UnchangedFine DEF PvSignalCapture, PvPcs, SettingTypes, ApiTypes, WorkerTypes
<1> QED
  BY <1>1, <1>2, <1>3, <1>4, <1>5, <1>6, <1>7, <1>8, <1>9 DEF PreviewStep

(* The capture threads.                                                    *)
LEMMA CaptureFine ==
  ASSUME IInv, NEW t \in CaptureThreads, CaptureStep(t)
  PROVE  CoreInv'
<1> USE DEF IInv, CoreInv, flags, targets, queues, memory, apiVars, cbVars, sessions, pvVars, cpVars
<1> USE LocalsDiffer DEF CpGoto, CpAt, CpOnly, CpKeeps, CpKeepsFrames
<1>1. ASSUME CpClearCaptureFrame(t) PROVE CoreInv'
  <2>1. HoldInv'
    BY <1>1, CaptureMovesHold DEF CpClearCaptureFrame, CpTaken
  <2>2. FramesFine'
    BY <1>1, ClearCaptureFine DEF CpClearCaptureFrame
  <2> QED
    BY <1>1, <2>1, <2>2 DEF CpClearCaptureFrame, CpPcs, SettingTypes, ApiTypes, WorkerTypes
<1>2. ASSUME CpLoop(t) \/ CpSelect(t) \/ CpCheck(t) PROVE CoreInv'
  <2>1. HoldInv'
    BY <1>2, CaptureMovesHold DEF CpLoop, CpSelect, CpCheck, CpTaken
  <2>2. SettingTypes'
    BY <1>2 DEF CpLoop, CpSelect, CpCheck, SettingTypes
  <2> QED
    BY <1>2, <2>1, <2>2, UnchangedFine DEF CpLoop, CpSelect, CpCheck, CpPcs, ApiTypes, WorkerTypes
<1>3. ASSUME waitCaptureFrame(t) PROVE CoreInv'
  <2>1. /\ cpPc[t] \in {"take", "woken"} /\ CpOnly /\ CpKeeps
        /\ UNCHANGED <<memory, cpMode, cpUsing, delivered>>
    BY <1>3 DEF waitCaptureFrame, TakeCaptureFrame
  <2>2. CASE /\ captureQueu # NULL /\ captureQueu' = NULL
             /\ hold' = [hold EXCEPT ![CpFrame(t)] = captureQueu]
             /\ \E pc \in {"convert", "callback"} : cpPc' = [cpPc EXCEPT ![t] = pc]
    <3>1. FramesFine'
      BY <2>1, <2>2, TakeCaptureFine DEF HoldInv, CpTaken
    <3>2. HoldInv'
      BY <2>1, <2>2 DEF HoldInv, CpTaken, FramesFine, FrameTypes, WorkerTypes
    <3> QED
      BY <2>1, <2>2, <3>1, <3>2 DEF CpPcs, SettingTypes, ApiTypes, WorkerTypes
  <2>3. CASE /\ UNCHANGED <<captureQueu, hold>>
             /\ \E pc \in {"blocked", "check"} : cpPc' = [cpPc EXCEPT ![t] = pc]
    <3>1. HoldInv'
      BY <2>1, <2>3, CaptureMovesHold DEF CpTaken
    <3> QED
      BY <2>1, <2>3, <3>1, UnchangedFine DEF CpPcs, SettingTypes, ApiTypes, WorkerTypes
  <2> QED
    BY <1>3, <2>2, <2>3 DEF waitCaptureFrame, TakeCaptureFrame
<1>4. ASSUME NEW f \in Frames, CpConvert(t, f) PROVE CoreInv'
  <2>1. FramesFine'
    BY <1>4, GetFrameFine DEF CpConvert
  <2>2. HoldInv'
    BY <1>4, CaptureMovesHold DEF CpConvert, GetFrame, CpTaken, FramesFine, FrameTypes
  <2> QED
    BY <1>4, <2>1, <2>2 DEF CpConvert, CpPcs, SettingTypes, ApiTypes, WorkerTypes
<1>5. ASSUME CpConvertAgain(t) \/ CpSkipSurface(t) \/ CpPost(t) \/ CpPosted(t) \/ CpCallbackRaw(t)
      PROVE  CoreInv'
  <2>1. HoldInv'
    BY <1>5, CaptureMovesHold
    DEF CpConvertAgain, CpSkipSurface, CpPost, CpPosted, CpCallbackRaw, CpTaken
  <2>2. cpUsing' \in [CaptureThreads -> Targets]
    BY <1>5 DEF CpConvertAgain, CpSkipSurface, CpPost, CpPosted, CpCallbackRaw,
                Targets, Windows, SettingTypes, WorkerTypes
  <2> QED
    BY <1>5, <2>1, <2>2, UnchangedFine
    DEF CpConvertAgain, CpSkipSurface, CpPost, CpPosted, CpCallbackRaw, CpPcs,
        SettingTypes, ApiTypes, WorkerTypes
<1>6. ASSUME CpNoCallback(t) \/ CpReturn(t) PROVE CoreInv'
  <2>1. /\ hold[CpFrame(t)] # NULL /\ Recycle(<<hold[CpFrame(t)]>>)
        /\ hold' = [hold EXCEPT ![CpFrame(t)] = NULL]
        /\ cpPc' = [cpPc EXCEPT ![t] = "check"] /\ cpPc[t] \in CpTaken
        /\ CpOnly /\ CpKeeps /\ UNCHANGED <<captureQueu, cpMode, delivered>>
    BY <1>6 DEF CpNoCallback, CpReturn, HoldInv, CpTaken
  <2>2. FramesFine'
    BY <2>1, RecycleLocalFine
  <2>3. HoldInv'
    BY <2>1 DEF HoldInv, CpTaken, FramesFine, FrameTypes, WorkerTypes
  <2>4. cpUsing' \in [CaptureThreads -> Targets]
    BY <1>6 DEF CpNoCallback, CpReturn, Targets, WorkerTypes
  <2>5. WorkerTypes'
    BY <2>1, <2>4 DEF CpPcs, WorkerTypes
  <2> QED
    BY <2>1, <2>2, <2>3, <2>5 DEF SettingTypes, ApiTypes
<1>7. ASSUME NEW f \in Frames, CpCallbackConverted(t, f) PROVE CoreInv'
  <2>1. FramesFine'
    BY <1>7, ConvertLocalFine DEF CpCallbackConverted, HoldInv, CpTaken
  <2>2. HoldInv'
    BY <1>7, ObjectsAssumption
    DEF CpCallbackConverted, HoldInv, CpTaken, FramesFine, FrameTypes, WorkerTypes
  <2> QED
    BY <1>7, <2>1, <2>2 DEF CpCallbackConverted, CpPcs, SettingTypes, ApiTypes, WorkerTypes
<1>8. ASSUME CpInvoke(t) PROVE CoreInv'
  <2>1. hold[CpFrame(t)] \in Frames
    BY <1>8 DEF CpInvoke, HoldInv, CpTaken, FramesFine, FrameTypes, FrameOrNull
  <2>2. HoldInv'
    BY <1>8, CaptureMovesHold DEF CpInvoke, CpTaken
  <2>3. delivered' \in Nat /\ cpUsing' \in [CaptureThreads -> Targets]
    BY <1>8, <2>1 DEF CpInvoke, FramesFine, FrameTypes, SettingTypes, WorkerTypes, Targets
  <2> QED
    BY <1>8, <2>2, <2>3, UnchangedFine DEF CpInvoke, CpPcs, SettingTypes, ApiTypes, WorkerTypes
<1>9. ASSUME CpReleaseWindow(t) PROVE CoreInv'
  <2>1. FramesFine'
    <3>1. CASE hold[CpConverted(t)] # NULL
      BY <1>9, <3>1, RecycleLocalFine DEF CpReleaseWindow
    <3>2. CASE hold[CpConverted(t)] = NULL
      <4>1. Recycle(<<>>) /\ UNCHANGED <<queues, hold>>
        BY <1>9, <3>2 DEF CpReleaseWindow, FramesFine, FrameTypes
      <4>2. Range(<<>>) = {}
        BY DEF Range
      <4>3. UNCHANGED <<framePool, live>> /\ content' \in [Frames -> Nat]
        BY <4>1, <4>2, RecycleSplits DEF FramesFine
      <4> QED
        BY <4>1, <4>3 DEF FramesFine, FrameTypes, FrameOwnership, Owned, Held
    <3> QED
      BY <3>1, <3>2
  <2>2. HoldInv'
    BY <1>9, CaptureMovesHold DEF CpReleaseWindow, CpTaken, FramesFine, FrameTypes
  <2>3. SettingTypes'
    BY <1>9, RefsTyped DEF CpReleaseWindow, SettingTypes, Windows
  <2> QED
    BY <1>9, <2>1, <2>2, <2>3 DEF CpReleaseWindow, CpPcs, ApiTypes, WorkerTypes
<1>10. ASSUME CpForgetWindow(t) PROVE CoreInv'
  <2>1. HoldInv'
    BY <1>10, CaptureMovesHold DEF CpForgetWindow, CpTaken
  <2> QED
    BY <1>10, <2>1, UnchangedFine DEF CpForgetWindow, CpPcs, SettingTypes, ApiTypes, WorkerTypes
<1>11. ASSUME CpBroadcast(t) PROVE CoreInv'
  <2>1. /\ cpPc' \in [CaptureThreads -> CpPcs] /\ apiPc' \in ApiPcs
        /\ \A u \in CaptureThreads : cpPc'[u] \in CpTaken <=> cpPc[u] \in CpTaken
    BY <1>11, WakeupsTyped DEF CpBroadcast, WorkerTypes, ApiTypes, WokenCaptures, CpPcs, CpTaken
  <2>2. HoldInv'
    BY <1>11, <2>1 DEF CpBroadcast, HoldInv
  <2> QED
    BY <1>11, <2>1, <2>2, UnchangedFine DEF CpBroadcast, SettingTypes, ApiTypes, WorkerTypes
<1> QED
  BY <1>1, <1>2, <1>3, <1>4, <1>5, <1>6, <1>7, <1>8, <1>9, <1>10, <1>11 DEF CaptureStep

LEMMA WakeupFine == ASSUME IInv, SpuriousWakeup PROVE CoreInv'
<1> USE DEF IInv, CoreInv, flags, targets, queues, memory, apiVars, cbVars, sessions, pvVars, cpVars
<1>1. /\ cpPc' \in [CaptureThreads -> CpPcs] /\ apiPc' \in ApiPcs /\ pvPc' \in PvPcs
      /\ \A u \in CaptureThreads : cpPc'[u] \in CpTaken <=> cpPc[u] \in CpTaken
      /\ pvPc' = pvPc \/ (pvPc = "blocked" /\ pvPc' = "woken")
  BY WakeupsTyped DEF SpuriousWakeup, BlockedCaptures, WorkerTypes, ApiTypes, PvPcs, CpPcs, CpTaken
<1>2. HoldInv'
  BY <1>1 DEF SpuriousWakeup, HoldInv
<1> QED
  BY <1>1, <1>2, UnchangedFine DEF SpuriousWakeup, SettingTypes, ApiTypes, WorkerTypes

-----------------------------------------------------------------------------
(* How far the threads are: a preview thread exists only between            *)
(* startPreview and the join of stopPreview, and fills no queue outside.    *)
LEMMA ApiCallStages == ASSUME IInv, ApiCall PROVE StageInv'
<1> USE DEF IInv, StageInv, Stopping, Stopped, flags, targets, queues, memory, apiVars, cbVars, sessions, pvVars, cpVars
<1>1. /\ UNCHANGED <<session, pvPc, streaming, cbPc, previewFrames, captureQueu>>
      /\ apiPc = "idle"
      /\ \A t \in CaptureThreads : cpPc'[t] # "none" => cpPc[t] # "none"
  BY DEF ApiCall, setPreviewDisplay, setCaptureDisplay, setFrameCallback, BeginReplace,
         startPreview, stopPreview, Calls, ApiGoto, SignalCapture, BlockedCaptures, CoreInv, WorkerTypes
<1>2. CASE \E op \in {"stop", "release"} : stopPreview(op)
  BY <1>1, <1>2 DEF stopPreview
<1>3. CASE startPreview
  BY <1>1, <1>3 DEF startPreview, ApiGoto
<1>4. CASE apiPc' \in {"idle", "waitCapture", "replace"} /\ UNCHANGED mIsRunning
  BY <1>1, <1>4
<1> QED
  BY <1>2, <1>3, <1>4 DEF ApiCall, setPreviewDisplay, setCaptureDisplay, setFrameCallback, BeginReplace, Calls

LEMMA ApiStepStages == ASSUME IInv, ApiStep PROVE StageInv'
<1> USE DEF IInv, StageInv, Stopping, Stopped, flags, targets, queues, memory, apiVars, cbVars, sessions, pvVars, cpVars
<1>1. ASSUME CreatePreviewThread PROVE StageInv'
  BY SizesAssumption, <1>1 DEF CreatePreviewThread, ApiGoto, CoreInv, WorkerTypes
<1>2. ASSUME PreviewThreadNotCreated PROVE StageInv'
  BY <1>2 DEF PreviewThreadNotCreated, ApiGoto
<1>3. ASSUME StartPreviewFails PROVE StageInv'
  BY <1>3 DEF StartPreviewFails, ApiGoto, SignalPreview
<1>4. ASSUME StopSignalPreview PROVE StageInv'
  BY <1>4 DEF StopSignalPreview, ApiGoto, SignalPreview
<1>5. ASSUME StopSignalCapture PROVE StageInv'
  BY <1>5 DEF StopSignalCapture, ApiGoto, SignalCapture, BlockedCaptures, CoreInv, WorkerTypes
<1>6. ASSUME JoinCaptureThread PROVE StageInv'
  BY <1>6 DEF JoinCaptureThread, ApiGoto
<1>7. ASSUME JoinPreviewThread PROVE StageInv'
  BY <1>7 DEF JoinPreviewThread, ApiGoto
<1>8. ASSUME StopClearPreview PROVE StageInv'
  BY <1>8 DEF StopClearPreview, ApiGoto, clearPreviewFrame
<1>9. ASSUME StopClearCapture PROVE StageInv'
  BY <1>9 DEF StopClearCapture, ApiGoto, clearCaptureFrame
<1>10. ASSUME StopReleaseWindows PROVE StageInv'
  BY <1>10 DEF StopReleaseWindows
<1>11. ASSUME DeleteUVCPreview PROVE StageInv'
  BY <1>11 DEF DeleteUVCPreview, ApiGoto
<1>12. ASSUME WaitFinishingCapturing PROVE StageInv'
  BY <1>12 DEF WaitFinishingCapturing
<1>13. ASSUME ReplaceFrameCallback PROVE StageInv'
  BY <1>13 DEF ReplaceFrameCallback, Replace
<1>14. ASSUME ReplaceCaptureWindow PROVE StageInv'
  BY <1>14 DEF ReplaceCaptureWindow, Replace
<1> QED
  BY <1>1, <1>2, <1>3, <1>4, <1>5, <1>6, <1>7, <1>8, <1>9, <1>10, <1>11, <1>12, <1>13, <1>14 DEF ApiStep

LEMMA CallbackStages ==
  ASSUME IInv, (\E f \in Frames : FrameCallback(f)) \/ CallbackStep
  PROVE  StageInv'
<1> USE DEF IInv, StageInv, Stopping, Stopped, flags, targets, queues, memory, apiVars, cbVars, sessions, pvVars, cpVars
<1>1. /\ UNCHANGED <<apiPc, mIsRunning, session, streaming, captureQueu, cpPc>>
      /\ pvPc' = pvPc \/ (pvPc = "blocked" /\ pvPc' = "woken")
      /\ cbPc # "idle" \/ streaming
      /\ previewFrames' = previewFrames \/ cbPc # "idle"
  BY DEF FrameCallback, CallbackStep, DuplicateFrame, DuplicateFails, addPreviewFrame, SignalPreview
<1> QED
  BY <1>1

LEMMA PreviewStages == ASSUME IInv, PreviewStep PROVE StageInv'
<1> USE DEF IInv, StageInv, Stopping, Stopped, flags, targets, queues, memory, apiVars, cbVars, sessions, pvVars, cpVars
<1> USE DEF PvGoto, PvOnly, PvKeepsFrames
<1>1. ASSUME PreparePreview \/ StartStreaming \/ PvClearPreviewFrame \/ PvLoop PROVE StageInv'
  BY <1>1 DEF PreparePreview, StartStreaming, PvClearPreviewFrame, PvLoop
<1>2. ASSUME CreateCaptureThread PROVE StageInv'
  BY <1>2, SizesAssumption DEF CreateCaptureThread, CoreInv, WorkerTypes, CaptureThreads
<1>3. ASSUME StopStreaming PROVE StageInv'
  BY <1>3 DEF StopStreaming
<1>4. ASSUME waitPreviewFrame \/ (\E f \in Frames : DrawPreviewOne(f)) \/ DrawNothing \/ DrawnPreviewOne
      PROVE  StageInv'
  BY <1>4 DEF waitPreviewFrame, TakePreviewFrame, DrawPreviewOne, DrawNothing, DrawnPreviewOne
<1>5. ASSUME addCaptureFrame \/ PvSignalCapture PROVE StageInv'
  <2>1. /\ UNCHANGED <<mIsRunning, session, streaming, cbPc, previewFrames>>
        /\ apiPc' = apiPc \/ (apiPc = "blockedOnCapture" /\ apiPc' = "replace")
        /\ \A t \in CaptureThreads : cpPc'[t] # "none" => cpPc[t] # "none"
        /\ pvPc \in {"addCapture", "exit"} /\ pvPc' \in {"loop", "stopStream"}
    BY <1>5 DEF addCaptureFrame, PvSignalCapture, SignalCapture, BlockedCaptures, WokenApi,
                WokenCaptures, CoreInv, WorkerTypes
  <2> QED
    BY <2>1
<1> QED
  BY <1>1, <1>2, <1>3, <1>4, <1>5 DEF PreviewStep

LEMMA CaptureStages ==
  ASSUME IInv, NEW t \in CaptureThreads, CaptureStep(t)
  PROVE  StageInv'
<1> USE DEF IInv, StageInv, Stopping, Stopped, flags, targets, queues, memory, apiVars, cbVars, sessions, pvVars, cpVars
<1>1. UNCHANGED <<mIsRunning, session, streaming, cbPc, previewFrames, pvPc>>
  BY DEF CaptureStep, CpClearCaptureFrame, CpLoop, CpSelect, CpCheck, waitCaptureFrame, TakeCaptureFrame,
         CpConvert, CpCallbackConverted, CpConvertAgain, CpSkipSurface, CpPost, CpPosted, CpNoCallback,
         CpCallbackRaw, CpInvoke, CpReturn, CpReleaseWindow, CpForgetWindow, CpBroadcast, CpOnly
<1>2. captureQueu' \in {NULL, captureQueu}
  BY DEF CaptureStep, CpClearCaptureFrame, CpLoop, CpSelect, CpCheck, waitCaptureFrame, TakeCaptureFrame,
         CpConvert, CpCallbackConverted, CpConvertAgain, CpSkipSurface, CpPost, CpPosted, CpNoCallback,
         CpCallbackRaw, CpInvoke, CpReturn, CpReleaseWindow, CpForgetWindow, CpBroadcast,
         CpKeepsFrames, clearCaptureFrame
<1>3. apiPc' = apiPc \/ (apiPc = "blockedOnCapture" /\ apiPc' = "replace")
  BY DEF CaptureStep, CpClearCaptureFrame, CpLoop, CpSelect, CpCheck, waitCaptureFrame, TakeCaptureFrame,
         CpConvert, CpCallbackConverted, CpConvertAgain, CpSkipSurface, CpPost, CpPosted, CpNoCallback,
         CpCallbackRaw, CpInvoke, CpReturn, CpReleaseWindow, CpForgetWindow, CpBroadcast,
         CpKeeps, WokenApi
<1>4. \A u \in CaptureThreads : cpPc'[u] # "none" => cpPc[u] # "none"
  <2>1. CASE CpBroadcast(t)
    BY <2>1 DEF CpBroadcast, CpAt, WokenCaptures, CoreInv, WorkerTypes
  <2>2. CASE cpPc[t] # "none" /\ \E pc \in CpPcs : cpPc' = [cpPc EXCEPT ![t] = pc]
    BY <2>2 DEF CoreInv, WorkerTypes
  <2>3. CpBroadcast(t) \/ (cpPc[t] # "none" /\ \E pc \in CpPcs : cpPc' = [cpPc EXCEPT ![t] = pc])
    BY DEF CaptureStep, CpClearCaptureFrame, CpLoop, CpSelect, CpCheck, waitCaptureFrame, TakeCaptureFrame,
         CpConvert, CpCallbackConverted, CpConvertAgain, CpSkipSurface, CpPost, CpPosted, CpNoCallback,
         CpCallbackRaw, CpInvoke, CpReturn, CpReleaseWindow, CpForgetWindow, CpGoto, CpAt, CpPcs
  <2> QED
    BY <2>1, <2>2, <2>3
<1> QED
  BY <1>1, <1>2, <1>3, <1>4

LEMMA WakeupStages == ASSUME IInv, SpuriousWakeup PROVE StageInv'
<1> USE DEF IInv, StageInv, Stopping, Stopped, flags, targets, queues, memory, apiVars, cbVars, sessions, pvVars, cpVars
<1>1. /\ UNCHANGED <<mIsRunning, session, streaming, cbPc, previewFrames, captureQueu>>
      /\ pvPc' = pvPc \/ (pvPc = "blocked" /\ pvPc' = "woken")
      /\ apiPc' = apiPc \/ (apiPc = "blockedOnCapture" /\ apiPc' = "replace")
      /\ \A t \in CaptureThreads : cpPc'[t] # "none" => cpPc[t] # "none"
  BY DEF SpuriousWakeup, BlockedCaptures, WokenApi, CoreInv, WorkerTypes
<1> QED
  BY <1>1

-----------------------------------------------------------------------------
LEMMA InitInv == ASSUME Init PROVE IInv
<1>1. CoreInv
  <2>1. SettingTypes /\ ApiTypes
    <3>1. windowRefs \in [Windows -> Int]
      BY DEF Init
    <3>2. apiCall \in [op : {"none", "stop", "release"}, arg : {NULL}] /\ apiPc \in ApiPcs
      BY DEF Init, ApiPcs
    <3> QED
      BY <3>1, <3>2 DEF Init, SettingTypes, ApiTypes
  <2>2. WorkerTypes
    <3>1. /\ cpPc \in [CaptureThreads -> CpPcs]
          /\ cpMode \in [CaptureThreads -> {"idle", "surface"}]
          /\ cpUsing \in [CaptureThreads -> Targets]
      BY DEF Init, CpPcs, Targets
    <3>2. 0 \in 0 .. MaxSessions
      BY SizesAssumption
    <3> QED
      BY <3>1, <3>2 DEF Init, WorkerTypes, CbPcs, PvPcs
  <2>3. FrameTypes
    BY DEF Init, FrameTypes, FrameOrNull
  <2>4. Held = {} /\ Range(previewFrames) = {} /\ Owned = {}
    BY DEF Init, Held, Owned, Range
  <2>5. FrameOwnership
    BY <2>4, ObjectsAssumption DEF Init, FrameOwnership
  <2>6. HoldInv
    BY LocalsDiffer DEF Init, HoldInv, CpTaken
  <2> QED
    BY <2>1, <2>2, <2>3, <2>5, <2>6 DEF CoreInv, FramesFine
<1>2. StageInv
  BY DEF Init, StageInv, Stopping, Stopped
<1> QED
  BY <1>1, <1>2 DEF IInv

LEMMA StepInv == ASSUME IInv, [Next]_vars PROVE IInv'
<1>1. CASE Next
  BY <1>1, ApiCallFine, ApiStepFine, CallbackFine, PreviewFine, CaptureFine, WakeupFine,
     ApiCallStages, ApiStepStages, CallbackStages, PreviewStages, CaptureStages, WakeupStages
  DEF Next, IInv
<1>2. CASE UNCHANGED vars
  <2> USE <1>2 DEF vars, flags, targets, queues, memory, apiVars, cbVars, sessions, pvVars, cpVars
  <2>1. CoreInv'
    BY UnchangedFine, HoldUnchanged DEF IInv, CoreInv, SettingTypes, ApiTypes, WorkerTypes
  <2>2. StageInv'
    BY DEF IInv, StageInv
  <2> QED
    BY <2>1, <2>2 DEF IInv
<1> QED
  BY <1>1, <1>2

THEOREM Inductive == Spec => []IInv
  BY InitInv, StepInv, PTL DEF Spec

(* In every behaviour all variables have their types.                      *)
THEOREM TypeCorrect == Spec => []TypeOK
<1>1. IInv => TypeOK
  BY DEF IInv, CoreInv, FramesFine, TypeOK
<1> QED
  BY <1>1, Inductive, PTL

(* However the threads interleave, no frame ever has two owners.           *)
THEOREM FramesOwned == Spec => []FrameOwnership
<1>1. IInv => FrameOwnership
  BY DEF IInv, CoreInv, FramesFine
<1> QED
  BY <1>1, Inductive, PTL

(* Whenever stopPreview has returned, the session is over.                 *)
THEOREM StopsQuietly == Spec => []StopQuiesces
<1>1. IInv => StopQuiesces
  BY DEF IInv, StageInv, StopQuiesces, Stopping
<1> QED
  BY <1>1, Inductive, PTL

-----------------------------------------------------------------------------
(* Sleeping and waking.                                                    *)

(* The threads of the application and of libuvc, and spurious wakeups, put *)
(* neither the preview thread nor a capture thread to sleep.               *)
LEMMA ApiWakeups == ASSUME IInv, NoWakeupLost, ApiCall \/ ApiStep PROVE NoWakeupLost'
<1> USE DEF IInv, CoreInv, WorkerTypes, flags, targets, queues, memory, apiVars, cbVars, sessions, pvVars, cpVars
<1>1. CASE ApiCall
  BY <1>1 DEF ApiCall, setPreviewDisplay, setCaptureDisplay, setFrameCallback, BeginReplace,
              startPreview, stopPreview, Calls, ApiGoto, SignalCapture, BlockedCaptures, NoWakeupLost
<1>2. CASE ApiStep
  <2>1. pvPc' = "blocked" => pvPc = "blocked"
    BY <1>2 DEF ApiStep, CreatePreviewThread, PreviewThreadNotCreated, StartPreviewFails, SignalPreview,
         StopSignalPreview, StopSignalCapture, JoinCaptureThread, JoinPreviewThread, StopClearPreview,
         StopClearCapture, StopReleaseWindows, DeleteUVCPreview, WaitFinishingCapturing,
         ReplaceFrameCallback, ReplaceCaptureWindow, Replace
  <2>2. \A t \in CaptureThreads : cpPc'[t] = "blocked" => cpPc[t] = "blocked"
    BY <1>2 DEF ApiStep, CreatePreviewThread, PreviewThreadNotCreated, StartPreviewFails, SignalCapture,
         BlockedCaptures, StopSignalPreview, StopSignalCapture, JoinCaptureThread, JoinPreviewThread,
         StopClearPreview, StopClearCapture, StopReleaseWindows, DeleteUVCPreview,
         WaitFinishingCapturing, ReplaceFrameCallback, ReplaceCaptureWindow, Replace
  <2>3. previewFrames' \in {previewFrames, <<>>} /\ captureQueu' \in {captureQueu, NULL}
    BY <1>2 DEF ApiStep, CreatePreviewThread, PreviewThreadNotCreated, StartPreviewFails,
         StopSignalPreview, StopSignalCapture, JoinCaptureThread, JoinPreviewThread, StopClearPreview,
         clearPreviewFrame, StopClearCapture, clearCaptureFrame, StopReleaseWindows, DeleteUVCPreview,
         WaitFinishingCapturing, ReplaceFrameCallback, ReplaceCaptureWindow, Replace
  <2> QED
    BY <2>1, <2>2, <2>3 DEF NoWakeupLost
<1> QED
  BY <1>1, <1>2

(* addPreviewFrame wakes the preview thread for the frame it queues.       *)
LEMMA CallbackWakeups ==
  ASSUME NoWakeupLost, (\E f \in Frames : FrameCallback(f)) \/ CallbackStep
  PROVE  NoWakeupLost'
  BY DEF FrameCallback, CallbackStep, DuplicateFrame, DuplicateFails, addPreviewFrame, SignalPreview,
         NoWakeupLost, queues, pvVars, cpVars

(* The preview thread sleeps on an empty queue; addCaptureFrame wakes all  *)
(* capture threads for the frame it queues.                                *)
LEMMA PreviewWakeups == ASSUME IInv, NoWakeupLost, PreviewStep PROVE NoWakeupLost'
<1> USE DEF IInv, CoreInv, WorkerTypes, NoWakeupLost, PvGoto, PvOnly, PvKeepsFrames, queues, cpVars, pvVars
<1>1. CASE addCaptureFrame
  BY <1>1 DEF addCaptureFrame, WokenCaptures
<1>2. CASE PvSignalCapture
  BY <1>2 DEF PvSignalCapture, SignalCapture, BlockedCaptures
<1>3. CASE CreateCaptureThread
  BY <1>3 DEF CreateCaptureThread
<1>4. CASE waitPreviewFrame
  BY <1>4 DEF waitPreviewFrame, TakePreviewFrame
<1>5. CASE PreparePreview \/ StartStreaming \/ PvClearPreviewFrame \/ PvLoop
           \/ (\E f \in Frames : DrawPreviewOne(f)) \/ DrawNothing \/ DrawnPreviewOne
           \/ StopStreaming
  BY <1>5 DEF PreparePreview, StartStreaming, PvClearPreviewFrame, PvLoop, clearPreviewFrame,
              DrawPreviewOne, DrawNothing, DrawnPreviewOne, StopStreaming
<1> QED
  BY <1>1, <1>2, <1>3, <1>4, <1>5 DEF PreviewStep

(* A capture thread sleeps on an empty queue, and queues nothing.          *)
LEMMA CaptureWakeups ==
  ASSUME IInv, NoWakeupLost, NEW t \in CaptureThreads, CaptureStep(t)
  PROVE  NoWakeupLost'
<1> USE DEF IInv, CoreInv, WorkerTypes
<1>1. UNCHANGED <<previewFrames, pvPc>> /\ captureQueu' \in {NULL, captureQueu}
  BY DEF CaptureStep, CpClearCaptureFrame, CpLoop, CpSelect, CpCheck, waitCaptureFrame, TakeCaptureFrame,
         CpConvert, CpCallbackConverted, CpConvertAgain, CpSkipSurface, CpPost, CpPosted, CpNoCallback,
         CpCallbackRaw, CpInvoke, CpReturn, CpReleaseWindow, CpForgetWindow, CpBroadcast, CpOnly,
         CpKeepsFrames, clearCaptureFrame, queues, pvVars
<1>2. \/ CpBroadcast(t)
      \/ \E pc \in CpPcs : cpPc' = [cpPc EXCEPT ![t] = pc] /\ (pc = "blocked" => captureQueu' = NULL)
  BY DEF CaptureStep, CpClearCaptureFrame, CpLoop, CpSelect, CpCheck, waitCaptureFrame, TakeCaptureFrame,
         CpConvert, CpCallbackConverted, CpConvertAgain, CpSkipSurface, CpPost, CpPosted, CpNoCallback,
         CpCallbackRaw, CpInvoke, CpReturn, CpReleaseWindow, CpForgetWindow, CpGoto, CpAt, CpPcs,
         CpKeepsFrames, queues
<1>3. CASE CpBroadcast(t)
  BY <1>1, <1>3 DEF CpBroadcast, WokenCaptures, NoWakeupLost
<1>4. CASE \E pc \in CpPcs : cpPc' = [cpPc EXCEPT ![t] = pc] /\ (pc = "blocked" => captureQueu' = NULL)
  BY <1>1, <1>4 DEF NoWakeupLost
<1> QED
  BY <1>2, <1>3, <1>4

(* However the threads interleave, nobody sleeps on a queue that has a     *)
(* frame for it.                                                           *)
THEOREM WakeupsKept == Spec => []NoWakeupLost
<1>1. Init => NoWakeupLost
  BY DEF Init, NoWakeupLost
<1>2. ASSUME IInv, NoWakeupLost, [Next]_vars
      PROVE  NoWakeupLost'
  <2>1. CASE SpuriousWakeup
    BY <1>2, <2>1 DEF SpuriousWakeup, BlockedCaptures, NoWakeupLost, queues, IInv, CoreInv, WorkerTypes
  <2>2. CASE UNCHANGED vars
    BY <1>2, <2>2 DEF vars, queues, pvVars, cpVars, NoWakeupLost
  <2> QED
    BY <1>2, <2>1, <2>2, ApiWakeups, CallbackWakeups, PreviewWakeups, CaptureWakeups DEF Next
<1> QED
  BY <1>1, <1>2, Inductive, PTL DEF Spec
=============================================================================
