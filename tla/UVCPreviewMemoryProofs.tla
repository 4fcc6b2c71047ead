------------------------ MODULE UVCPreviewMemoryProofs ------------------------
(***************************************************************************)
(* How much memory UVCPreview can use, for every number of frames and      *)
(* sessions and every queue and pool size: the frames of the pool and of   *)
(* the queue are bounded, and a session loses at most one frame.           *)
(***************************************************************************)
EXTENDS UVCPreviewProofs, FiniteSetTheorems

-----------------------------------------------------------------------------
(* The ways a step may move frames.                                        *)
Stays == UNCHANGED <<queues, memory, hold>>

(* l = get_frame(...)                                                      *)
Gets ==
  /\ \E l \in Locals, f \in Frames :
       /\ hold[l] = NULL /\ l # PvFrame /\ \A t \in CaptureThreads : l # CpFrame(t)
       /\ GetFrame(l, f)
       /\ l = Copy => cbPc' # "add"
  /\ UNCHANGED <<queues, content>>

(* recycle_frame(l)                                                        *)
GivesBack ==
  /\ \E l \in Locals :
       hold[l] # NULL /\ Recycle(<<hold[l]>>) /\ hold' = [hold EXCEPT ![l] = NULL]
  /\ UNCHANGED queues

ClearsPreview == clearPreviewFrame /\ UNCHANGED <<captureQueu, hold>>
ClearsCapture == clearCaptureFrame /\ UNCHANGED <<previewFrames, hold>>

(* addPreviewFrame, waitPreviewFrame, addCaptureFrame, waitCaptureFrame.   *)
Queues ==
  /\ cbPc = "add" /\ cbPc' # "add" /\ hold[Copy] # NULL /\ Len(previewFrames) < MaxFrame
  /\ previewFrames' = Append(previewFrames, hold[Copy])
  /\ hold' = [hold EXCEPT ![Copy] = NULL]
  /\ UNCHANGED <<captureQueu, memory>>
Dequeues ==
  /\ hold[PvFrame] = NULL /\ previewFrames # <<>>
  /\ hold' = [hold EXCEPT ![PvFrame] = Head(previewFrames)]
  /\ previewFrames' = Tail(previewFrames)
  /\ UNCHANGED <<captureQueu, memory>>
QueuesCapture ==
  /\ hold[PvFrame] # NULL /\ Recycle(QueuedCapture)
  /\ captureQueu' = hold[PvFrame]
  /\ hold' = [hold EXCEPT ![PvFrame] = NULL]
  /\ UNCHANGED previewFrames
DequeuesCapture ==
  /\ \E t \in CaptureThreads :
       hold[CpFrame(t)] = NULL /\ hold' = [hold EXCEPT ![CpFrame(t)] = captureQueu]
  /\ captureQueu # NULL /\ captureQueu' = NULL
  /\ UNCHANGED <<previewFrames, memory>>

(* addCaptureFrame when the preview was stopped.                           *)
Drops ==
  /\ pvPc = "addCapture" /\ pvPc' = "loop" /\ ~mIsRunning /\ mIsRunning' = FALSE
  /\ hold[PvFrame] # NULL /\ hold' = [hold EXCEPT ![PvFrame] = NULL]
  /\ UNCHANGED <<queues, memory, session>>

Converts ==
  \E t \in CaptureThreads, f \in Frames :
    hold[CpFrame(t)] # NULL /\ CpCallbackConverted(t, f)

FrameMove ==
  \/ Stays \/ Gets \/ GivesBack \/ ClearsPreview \/ ClearsCapture \/ Queues \/ Dequeues
  \/ QueuesCapture \/ DequeuesCapture \/ Drops \/ Converts
  \/ DuplicateFrame \/ DeleteUVCPreview

LEMMA ApiMoves == ASSUME IInv, ApiCall \/ ApiStep PROVE FrameMove
<1> USE DEF queues, memory
<1>1. ASSUME ApiCall PROVE Stays
  BY <1>1 DEF ApiCall, setPreviewDisplay, setCaptureDisplay, setFrameCallback, BeginReplace,
              startPreview, stopPreview, Stays
<1>2. ASSUME CreatePreviewThread \/ PreviewThreadNotCreated \/ StartPreviewFails \/ StopSignalPreview
             \/ StopSignalCapture \/ JoinCaptureThread \/ JoinPreviewThread \/ StopReleaseWindows
      PROVE  Stays
  BY <1>2 DEF CreatePreviewThread, PreviewThreadNotCreated, StartPreviewFails, StopSignalPreview,
              StopSignalCapture, JoinCaptureThread, JoinPreviewThread, StopReleaseWindows, Stays
<1>3. ASSUME WaitFinishingCapturing \/ ReplaceFrameCallback \/ ReplaceCaptureWindow PROVE Stays
  BY <1>3 DEF WaitFinishingCapturing, ReplaceFrameCallback, ReplaceCaptureWindow, Replace, Stays
<1>4. ASSUME StopClearPreview \/ StopClearCapture PROVE ClearsPreview \/ ClearsCapture
  BY <1>4 DEF StopClearPreview, StopClearCapture, ClearsPreview, ClearsCapture
<1> QED
  BY <1>1, <1>2, <1>3, <1>4 DEF ApiStep, FrameMove

LEMMA CallbackMoves ==
  ASSUME IInv, (\E f \in Frames : FrameCallback(f)) \/ CallbackStep
  PROVE  FrameMove
<1> USE LocalsDiffer DEF IInv, CoreInv, HoldInv, queues
<1>1. ASSUME NEW f \in Frames, FrameCallback(f) PROVE Gets
  BY <1>1 DEF FrameCallback, Gets
<1>2. ASSUME DuplicateFails PROVE GivesBack
  BY <1>2 DEF DuplicateFails, GivesBack
<1>3. ASSUME addPreviewFrame PROVE Queues \/ GivesBack
  BY <1>3 DEF addPreviewFrame, Queues, GivesBack
<1> QED
  BY <1>1, <1>2, <1>3 DEF CallbackStep, FrameMove

LEMMA PreviewMoves == ASSUME IInv, PreviewStep PROVE FrameMove
<1> USE LocalsDiffer DEF IInv, CoreInv, HoldInv, PvGoto, PvOnly, PvKeepsFrames, queues, memory
<1>1. ASSUME PreparePreview \/ StartStreaming \/ StopStreaming \/ PvLoop \/ CreateCaptureThread
             \/ DrawNothing \/ PvSignalCapture
      PROVE  Stays
  BY <1>1 DEF PreparePreview, StartStreaming, StopStreaming, PvLoop, CreateCaptureThread,
              DrawNothing, PvSignalCapture, Stays
<1>2. ASSUME PvClearPreviewFrame PROVE ClearsPreview
  BY <1>2 DEF PvClearPreviewFrame, ClearsPreview
<1>3. ASSUME waitPreviewFrame PROVE Stays \/ Dequeues
  BY <1>3 DEF waitPreviewFrame, TakePreviewFrame, Stays, Dequeues
<1>4. ASSUME NEW f \in Frames, DrawPreviewOne(f) PROVE Gets
  BY <1>4 DEF DrawPreviewOne, Gets
<1>5. ASSUME DrawnPreviewOne PROVE GivesBack
  BY <1>5 DEF DrawnPreviewOne, GivesBack
<1>6. ASSUME addCaptureFrame PROVE QueuesCapture \/ Drops
  BY <1>6 DEF addCaptureFrame, QueuesCapture, Drops, flags, sessions
<1> QED
  BY <1>1, <1>2, <1>3, <1>4, <1>5, <1>6 DEF PreviewStep, FrameMove

LEMMA CaptureMoves ==
  ASSUME IInv, NEW t \in CaptureThreads, CaptureStep(t)
  PROVE  FrameMove
<1> USE LocalsDiffer DEF IInv, CoreInv, HoldInv, CpTaken, CpGoto, CpAt, CpOnly, CpKeepsFrames, queues, memory
<1>1. ASSUME CpClearCaptureFrame(t) PROVE ClearsCapture
  BY <1>1 DEF CpClearCaptureFrame, ClearsCapture
<1>2. ASSUME CpLoop(t) \/ CpSelect(t) \/ CpCheck(t) \/ CpConvertAgain(t) \/ CpSkipSurface(t)
             \/ CpPost(t) \/ CpPosted(t) \/ CpCallbackRaw(t) \/ CpInvoke(t) \/ CpForgetWindow(t)
             \/ CpBroadcast(t)
      PROVE  Stays
  BY <1>2 DEF CpLoop, CpSelect, CpCheck, CpConvertAgain, CpSkipSurface, CpPost, CpPosted,
              CpCallbackRaw, CpInvoke, CpForgetWindow, CpBroadcast, Stays
<1>3. ASSUME waitCaptureFrame(t) PROVE Stays \/ DequeuesCapture
  BY <1>3 DEF waitCaptureFrame, TakeCaptureFrame, Stays, DequeuesCapture
<1>4. ASSUME NEW f \in Frames, CpConvert(t, f) PROVE Gets
  BY <1>4 DEF CpConvert, Gets
<1>5. ASSUME NEW f \in Frames, CpCallbackConverted(t, f) PROVE Converts
  BY <1>5 DEF CpCallbackConverted, Converts
<1>6. ASSUME CpNoCallback(t) \/ CpReturn(t) PROVE GivesBack
  BY <1>6 DEF CpNoCallback, CpReturn, GivesBack
<1>7. ASSUME CpReleaseWindow(t) PROVE GivesBack \/ Stays
  <2>1. CASE hold[CpConverted(t)] # NULL
    BY <1>7, <2>1 DEF CpReleaseWindow, GivesBack
  <2>2. CASE hold[CpConverted(t)] = NULL
    <3>1. Recycle(<<>>) /\ UNCHANGED <<queues, hold>>
      BY <1>7, <2>2 DEF CpReleaseWindow, FramesFine, FrameTypes
    <3>2. Range(<<>>) = {}
      BY DEF Range
    <3>3. UNCHANGED <<framePool, live>>
      BY <3>1, <3>2, RecycleSplits DEF FramesFine
    <3>4. content' = content
      BY <3>1, <3>2 DEF Recycle, FramesFine, FrameTypes
    <3> QED
      BY <3>1, <3>3, <3>4 DEF Stays
  <2> QED
    BY <2>1, <2>2
<1> QED
  BY <1>1, <1>2, <1>3, <1>4, <1>5, <1>6, <1>7 DEF CaptureStep, FrameMove

(* Every step moves frames in one of these ways.                           *)
LEMMA StepMoves == ASSUME IInv, [Next]_vars PROVE FrameMove
<1>1. CASE SpuriousWakeup \/ UNCHANGED vars
  BY <1>1 DEF SpuriousWakeup, vars, FrameMove, Stays
<1> QED
  BY <1>1, ApiMoves, CallbackMoves, PreviewMoves, CaptureMoves DEF Next

-----------------------------------------------------------------------------
(* The pool: what recycle_frame keeps fits.                                *)
LEMMA FramesFinite ==
  ASSUME NEW S \in SUBSET Frames
  PROVE  IsFiniteSet(S) /\ Cardinality(S) \in Nat
  BY ObjectsAssumption, FS_Subset, FS_CardinalityType

(* Removing elements does not enlarge a set, adding one enlarges it by one. *)
LEMMA SubsetCounts ==
  ASSUME NEW S \in SUBSET Frames, NEW T \in SUBSET S
  PROVE  Cardinality(T) <= Cardinality(S)
  BY FramesFinite, FS_Subset

LEMMA OneMoreCounts ==
  ASSUME NEW S \in SUBSET Frames, NEW f \in Frames
  PROVE  Cardinality(S \cup {f}) <= Cardinality(S) + 1
  BY FramesFinite, FS_AddElement

LEMMA KeptFits ==
  ASSUME NEW pool \in SUBSET Frames, Cardinality(pool) <= PoolSize, NEW s \in Seq(Frames)
  PROVE  Cardinality(pool \cup Kept(pool, s)) <= PoolSize
<1> DEFINE room == PoolSize - Cardinality(pool)
           D == {j \in DOMAIN s : j <= room}
           kept == Kept(pool, s)
<1>1. room \in Nat /\ Cardinality(pool) \in Nat /\ IsFiniteSet(pool)
  BY SizesAssumption, FramesFinite
<1>2. IsFiniteSet(1 .. room) /\ Cardinality(1 .. room) = room
  BY <1>1, FS_Interval
<1>3. D \in SUBSET (1 .. room)
  BY <1>1
<1>4. IsFiniteSet(D) /\ Cardinality(D) <= room
  BY <1>2, <1>3, FS_Subset
<1>5. kept = {s[i] : i \in D}
  BY DEF Kept
<1>6. kept \in SUBSET Frames
  BY <1>5
<1>7. [i \in D |-> s[i]] \in Surjection(D, kept)
  BY <1>5 DEF Surjection
<1> HIDE DEF D, kept, room
<1>8. Cardinality(kept) <= Cardinality(D) /\ IsFiniteSet(kept)
  BY <1>4, <1>7, FS_Surjection
<1>9. Cardinality(pool \cup kept) <= Cardinality(pool) + Cardinality(kept)
  <2>1. Cardinality(pool \cap kept) \in Nat /\ Cardinality(kept) \in Nat
    BY <1>6, FramesFinite
  <2>2. Cardinality(pool \cup kept)
          = Cardinality(pool) + Cardinality(kept) - Cardinality(pool \cap kept)
    BY <1>1, <1>8, FS_Union
  <2> QED
    BY <1>1, <2>1, <2>2
<1>10. Cardinality(kept) \in Nat /\ Cardinality(D) \in Nat
  BY <1>4, <1>6, FramesFinite, FS_CardinalityType
<1>11. Cardinality(pool \cup kept) \in Nat
  BY <1>6, FramesFinite
<1> QED
  BY <1>1, <1>4, <1>8, <1>9, <1>10, <1>11, SizesAssumption DEF room, kept

PoolFits == Cardinality(framePool) <= PoolSize

LEMMA RecycleFits ==
  ASSUME FrameTypes, PoolFits, NEW s \in Seq(Frames), Recycle(s)
  PROVE  PoolFits'
  BY KeptFits DEF FrameTypes, PoolFits, Recycle

LEMMA PoolStep == ASSUME IInv, PoolFits, FrameMove PROVE PoolFits'
<1> USE DEF IInv, CoreInv, FramesFine
<1>1. CASE Stays \/ Queues \/ Dequeues \/ DequeuesCapture \/ Drops \/ DuplicateFrame
  BY <1>1 DEF PoolFits, Stays, Queues, Dequeues, DequeuesCapture, Drops, DuplicateFrame, memory
<1>2. CASE Gets
  <2>1. framePool' \in SUBSET framePool
    BY <1>2 DEF Gets, GetFrame
  <2> QED
    BY <2>1, SubsetCounts, FramesFinite, SizesAssumption DEF PoolFits, FrameTypes
<1>3. CASE GivesBack
  <2>1. PICK l \in Locals : hold[l] # NULL /\ Recycle(<<hold[l]>>)
    BY <1>3 DEF GivesBack
  <2>2. <<hold[l]>> \in Seq(Frames)
    BY <2>1 DEF FrameTypes, FrameOrNull
  <2> QED
    BY <2>1, <2>2, RecycleFits
<1>4. CASE ClearsPreview
  BY <1>4, RecycleFits DEF ClearsPreview, clearPreviewFrame, FrameTypes
<1>5. CASE ClearsCapture \/ QueuesCapture
  <2>1. QueuedCapture \in Seq(Frames)
    BY DEF QueuedCapture, FrameTypes, FrameOrNull
  <2> QED
    BY <1>5, <2>1, RecycleFits DEF ClearsCapture, clearCaptureFrame, QueuesCapture
<1>6. CASE Converts
  <2>1. PICK t \in CaptureThreads, f \in Frames :
          hold[CpFrame(t)] # NULL /\ CpCallbackConverted(t, f)
    BY <1>6 DEF Converts
  <2> DEFINE pool == framePool \ {f}
  <2>2. framePool' = pool \cup Kept(pool, <<hold[CpFrame(t)]>>)
    BY <2>1 DEF CpCallbackConverted
  <2>3. <<hold[CpFrame(t)]>> \in Seq(Frames)
    BY <2>1, LocalsDiffer DEF FrameTypes, FrameOrNull
  <2>4. pool \in SUBSET Frames /\ pool \in SUBSET framePool
    BY DEF FrameTypes
  <2>5. Cardinality(pool) <= PoolSize
    BY <2>4, SubsetCounts, FramesFinite, SizesAssumption DEF PoolFits, FrameTypes
  <2> HIDE DEF pool
  <2> QED
    BY <2>2, <2>3, <2>4, <2>5, KeptFits DEF PoolFits
<1>7. CASE DeleteUVCPreview
  BY <1>7, FS_EmptySet, SizesAssumption DEF DeleteUVCPreview, PoolFits
<1> QED
  BY <1>1, <1>2, <1>3, <1>4, <1>5, <1>6, <1>7 DEF FrameMove

-----------------------------------------------------------------------------
(* Leaks: a frame that is alive after a step and that nothing reaches was  *)
(* so before, unless the step is the one in which addCaptureFrame drops it. *)
LEMMA LeakStep ==
  ASSUME IInv, FrameMove
  PROVE  Leaked' \subseteq Leaked \cup (IF Drops THEN {hold[PvFrame]} ELSE {})
<1> USE LocalsDiffer, ObjectsAssumption DEF IInv, CoreInv, FramesFine, FrameTypes, FrameOrNull
<1> DEFINE lost == IF Drops THEN {hold[PvFrame]} ELSE {}
<1> SUFFICES ASSUME NEW f, f \in live', f \notin Owned', f \notin lost
             PROVE  f \in live /\ f \notin Owned
  BY DEF Leaked
<1>1. CASE Stays
  BY <1>1 DEF Stays, Owned, Held, queues, memory
<1>2. CASE Gets
  <2>1. PICK l \in Locals, g \in Frames : hold[l] = NULL /\ GetFrame(l, g)
    BY <1>2 DEF Gets
  <2>2. g \in Held' /\ Held \subseteq Held'
    BY <2>1 DEF Held, GetFrame, Range
  <2> QED
    BY <1>2, <2>1, <2>2 DEF Gets, GetFrame, Owned, queues
<1>3. CASE GivesBack
  <2>1. PICK l \in Locals : /\ hold[l] # NULL /\ Recycle(<<hold[l]>>)
                            /\ hold' = [hold EXCEPT ![l] = NULL]
    BY <1>3 DEF GivesBack
  <2>2. PICK kept \in SUBSET {hold[l]} :
          framePool' = framePool \cup kept /\ live' = live \ ({hold[l]} \ kept)
    BY <2>1, RecycleSplits, RangeOfOne
  <2>3. Held \subseteq Held' \cup {hold[l]}
    BY <2>1 DEF Held, Range
  <2> QED
    BY <1>3, <2>2, <2>3 DEF GivesBack, Owned, queues
<1>4. CASE ClearsPreview
  <2>1. PICK kept \in SUBSET Range(previewFrames) :
          framePool' = framePool \cup kept /\ live' = live \ (Range(previewFrames) \ kept)
    BY <1>4, RecycleSplits DEF ClearsPreview, clearPreviewFrame
  <2> QED
    BY <1>4, <2>1 DEF ClearsPreview, Owned, Held
<1>5. CASE ClearsCapture
  <2>1. PICK kept \in SUBSET ({captureQueu} \ {NULL}) :
          /\ framePool' = framePool \cup kept
          /\ live' = live \ (({captureQueu} \ {NULL}) \ kept)
    BY <1>5, RecycleSplits, QueuedCaptureRange DEF ClearsCapture, clearCaptureFrame
  <2> QED
    BY <1>5, <2>1 DEF ClearsCapture, Owned, Held
<1>6. CASE QueuesCapture
  <2>1. PICK kept \in SUBSET ({captureQueu} \ {NULL}) :
          /\ framePool' = framePool \cup kept
          /\ live' = live \ (({captureQueu} \ {NULL}) \ kept)
    BY <1>6, RecycleSplits, QueuedCaptureRange DEF QueuesCapture
  <2>2. Held \subseteq Held' \cup {captureQueu'} /\ captureQueu' # NULL
    BY <1>6 DEF QueuesCapture, Held, Range
  <2> QED
    BY <1>6, <2>1, <2>2 DEF QueuesCapture, Owned, Held
<1>7. CASE Queues
  <2>1. hold[Copy] \in Range(previewFrames)' /\ Range(previewFrames) \subseteq Range(previewFrames)'
    <3>1. /\ DOMAIN previewFrames = 1 .. Len(previewFrames) /\ Len(previewFrames) \in Nat
          /\ DOMAIN previewFrames' = 1 .. Len(previewFrames) + 1
          /\ previewFrames'[Len(previewFrames) + 1] = hold[Copy]
          /\ \A i \in DOMAIN previewFrames : previewFrames'[i] = previewFrames[i]
      BY <1>7 DEF Queues
    <3>2. /\ Len(previewFrames) + 1 \in DOMAIN previewFrames'
          /\ \A i \in DOMAIN previewFrames : i \in DOMAIN previewFrames'
      BY <3>1
    <3>3. \A i \in DOMAIN previewFrames' : previewFrames'[i] \in Range(previewFrames)'
      BY DEF Range
    <3>4. ASSUME NEW g \in Range(previewFrames) PROVE g \in Range(previewFrames)'
      <4>1. PICK i \in DOMAIN previewFrames : g = previewFrames[i]
        BY DEF Range
      <4> QED
        BY <3>1, <3>2, <3>3, <4>1
    <3> QED
      BY <3>1, <3>2, <3>3, <3>4
  <2>2. Held \subseteq Held' \cup {hold[Copy]}
    BY <1>7 DEF Queues, Held, Range
  <2> QED
    BY <1>7, <2>1, <2>2 DEF Queues, Owned, memory
<1>8. CASE Dequeues
  <2>1. Range(previewFrames) \subseteq Range(previewFrames)' \cup {Head(previewFrames)}
    <3>1. /\ DOMAIN previewFrames = 1 .. Len(previewFrames) /\ Len(previewFrames) \in Nat \ {0}
          /\ DOMAIN previewFrames' = 1 .. Len(previewFrames) - 1
          /\ previewFrames[1] = Head(previewFrames)
          /\ \A i \in DOMAIN previewFrames' : previewFrames'[i] = previewFrames[i + 1]
      BY <1>8 DEF Dequeues
    <3>2. \A i \in DOMAIN previewFrames : i # 1 => i - 1 \in DOMAIN previewFrames'
      BY <3>1
    <3>3. \A i \in DOMAIN previewFrames : i # 1 => previewFrames[i] = previewFrames'[i - 1]
      BY <3>1, <3>2
    <3> QED
      BY <3>1, <3>2, <3>3 DEF Range
  <2>2. Head(previewFrames) \in Held' /\ Held \subseteq Held'
    BY <1>8 DEF Dequeues, Held, Range
  <2> QED
    BY <1>8, <2>1, <2>2 DEF Dequeues, Owned, memory
<1>9. CASE DequeuesCapture
  <2>1. captureQueu \in Held' /\ Held \subseteq Held'
    BY <1>9 DEF DequeuesCapture, Held, Range
  <2> QED
    BY <1>9, <2>1 DEF DequeuesCapture, Owned, memory
<1>10. CASE Drops
  <2>1. Held \subseteq Held' \cup {hold[PvFrame]}
    BY <1>10 DEF Drops, Held, Range
  <2> QED
    BY <1>10, <2>1 DEF Drops, Owned, queues, memory
<1>11. CASE Converts
  <2>1. PICK t \in CaptureThreads, g \in Frames :
          hold[CpFrame(t)] # NULL /\ CpCallbackConverted(t, g)
    BY <1>11 DEF Converts
  <2> DEFINE frame == hold[CpFrame(t)]
             kept  == Kept(framePool \ {g}, <<frame>>)
  <2>2. /\ framePool' = (framePool \ {g}) \cup kept
        /\ live' = (live \cup {g}) \ ({frame} \ kept)
        /\ hold' = [hold EXCEPT ![CpFrame(t)] = g]
        /\ UNCHANGED <<previewFrames, captureQueu>>
    BY <2>1 DEF CpCallbackConverted, CpOnly
  <2> HIDE DEF kept
  <2>3. g \in Held' /\ Held \subseteq Held' \cup {frame}
    BY <2>1, <2>2 DEF Held, Range
  <2> QED
    BY <2>2, <2>3 DEF Owned
<1>12. CASE DuplicateFrame
  BY <1>12 DEF DuplicateFrame, Owned, Held, queues
<1>13. CASE DeleteUVCPreview
  BY <1>13 DEF DeleteUVCPreview, Owned, Held
<1> QED
  BY <1>1, <1>2, <1>3, <1>4, <1>5, <1>6, <1>7, <1>8, <1>9, <1>10, <1>11, <1>12, <1>13
  DEF FrameMove

(* The queue.                                                              *)
QueueFits == Len(previewFrames) <= MaxFrame

LEMMA QueueStep == ASSUME IInv, QueueFits, FrameMove PROVE QueueFits'
<1> USE SizesAssumption DEF IInv, CoreInv, FramesFine, FrameTypes, QueueFits
<1>1. CASE Queues
  BY <1>1 DEF Queues
<1>2. CASE Dequeues
  BY <1>2 DEF Dequeues
<1>3. CASE previewFrames' = <<>>
  BY <1>3
<1>4. CASE UNCHANGED previewFrames
  BY <1>4
<1>5. Queues \/ Dequeues \/ previewFrames' = <<>> \/ UNCHANGED previewFrames
  BY DEF FrameMove, Stays, Gets, GivesBack, ClearsPreview, clearPreviewFrame, ClearsCapture,
         QueuesCapture, DequeuesCapture, Drops, Converts, CpCallbackConverted, CpOnly,
         DuplicateFrame, DeleteUVCPreview, queues
<1> QED
  BY <1>1, <1>2, <1>3, <1>4, <1>5

-----------------------------------------------------------------------------
(* Each session loses at most one frame, because addCaptureFrame loses one *)
(* only after mIsRunning was cleared, and the preview thread then leaves   *)
(* its loop: it may lose a frame only as long as this has not happened.    *)
MayLeak ==
  /\ pvPc \notin {"none", "exit", "stopStream", "joinCallback", "done"}
  /\ pvPc = "loop" => mIsRunning
LeakBound == Cardinality(Leaked) <= session - (IF MayLeak THEN 1 ELSE 0)
MemoryInv == QueueFits /\ PoolFits /\ LeakBound

SameSession == session' = session /\ (MayLeak' => MayLeak)
NextSession == session' = session + 1 /\ ~MayLeak /\ Stays

LEMMA ApiSessions == ASSUME IInv, ApiCall \/ ApiStep PROVE SameSession \/ NextSession
<1> USE DEF IInv, StageInv, MayLeak, SameSession, flags, sessions, pvVars
<1>1. ASSUME ApiCall PROVE SameSession
  BY <1>1 DEF ApiCall, setPreviewDisplay, setCaptureDisplay, setFrameCallback, BeginReplace,
              startPreview, stopPreview, Calls, Stopping
<1>2. ASSUME CreatePreviewThread PROVE NextSession
  BY <1>2 DEF CreatePreviewThread, NextSession, Stays
<1>3. ASSUME StartPreviewFails \/ StopSignalPreview \/ JoinPreviewThread PROVE SameSession
  BY <1>3 DEF StartPreviewFails, StopSignalPreview, JoinPreviewThread, SignalPreview
<1>4. ASSUME ApiStep, ~CreatePreviewThread, ~StartPreviewFails, ~StopSignalPreview,
             ~JoinPreviewThread
      PROVE  UNCHANGED <<session, pvPc, mIsRunning>>
  BY <1>4 DEF ApiStep, PreviewThreadNotCreated, StopSignalCapture, JoinCaptureThread,
              StopClearPreview, StopClearCapture, StopReleaseWindows, DeleteUVCPreview,
              WaitFinishingCapturing, ReplaceFrameCallback, ReplaceCaptureWindow, Replace
<1> QED
  BY <1>1, <1>2, <1>3, <1>4

LEMMA PreviewSessions == ASSUME IInv, PreviewStep PROVE SameSession
<1> USE DEF MayLeak, SameSession, flags, sessions, PvGoto, PvOnly
<1>1. UNCHANGED <<session, mIsRunning>>
  BY DEF PreviewStep, PreparePreview, StartStreaming, StopStreaming, PvLoop, CreateCaptureThread,
         DrawNothing, PvSignalCapture, PvClearPreviewFrame, waitPreviewFrame, TakePreviewFrame,
         DrawPreviewOne, DrawnPreviewOne, addCaptureFrame
<1>2. ASSUME PvLoop \/ PvSignalCapture \/ StopStreaming PROVE MayLeak' => MayLeak
  BY <1>2 DEF PvLoop, PvSignalCapture, StopStreaming
<1>3. ASSUME PreviewStep, ~PvLoop, ~PvSignalCapture, ~StopStreaming
      PROVE  pvPc \in {"prepare", "startStream", "clear", "createCapture", "take", "woken",
                       "draw", "drawn", "addCapture"}
  BY <1>3 DEF PreviewStep, PreparePreview, StartStreaming, CreateCaptureThread, DrawNothing,
              PvClearPreviewFrame, waitPreviewFrame, TakePreviewFrame, DrawPreviewOne,
              DrawnPreviewOne, addCaptureFrame
<1> QED
  BY <1>1, <1>2, <1>3

LEMMA OtherSessions ==
  ASSUME IInv,
         \/ (\E f \in Frames : FrameCallback(f)) \/ CallbackStep
         \/ \E t \in CaptureThreads : CaptureStep(t)
         \/ SpuriousWakeup \/ UNCHANGED vars
  PROVE  SameSession
<1>1. ASSUME \/ (\E f \in Frames : FrameCallback(f)) \/ CallbackStep
             \/ SpuriousWakeup \/ UNCHANGED vars
      PROVE  /\ UNCHANGED <<session, mIsRunning>>
             /\ pvPc' = pvPc \/ (pvPc = "blocked" /\ pvPc' = "woken")
  BY <1>1 DEF FrameCallback, CallbackStep, DuplicateFrame, DuplicateFails, addPreviewFrame,
              SignalPreview, SpuriousWakeup, vars, flags, sessions, pvVars
<1>2. ASSUME NEW t \in CaptureThreads, CaptureStep(t)
      PROVE  UNCHANGED <<session, mIsRunning, pvPc>>
  BY <1>2
  DEF CaptureStep, CpClearCaptureFrame, CpLoop, CpSelect, CpCheck, waitCaptureFrame,
      TakeCaptureFrame, CpConvert, CpCallbackConverted, CpConvertAgain, CpSkipSurface, CpPost,
      CpPosted, CpNoCallback, CpCallbackRaw, CpInvoke, CpReturn, CpReleaseWindow,
      CpForgetWindow, CpBroadcast, CpOnly, flags, sessions, pvVars
<1> QED
  BY <1>1, <1>2 DEF SameSession, MayLeak

LEMMA SessionStep == ASSUME IInv, [Next]_vars PROVE SameSession \/ NextSession
  BY ApiSessions, PreviewSessions, OtherSessions DEF Next

(* The number of lost frames grows by one only when the session's is lost. *)
LEMMA LeakBoundStep == ASSUME IInv, LeakBound, [Next]_vars PROVE LeakBound'
<1>1. IInv' /\ FrameMove /\ (SameSession \/ NextSession)
  BY StepInv, StepMoves, SessionStep
<1>2. Leaked \in SUBSET Frames /\ Leaked' \in SUBSET Frames
  BY <1>1 DEF IInv, CoreInv, FramesFine, FrameTypes, Leaked
<1>3. Cardinality(Leaked) \in Nat /\ Cardinality(Leaked') \in Nat /\ session \in Nat
  BY <1>2, FramesFinite, SizesAssumption DEF IInv, CoreInv, WorkerTypes
<1>4. CASE ~Drops
  <2>1. Cardinality(Leaked') <= Cardinality(Leaked)
    BY <1>1, <1>2, <1>4, LeakStep, SubsetCounts
  <2>2. CASE SameSession
    BY <1>3, <2>1, <2>2 DEF LeakBound, SameSession
  <2>3. CASE NextSession
    BY <1>3, <2>1, <2>3 DEF LeakBound, NextSession
  <2> QED
    BY <1>1, <2>2, <2>3
<1>5. CASE Drops
  <2>1. session' = session /\ MayLeak /\ ~MayLeak'
    BY <1>5 DEF Drops, MayLeak
  <2>2. hold[PvFrame] \in Frames
    BY <1>5, LocalsDiffer DEF Drops, IInv, CoreInv, FramesFine, FrameTypes, FrameOrNull
  <2> DEFINE more == Leaked \cup {hold[PvFrame]}
  <2>3. more \in SUBSET Frames /\ Leaked' \in SUBSET more
    BY <1>1, <1>2, <1>5, <2>2, LeakStep
  <2>4. Cardinality(more) <= Cardinality(Leaked) + 1 /\ Cardinality(more) \in Nat
    BY <1>2, <2>2, <2>3, OneMoreCounts, FramesFinite
  <2>5. Cardinality(Leaked') <= Cardinality(more)
    BY <2>3, SubsetCounts
  <2> HIDE DEF more
  <2> QED
    BY <1>3, <2>1, <2>4, <2>5 DEF LeakBound
<1> QED
  BY <1>4, <1>5

(* MAX_FRAME and FRAME_POOL_SZ are kept, and memory is lost to at most one *)
(* frame for each session, however the threads interleave.                 *)
THEOREM MemoryBounded == Spec => []MemoryBound
<1>1. ASSUME Init PROVE MemoryInv
  <2>1. Leaked = {} /\ framePool = {} /\ previewFrames = <<>> /\ ~MayLeak /\ session = 0
    BY <1>1 DEF Init, Leaked, MayLeak
  <2> QED
    BY <2>1, FS_EmptySet, SizesAssumption DEF MemoryInv, QueueFits, PoolFits, LeakBound
<1>2. ASSUME IInv, MemoryInv, [Next]_vars PROVE MemoryInv'
  BY <1>2, StepMoves, QueueStep, PoolStep, LeakBoundStep DEF MemoryInv
<1>3. ASSUME IInv, MemoryInv PROVE MemoryBound
  <2>1. Leaked \in SUBSET Frames /\ session \in Int
    BY <1>3, SizesAssumption DEF IInv, CoreInv, FramesFine, FrameTypes, WorkerTypes, Leaked
  <2>2. Cardinality(Leaked) \in Nat
    BY <2>1, FramesFinite
  <2>3. Cardinality(Leaked) <= session
    BY <1>3, <2>1, <2>2 DEF MemoryInv, LeakBound
  <2> QED
    BY <1>3, <2>3 DEF MemoryInv, QueueFits, PoolFits, MemoryBound
<1> QED
  BY <1>1, <1>2, <1>3, Inductive, PTL DEF Spec
=============================================================================
