------------------------- MODULE UVCPreviewOrderProofs -------------------------
(***************************************************************************)
(* Which picture is where, for every number of frames and pictures and     *)
(* every queue and pool size: none of an earlier session is about in a     *)
(* later one, and in one session they arrive in the order they were taken. *)
(***************************************************************************)
EXTENDS UVCPreviewMemoryProofs

-----------------------------------------------------------------------------
(* The pictures between libuvc and the capture threads, and those that a   *)
(* capture thread has taken and onFrame has not seen.                      *)
Filled   == IF cbPc = "add" THEN {hold[Copy]} ELSE {}
Waiting  == (Range(previewFrames) \cup {captureQueu, hold[PvFrame]} \cup Filled) \ {NULL}
Taken(t) == IF cpPc[t] = "inCall" THEN {} ELSE {hold[CpFrame(t)]} \ {NULL}

(* Every frame with a picture, or about to have one.                       *)
Carried ==
  (Range(previewFrames) \cup {captureQueu, hold[PvFrame], hold[Copy]}
     \cup {hold[CpFrame(t)] : t \in CaptureThreads}) \ {NULL}

(* No step but two moves a picture past the ends of the pipeline.          *)
Calm ==
  /\ UNCHANGED <<captured, delivered>>
  /\ cbPc' = "add" => cbPc = "add"
  /\ \A t \in CaptureThreads :
       /\ cpPc'[t] = "inCall" => cpPc[t] = "inCall"
       /\ cpPc[t] = "inCall" => cpPc'[t] = "inCall" \/ hold'[CpFrame(t)] = NULL

LEMMA ApiCalm == ASSUME IInv, ApiCall \/ ApiStep PROVE Calm
<1> USE DEF cbVars, pvVars, cpVars, IInv, CoreInv, WorkerTypes
<1>1. UNCHANGED <<captured, delivered, cbPc, hold>>
  BY DEF ApiCall, setPreviewDisplay, setCaptureDisplay, setFrameCallback, BeginReplace,
         startPreview, stopPreview, ApiStep, CreatePreviewThread, PreviewThreadNotCreated,
         StartPreviewFails, StopSignalPreview, StopSignalCapture, JoinCaptureThread,
         JoinPreviewThread, StopClearPreview, StopClearCapture, StopReleaseWindows,
         DeleteUVCPreview, WaitFinishingCapturing, ReplaceFrameCallback, ReplaceCaptureWindow,
         Replace
<1>2. UNCHANGED cpPc \/ SignalCapture
  BY DEF ApiCall, setPreviewDisplay, setCaptureDisplay, setFrameCallback, BeginReplace,
         startPreview, stopPreview, ApiStep, CreatePreviewThread, PreviewThreadNotCreated,
         StartPreviewFails, StopSignalPreview, StopSignalCapture, JoinCaptureThread,
         JoinPreviewThread, StopClearPreview, StopClearCapture, StopReleaseWindows,
         DeleteUVCPreview, WaitFinishingCapturing, ReplaceFrameCallback, ReplaceCaptureWindow,
         Replace
<1>3. \A t \in CaptureThreads : cpPc'[t] = "inCall" <=> cpPc[t] = "inCall"
  BY <1>2 DEF SignalCapture, BlockedCaptures
<1> QED
  BY <1>1, <1>3 DEF Calm

LEMMA CallbackCalm ==
  ASSUME IInv, (\E f \in Frames : FrameCallback(f)) \/ CallbackStep, ~DuplicateFrame
  PROVE  Calm
  BY DEF FrameCallback, CallbackStep, DuplicateFails, addPreviewFrame, Calm, cpVars, cbVars

LEMMA PreviewCalm == ASSUME IInv, PreviewStep PROVE Calm
<1> USE DEF cbVars, cpVars, PvGoto, PvOnly, IInv, CoreInv, WorkerTypes
<1>1. UNCHANGED <<captured, delivered, cbPc>>
  BY DEF PreviewStep, PreparePreview, StartStreaming, StopStreaming, PvLoop, CreateCaptureThread,
         DrawNothing, PvSignalCapture, PvClearPreviewFrame, waitPreviewFrame, TakePreviewFrame,
         DrawPreviewOne, DrawnPreviewOne, addCaptureFrame
<1>2. \A t \in CaptureThreads : cpPc'[t] = "inCall" <=> cpPc[t] = "inCall"
  <2>1. CASE CreateCaptureThread
    <3>1. session \in CaptureThreads /\ cpPc[session] # "inCall"
      BY <2>1, SizesAssumption DEF CreateCaptureThread, StageInv, CaptureThreads
    <3> QED
      BY <2>1, <3>1 DEF CreateCaptureThread
  <2>2. CASE addCaptureFrame \/ PvSignalCapture
    BY <2>2 DEF addCaptureFrame, PvSignalCapture, SignalCapture, BlockedCaptures, WokenCaptures
  <2>3. CASE UNCHANGED cpPc
    BY <2>3
  <2> QED
    BY <2>1, <2>2, <2>3
    DEF PreviewStep, PreparePreview, StartStreaming, StopStreaming, PvLoop, DrawNothing,
        PvClearPreviewFrame, waitPreviewFrame, TakePreviewFrame, DrawPreviewOne, DrawnPreviewOne
<1> QED
  BY <1>1, <1>2 DEF Calm

LEMMA CaptureCalm ==
  ASSUME IInv, NEW t \in CaptureThreads, CaptureStep(t), ~CpInvoke(t)
  PROVE  Calm
<1> USE DEF cbVars, cpVars, CpGoto, CpAt, CpOnly, IInv, CoreInv, WorkerTypes
<1>1. UNCHANGED <<captured, delivered, cbPc>>
  BY DEF CaptureStep, CpClearCaptureFrame, CpLoop, CpSelect, CpCheck, waitCaptureFrame,
         TakeCaptureFrame, CpConvert, CpCallbackConverted, CpConvertAgain, CpSkipSurface, CpPost,
         CpPosted, CpNoCallback, CpCallbackRaw, CpInvoke, CpReturn, CpReleaseWindow,
         CpForgetWindow, CpBroadcast
<1>2. CASE CpReturn(t)
  BY <1>1, <1>2, LocalsDiffer DEF Calm, CpReturn, FramesFine, FrameTypes
<1>3. CASE CpBroadcast(t)
  BY <1>1, <1>3 DEF Calm, CpBroadcast, WokenCaptures
<1>4. CASE cpPc[t] # "inCall" /\ \E pc \in CpPcs \ {"inCall"} : cpPc' = [cpPc EXCEPT ![t] = pc]
  BY <1>1, <1>4 DEF Calm
<1>5. CpReturn(t) \/ CpBroadcast(t)
        \/ (cpPc[t] # "inCall" /\ \E pc \in CpPcs \ {"inCall"} : cpPc' = [cpPc EXCEPT ![t] = pc])
  BY DEF CaptureStep, CpClearCaptureFrame, CpLoop, CpSelect, CpCheck, waitCaptureFrame,
         TakeCaptureFrame, CpConvert, CpCallbackConverted, CpConvertAgain, CpSkipSurface, CpPost,
         CpPosted, CpNoCallback, CpCallbackRaw, CpReleaseWindow, CpForgetWindow, CpPcs
<1> QED
  BY <1>2, <1>3, <1>4, <1>5

LEMMA StepCalm ==
  ASSUME IInv, [Next]_vars
  PROVE  Calm \/ DuplicateFrame \/ \E t \in CaptureThreads : CpInvoke(t)
<1>1. CASE SpuriousWakeup \/ UNCHANGED vars
  BY <1>1 DEF SpuriousWakeup, BlockedCaptures, vars, cbVars, cpVars, Calm, IInv, CoreInv,
              WorkerTypes
<1> QED
  BY <1>1, ApiCalm, CallbackCalm, PreviewCalm, CaptureCalm DEF Next, CallbackStep

-----------------------------------------------------------------------------
(* A frame that is handed on keeps its picture: recycle_frame forgets only *)
(* that of a frame which is in the pool, or nowhere, afterwards.           *)
LEMMA CarriedOwned ==
  ASSUME IInv
  PROVE  Carried \subseteq live /\ Carried \cap framePool = {}
  BY LocalsDiffer DEF IInv, CoreInv, FramesFine, FrameTypes, FrameOwnership, Owned, Held,
                      Carried, Range

LEMMA RecycleKeeps ==
  ASSUME IInv, IInv', NEW s, Recycle(s), NEW f \in Carried'
  PROVE  content'[f] = content[f]
<1>1. f \in live' /\ f \notin framePool' /\ f \in Frames
  <2>1. Carried' \subseteq live' /\ Carried' \cap framePool' = {}
    BY LocalsDiffer DEF IInv, CoreInv, FramesFine, FrameTypes, FrameOwnership, Owned, Held,
                        Carried, Range
  <2> QED
    BY <2>1 DEF IInv, CoreInv, FramesFine, FrameTypes
<1>2. f \notin Range(s)
  BY <1>1 DEF Recycle
<1> QED
  BY <1>1, <1>2 DEF Recycle

LEMMA ContentKept ==
  ASSUME IInv, IInv', FrameMove, ~Converts, ~DuplicateFrame, NEW f \in Carried'
  PROVE  content'[f] = content[f]
<1>1. CASE Stays \/ Gets \/ Queues \/ Dequeues \/ DequeuesCapture \/ Drops
  BY <1>1 DEF Stays, Gets, Queues, Dequeues, DequeuesCapture, Drops, memory
<1>2. CASE GivesBack \/ ClearsPreview \/ ClearsCapture \/ QueuesCapture
  BY <1>2, RecycleKeeps DEF GivesBack, ClearsPreview, clearPreviewFrame, ClearsCapture,
                            clearCaptureFrame, QueuesCapture
<1>3. CASE DeleteUVCPreview
  <2>1. f \in live' /\ f \in Frames
    BY LocalsDiffer DEF IInv, CoreInv, FramesFine, FrameTypes, FrameOwnership, Owned, Held,
                        Carried, Range
  <2> QED
    BY <1>3, <2>1 DEF DeleteUVCPreview
<1> QED
  BY <1>1, <1>2, <1>3 DEF FrameMove

-----------------------------------------------------------------------------
(* Only DuplicateFrame puts a new picture on its way.                      *)
LEMMA WaitingShrinks ==
  ASSUME IInv, FrameMove, cbPc' = "add" => cbPc = "add", ~DuplicateFrame
  PROVE  Waiting' \subseteq Waiting
<1> USE LocalsDiffer DEF IInv, CoreInv, FramesFine, FrameTypes, Waiting, Filled
<1>1. CASE Stays
  BY <1>1 DEF Stays, queues
<1>2. CASE Gets
  BY <1>2 DEF Gets, GetFrame, queues
<1>3. CASE GivesBack
  BY <1>3 DEF GivesBack, queues
<1>4. CASE ClearsPreview \/ ClearsCapture \/ DeleteUVCPreview
  <2>1. Range(<<>>) = {}
    BY DEF Range
  <2> QED
    BY <1>4, <2>1 DEF ClearsPreview, ClearsCapture, clearPreviewFrame, clearCaptureFrame,
                      DeleteUVCPreview
<1>5. CASE Queues
  <2>1. Range(previewFrames)' \subseteq Range(previewFrames) \cup {hold[Copy]}
    <3>1. /\ DOMAIN previewFrames = 1 .. Len(previewFrames) /\ Len(previewFrames) \in Nat
          /\ DOMAIN previewFrames' = 1 .. Len(previewFrames) + 1
          /\ previewFrames'[Len(previewFrames) + 1] = hold[Copy]
          /\ \A i \in DOMAIN previewFrames : previewFrames'[i] = previewFrames[i]
      BY <1>5 DEF Queues
    <3> QED
      BY <3>1 DEF Range
  <2> QED
    BY <1>5, <2>1 DEF Queues
<1>6. CASE Dequeues
  <2>1. /\ Range(previewFrames)' \subseteq Range(previewFrames)
        /\ Head(previewFrames) \in Range(previewFrames)
    <3>1. /\ DOMAIN previewFrames = 1 .. Len(previewFrames) /\ Len(previewFrames) \in Nat \ {0}
          /\ DOMAIN previewFrames' = 1 .. Len(previewFrames) - 1
          /\ previewFrames[1] = Head(previewFrames)
          /\ \A i \in DOMAIN previewFrames' : previewFrames'[i] = previewFrames[i + 1]
      BY <1>6 DEF Dequeues
    <3>2. /\ 1 \in DOMAIN previewFrames
          /\ \A i \in DOMAIN previewFrames' : i + 1 \in DOMAIN previewFrames
      BY <3>1
    <3>3. \A f \in Range(previewFrames)' : f \in Range(previewFrames)
      BY <3>1, <3>2 DEF Range
    <3>4. Head(previewFrames) \in Range(previewFrames)
      BY <3>1, <3>2 DEF Range
    <3> QED
      BY <3>3, <3>4
  <2> QED
    BY <1>6, <2>1 DEF Dequeues
<1>7. CASE QueuesCapture \/ Drops
  BY <1>7 DEF QueuesCapture, Drops, queues
<1>8. CASE DequeuesCapture
  BY <1>8 DEF DequeuesCapture
<1>9. CASE Converts
  BY <1>9 DEF Converts, CpCallbackConverted, CpOnly
<1> QED
  BY <1>1, <1>2, <1>3, <1>4, <1>5, <1>6, <1>7, <1>8, <1>9 DEF FrameMove

(* do_capture_callback's conversion touches only the frame it converts and *)
(* a frame that nobody carries.                                            *)
LEMMA ConvertKeeps ==
  ASSUME IInv, NEW t \in CaptureThreads, NEW g \in Frames, CpCallbackConverted(t, g),
         NEW f \in Carried, f # hold[CpFrame(t)]
  PROVE  content'[f] = content[f]
<1>1. f \in Frames /\ f # g
  <2>1. f \in live /\ f \notin framePool
    BY CarriedOwned
  <2> QED
    BY <2>1 DEF CpCallbackConverted, IInv, CoreInv, FramesFine, FrameTypes
<1>2. content' = [content EXCEPT ![g] = content[hold[CpFrame(t)]], ![hold[CpFrame(t)]] = 0]
  BY DEF CpCallbackConverted
<1>3. content \in [Frames -> Nat]
  BY DEF IInv, CoreInv, FramesFine, FrameTypes
<1> QED
  BY <1>1, <1>2, <1>3

LEMMA WaitingCarried == Waiting \subseteq Carried
  BY DEF Waiting, Filled, Carried

LEMMA WaitingNotTaken ==
  ASSUME IInv, NEW t \in CaptureThreads, hold[CpFrame(t)] # NULL
  PROVE  hold[CpFrame(t)] \notin Waiting
  BY LocalsDiffer DEF IInv, CoreInv, FramesFine, FrameTypes, FrameOwnership, Held, Waiting, Filled,
                      Range

LEMMA WaitingKept ==
  ASSUME IInv, [Next]_vars, ~DuplicateFrame, NEW f \in Waiting'
  PROVE  f \in Waiting /\ content'[f] = content[f]
<1>1. IInv' /\ FrameMove
  BY StepInv, StepMoves
<1>2. cbPc' = "add" => cbPc = "add"
  BY StepCalm DEF Calm, CpInvoke, CpOnly, cbVars
<1>3. f \in Waiting
  BY <1>1, <1>2, WaitingShrinks
<1>4. f \in Carried' /\ f \in Carried
  BY <1>3, WaitingCarried DEF Waiting, Filled, Carried
<1>5. CASE Converts
  BY <1>3, <1>4, <1>5, ConvertKeeps, WaitingNotTaken DEF Converts
<1> QED
  BY <1>1, <1>3, <1>4, <1>5, ContentKept

LEMMA FillWaiting ==
  ASSUME IInv, DuplicateFrame, NEW f \in Waiting'
  PROVE  \/ f \in Waiting /\ content'[f] = content[f] /\ f # hold[Copy]
         \/ f = hold[Copy] /\ content'[f] = captured + 1
<1>1. hold[Copy] \in Frames /\ cbPc = "duplicate"
  BY LocalsDiffer DEF DuplicateFrame, IInv, CoreInv, HoldInv, FramesFine, FrameTypes, FrameOrNull
<1>2. content' = [content EXCEPT ![hold[Copy]] = captured + 1] /\ UNCHANGED <<queues, hold>>
  BY DEF DuplicateFrame
<1>3. f \in Waiting \/ f = hold[Copy]
  BY <1>2 DEF Waiting, Filled, queues
<1> QED
  BY <1>1, <1>2, <1>3 DEF IInv, CoreInv, FramesFine, FrameTypes

-----------------------------------------------------------------------------
(* Pictures are numbered on, so those of this session are above its base;  *)
(* when the next one begins, nothing waits any more.                       *)
FreshInv ==
  /\ sessionBase <= captured
  /\ \A f \in Waiting : content[f] > sessionBase
  /\ \A t \in CaptureThreads :
       hold[CpFrame(t)] # NULL => content[hold[CpFrame(t)]] > sessionBase \/ t < session

(* What a capture thread has, it had before, or took from captureQueu.     *)
LEMMA TakenBefore ==
  ASSUME IInv, [Next]_vars, ~DuplicateFrame, NEW t \in CaptureThreads, hold'[CpFrame(t)] # NULL
  PROVE  \E f \in {hold[CpFrame(t)], captureQueu} \ {NULL} :
           content'[hold'[CpFrame(t)]] = content[f]
<1> USE LocalsDiffer DEF IInv, CoreInv, FramesFine, FrameTypes
<1>1. IInv' /\ FrameMove
  BY StepInv, StepMoves
<1>2. hold'[CpFrame(t)] \in Carried'
  BY DEF Carried
<1>3. CASE Converts
  <2>1. PICK u \in CaptureThreads, g \in Frames :
          hold[CpFrame(u)] # NULL /\ CpCallbackConverted(u, g)
    BY <1>3 DEF Converts
  <2>2. hold' = [hold EXCEPT ![CpFrame(u)] = g]
    BY <2>1 DEF CpCallbackConverted
  <2>3. CASE t = u
    <3>1. g # hold[CpFrame(u)]
      BY <2>1, CarriedOwned DEF CpCallbackConverted, Carried
    <3> QED
      BY <2>1, <2>2, <2>3, <3>1 DEF CpCallbackConverted
  <2>4. CASE t # u
    <3>1. hold'[CpFrame(t)] = hold[CpFrame(t)]
      BY <2>2, <2>4
    <3>2. hold[CpFrame(t)] \in Carried /\ hold[CpFrame(t)] # hold[CpFrame(u)]
      BY <2>1, <2>4, <3>1 DEF Carried, FrameOwnership
    <3> QED
      BY <2>1, <3>1, <3>2, ConvertKeeps
  <2> QED
    BY <2>3, <2>4
<1>4. CASE ~Converts
  <2>1. hold'[CpFrame(t)] \in {hold[CpFrame(t)], captureQueu}
    <3>1. CASE Stays \/ ClearsPreview \/ ClearsCapture \/ DeleteUVCPreview
      BY <3>1 DEF Stays, ClearsPreview, ClearsCapture, DeleteUVCPreview
    <3>2. CASE Gets
      BY <3>2 DEF Gets, GetFrame
    <3>3. CASE GivesBack
      BY <3>3 DEF GivesBack
    <3>4. CASE Queues \/ Dequeues \/ QueuesCapture \/ Drops
      BY <3>4 DEF Queues, Dequeues, QueuesCapture, Drops
    <3>5. CASE DequeuesCapture
      BY <3>5 DEF DequeuesCapture
    <3> QED
      BY <1>1, <1>4, <3>1, <3>2, <3>3, <3>4, <3>5 DEF FrameMove
  <2> QED
    BY <1>1, <1>2, <1>4, <2>1, ContentKept
<1> QED
  BY <1>3, <1>4

LEMMA BaseStep ==
  ASSUME IInv, [Next]_vars
  PROVE  UNCHANGED <<session, sessionBase>> \/ CreatePreviewThread
<1> USE DEF sessions
<1>1. ASSUME ApiCall \/ ApiStep PROVE UNCHANGED <<session, sessionBase>> \/ CreatePreviewThread
  BY <1>1
  DEF ApiCall, setPreviewDisplay, setCaptureDisplay, setFrameCallback, BeginReplace,
      startPreview, stopPreview, ApiStep, PreviewThreadNotCreated, StartPreviewFails,
      StopSignalPreview, StopSignalCapture, JoinCaptureThread, JoinPreviewThread,
      StopClearPreview, StopClearCapture, StopReleaseWindows, DeleteUVCPreview,
      WaitFinishingCapturing, ReplaceFrameCallback, ReplaceCaptureWindow, Replace
<1>2. ASSUME (\E f \in Frames : FrameCallback(f)) \/ CallbackStep
      PROVE  UNCHANGED <<session, sessionBase>>
  BY <1>2 DEF FrameCallback, CallbackStep, DuplicateFrame, DuplicateFails, addPreviewFrame
<1>3. ASSUME PreviewStep PROVE UNCHANGED <<session, sessionBase>>
  BY <1>3
  DEF PreviewStep, PreparePreview, StartStreaming, StopStreaming, PvLoop, CreateCaptureThread,
      DrawNothing, PvSignalCapture, PvClearPreviewFrame, waitPreviewFrame, TakePreviewFrame,
      DrawPreviewOne, DrawnPreviewOne, addCaptureFrame
<1>4. ASSUME NEW t \in CaptureThreads, CaptureStep(t) PROVE UNCHANGED <<session, sessionBase>>
  BY <1>4
  DEF CaptureStep, CpClearCaptureFrame, CpLoop, CpSelect, CpCheck, waitCaptureFrame,
      TakeCaptureFrame, CpConvert, CpCallbackConverted, CpConvertAgain, CpSkipSurface, CpPost,
      CpPosted, CpNoCallback, CpCallbackRaw, CpInvoke, CpReturn, CpReleaseWindow,
      CpForgetWindow, CpBroadcast, CpOnly
<1>5. ASSUME SpuriousWakeup \/ UNCHANGED vars PROVE UNCHANGED <<session, sessionBase>>
  BY <1>5 DEF SpuriousWakeup, vars
<1> QED
  BY <1>1, <1>2, <1>3, <1>4, <1>5 DEF Next

LEMMA FreshStep == ASSUME IInv, FreshInv, [Next]_vars PROVE FreshInv'
<1>1. sessionBase \in Nat /\ captured \in Nat /\ content \in [Frames -> Nat]
  BY DEF IInv, CoreInv, WorkerTypes, FramesFine, FrameTypes
<1>2. CASE CreatePreviewThread
  <2>1. Waiting' = {}
    <3>1. previewFrames = <<>> /\ captureQueu = NULL /\ hold[PvFrame] = NULL /\ cbPc = "idle"
      BY <1>2 DEF CreatePreviewThread, IInv, StageInv, CoreInv, HoldInv
    <3>2. Range(<<>>) = {}
      BY DEF Range
    <3> QED
      BY <1>2, <3>1, <3>2 DEF CreatePreviewThread, Waiting, Filled, queues, cbVars
  <2>2. \A t \in CaptureThreads : hold'[CpFrame(t)] # NULL => t < session'
    <3> SUFFICES ASSUME NEW t \in CaptureThreads, hold[CpFrame(t)] # NULL
                 PROVE  t < session + 1
      BY <1>2 DEF CreatePreviewThread
    <3>1. cpPc[t] # "none"
      BY DEF IInv, CoreInv, HoldInv, CpTaken
    <3>2. t <= session /\ session \in Nat /\ t \in Nat
      BY <3>1, SizesAssumption DEF IInv, StageInv, CoreInv, WorkerTypes, CaptureThreads
    <3> QED
      BY <3>2
  <2> QED
    BY <1>1, <1>2, <2>1, <2>2 DEF CreatePreviewThread, FreshInv, cbVars
<1>3. CASE UNCHANGED <<session, sessionBase>> /\ ~DuplicateFrame
  <2>1. captured' = captured
    BY <1>3, StepCalm DEF Calm, CpInvoke, CpOnly, cbVars
  <2>2. ASSUME NEW t \in CaptureThreads, hold'[CpFrame(t)] # NULL, ~(t < session)
        PROVE  content'[hold'[CpFrame(t)]] > sessionBase
    <3>1. PICK f \in {hold[CpFrame(t)], captureQueu} \ {NULL} :
            content'[hold'[CpFrame(t)]] = content[f]
      BY <1>3, <2>2, TakenBefore
    <3>2. CASE f = hold[CpFrame(t)]
      BY <2>2, <3>1, <3>2 DEF FreshInv
    <3>3. CASE f = captureQueu
      BY <3>1, <3>3 DEF FreshInv, Waiting
    <3> QED
      BY <3>1, <3>2, <3>3
  <2> QED
    BY <1>3, <2>1, <2>2, WaitingKept DEF FreshInv
<1>4. CASE DuplicateFrame
  <2>1. UNCHANGED <<session, sessionBase>> /\ captured' = captured + 1
    BY <1>4 DEF DuplicateFrame, sessions
  <2>2. ASSUME NEW t \in CaptureThreads, hold'[CpFrame(t)] # NULL
        PROVE  /\ hold[CpFrame(t)] = hold'[CpFrame(t)]
               /\ content'[hold[CpFrame(t)]] = content[hold[CpFrame(t)]]
    <3>1. hold[Copy] # hold[CpFrame(t)]
      BY <1>4, <2>2, LocalsDiffer DEF DuplicateFrame, IInv, CoreInv, FramesFine, FrameOwnership
    <3> QED
      BY <1>1, <1>4, <3>1 DEF DuplicateFrame
  <2> QED
    BY <1>1, <1>4, <2>1, <2>2, FillWaiting DEF FreshInv
<1> QED
  BY <1>2, <1>3, <1>4, BaseStep

(* However many sessions there are, no picture of an earlier one is queued *)
(* or drawn in a later one, or taken by its capture thread.                *)
THEOREM FramesFresh == Spec => []FreshFrames
<1>1. ASSUME Init PROVE FreshInv
  <2>1. Waiting = {}
    <3>1. Range(<<>>) = {}
      BY DEF Range
    <3> QED
      BY <1>1, <3>1, LocalsDiffer DEF Init, Waiting, Filled
  <2> QED
    BY <1>1, <2>1, LocalsDiffer DEF Init, FreshInv
<1>2. ASSUME IInv, FreshInv PROVE FreshFrames
  <2>1. Range(previewFrames) \subseteq Frames
    BY <1>2 DEF IInv, CoreInv, FramesFine, FrameTypes, Range
  <2>2. Range(previewFrames) \cup ({captureQueu, hold[PvFrame]} \ {NULL}) \subseteq Waiting
    BY <2>1, ObjectsAssumption DEF Waiting
  <2> QED
    BY <1>2, <2>2 DEF FreshInv, FreshFrames
<1> QED
  BY <1>1, <1>2, FreshStep, Inductive, PTL DEF Spec

-----------------------------------------------------------------------------
(* One session.  Only its own capture thread runs, and the pictures are    *)
(* in order along the pipeline: that of a frame nearer to onFrame is       *)
(* older, and onFrame has seen none of them.                               *)
Older(A, B) == \A f \in A, g \in B : content[f] < content[g]
OrderInv ==
  /\ delivered <= captured
  /\ \A f \in FramesOnTheWay : delivered < content[f] /\ content[f] <= captured
  /\ Older(Taken(1), Waiting)
  /\ Older({captureQueu} \ {NULL}, Waiting \ {captureQueu})
  /\ Older({hold[PvFrame]} \ {NULL}, Range(previewFrames) \cup Filled)
  /\ Older(Range(previewFrames), Filled)
  /\ \A i, j \in DOMAIN previewFrames :
       i < j => content[previewFrames[i]] < content[previewFrames[j]]

LEMMA OnTheWay ==
  /\ FramesOnTheWay = Taken(1) \cup Waiting
  /\ FramesOnTheWay' = Taken(1)' \cup Waiting'
  BY DEF FramesOnTheWay, Taken, Waiting, Filled

LEMMA OnlyFirst ==
  ASSUME IInv, session <= 1, NEW t \in CaptureThreads, cpPc[t] # "none" \/ hold[CpFrame(t)] # NULL
  PROVE  t = 1
<1>1. cpPc[t] # "none"
  BY DEF IInv, CoreInv, HoldInv, CpTaken
<1>2. t <= session /\ session \in Nat /\ t \in Nat /\ t >= 1
  BY <1>1, SizesAssumption DEF IInv, StageInv, CoreInv, WorkerTypes, CaptureThreads
<1> QED
  BY <1>2

(* A step that hands no frame on to the next place: the places keep their  *)
(* frames or lose them.                                                    *)
Fewer ==
  /\ Taken(1)' \subseteq Taken(1)
  /\ captureQueu' \in {captureQueu, NULL}
  /\ hold'[PvFrame] \in {hold[PvFrame], NULL}
  /\ previewFrames' = previewFrames \/ previewFrames' = <<>>
  /\ Filled' \subseteq Filled

(* The steps that do.                                                      *)
Enters ==
  /\ Taken(1)' \subseteq Taken(1) /\ UNCHANGED captureQueu /\ hold'[PvFrame] = hold[PvFrame]
  /\ previewFrames' = Append(previewFrames, hold[Copy])
  /\ Filled = {hold[Copy]} /\ Filled' = {}
ToPreview ==
  /\ Taken(1)' \subseteq Taken(1) /\ UNCHANGED captureQueu /\ hold[PvFrame] = NULL
  /\ previewFrames # <<>> /\ hold'[PvFrame] = Head(previewFrames)
  /\ previewFrames' = Tail(previewFrames) /\ Filled' \subseteq Filled
ToCapture ==
  /\ Taken(1)' \subseteq Taken(1) /\ hold[PvFrame] # NULL /\ captureQueu' = hold[PvFrame]
  /\ hold'[PvFrame] = NULL /\ UNCHANGED previewFrames /\ Filled' \subseteq Filled
ToCallback ==
  /\ Taken(1) = {} /\ Taken(1)' \subseteq {captureQueu} /\ captureQueu # NULL
  /\ captureQueu' = NULL /\ hold'[PvFrame] = hold[PvFrame]
  /\ UNCHANGED previewFrames /\ Filled' \subseteq Filled
Converted ==
  /\ \E g \in Frames : /\ Taken(1) = {hold[CpFrame(1)]} /\ Taken(1)' = {g}
                       /\ content'[g] = content[hold[CpFrame(1)]]
  /\ UNCHANGED captureQueu /\ hold'[PvFrame] = hold[PvFrame]
  /\ UNCHANGED previewFrames /\ Filled' \subseteq Filled

LEMMA CalmParts ==
  ASSUME IInv, IInv', session <= 1, session' <= 1, FrameMove, Calm, ~DuplicateFrame
  PROVE  \/ ~Converts /\ (Fewer \/ Enters \/ ToPreview \/ ToCapture \/ ToCallback)
         \/ Converted
<1> USE LocalsDiffer DEF IInv, CoreInv, FramesFine, FrameTypes
<1>1. 1 \in CaptureThreads
  BY SizesAssumption DEF CaptureThreads
<1>2. hold'[CpFrame(1)] \in {hold[CpFrame(1)], NULL} => Taken(1)' \subseteq Taken(1)
  BY <1>1 DEF Calm, Taken
<1>3. hold'[Copy] = hold[Copy] => Filled' \subseteq Filled
  BY DEF Calm, Filled
<1>4. ASSUME Stays PROVE Fewer
  BY <1>2, <1>3, <1>4 DEF Stays, Fewer, queues
<1>5. ASSUME Gets PROVE Fewer
  <2>1. PICK l \in Locals, f \in Frames : /\ l # PvFrame /\ l # CpFrame(1)
                                          /\ l = Copy => cbPc' # "add"
                                          /\ hold' = [hold EXCEPT ![l] = f]
    BY <1>1, <1>5 DEF Gets, GetFrame
  <2>2. Filled' \subseteq Filled
    BY <1>3, <2>1 DEF Filled
  <2> QED
    BY <1>1, <1>2, <1>5, <2>1, <2>2 DEF Gets, Fewer, queues
<1>6. ASSUME GivesBack PROVE Fewer
  <2>1. PICK l \in Locals : hold' = [hold EXCEPT ![l] = NULL]
    BY <1>6 DEF GivesBack
  <2>2. Filled' \subseteq Filled
    BY <1>3, <2>1 DEF Filled, HoldInv
  <2> QED
    BY <1>1, <1>2, <1>6, <2>1, <2>2 DEF GivesBack, Fewer, queues
<1>7. ASSUME ClearsPreview \/ ClearsCapture \/ DeleteUVCPreview PROVE Fewer
  BY <1>2, <1>3, <1>7 DEF ClearsPreview, clearPreviewFrame, ClearsCapture, clearCaptureFrame,
                          DeleteUVCPreview, Fewer
<1>8. ASSUME Queues PROVE Enters
  <2>1. Filled = {hold[Copy]} /\ Filled' = {}
    BY <1>8 DEF Queues, Filled
  <2> QED
    BY <1>1, <1>2, <1>8, <2>1 DEF Queues, Enters
<1>9. ASSUME Dequeues PROVE ToPreview
  BY <1>1, <1>2, <1>3, <1>9 DEF Dequeues, ToPreview
<1>10. ASSUME QueuesCapture PROVE ToCapture
  BY <1>1, <1>2, <1>3, <1>10 DEF QueuesCapture, ToCapture
<1>11. ASSUME DequeuesCapture PROVE ToCallback
  <2>1. PICK t \in CaptureThreads :
          hold[CpFrame(t)] = NULL /\ hold' = [hold EXCEPT ![CpFrame(t)] = captureQueu]
    BY <1>11 DEF DequeuesCapture
  <2>2. hold'[CpFrame(t)] # NULL
    BY <1>11, <2>1 DEF DequeuesCapture
  <2>3. t = 1
    <3>1. cpPc'[t] # "none"
      BY <2>2 DEF HoldInv, CpTaken
    <3>2. t <= session' /\ session' \in Nat /\ t \in Nat /\ t >= 1
      BY <3>1, SizesAssumption DEF StageInv, WorkerTypes, CaptureThreads
    <3> QED
      BY <3>2
  <2>4. Taken(1) = {} /\ Taken(1)' \subseteq {captureQueu}
    BY <2>1, <2>3 DEF Taken
  <2> QED
    BY <1>1, <1>3, <1>11, <2>1, <2>3, <2>4 DEF DequeuesCapture, ToCallback
<1>12. ASSUME Drops PROVE Fewer
  BY <1>1, <1>2, <1>3, <1>12 DEF Drops, Fewer, queues
<1>13. ASSUME Converts PROVE Converted
  <2>1. PICK t \in CaptureThreads, g \in Frames :
          hold[CpFrame(t)] # NULL /\ CpCallbackConverted(t, g)
    BY <1>13 DEF Converts
  <2>2. t = 1
    BY <2>1, OnlyFirst
  <2>3. cpPc[1] # "inCall" /\ cpPc'[1] # "inCall" /\ hold' = [hold EXCEPT ![CpFrame(1)] = g]
    BY <1>1, <2>1, <2>2 DEF CpCallbackConverted, CpGoto, CpAt, WorkerTypes
  <2>4. Taken(1) = {hold[CpFrame(1)]} /\ Taken(1)' = {g}
    BY <1>1, <2>1, <2>2, <2>3, ObjectsAssumption DEF Taken
  <2>5. content'[g] = content[hold[CpFrame(1)]]
    <3>1. g # hold[CpFrame(1)]
      BY <1>1, <2>1, <2>2, CarriedOwned DEF CpCallbackConverted, Carried
    <3> QED
      BY <1>1, <2>1, <2>2, <3>1 DEF CpCallbackConverted
  <2> QED
    BY <1>1, <1>3, <2>1, <2>3, <2>4, <2>5 DEF CpCallbackConverted, CpOnly, Converted
<1> QED
  BY <1>4, <1>5, <1>6, <1>7, <1>8, <1>9, <1>10, <1>11, <1>12, <1>13 DEF FrameMove

-----------------------------------------------------------------------------
(* Such a step keeps the order, because no picture passes another.         *)
Places ==
  /\ Range(previewFrames) \cup Filled \subseteq Waiting
  /\ \A i \in DOMAIN previewFrames : previewFrames[i] \in Range(previewFrames)
  /\ \A f \in Range(previewFrames) : \E i \in DOMAIN previewFrames : previewFrames[i] = f
  /\ captureQueu # NULL => captureQueu \in Waiting
  /\ hold[PvFrame] # NULL => hold[PvFrame] \in Waiting
  /\ Waiting \ {captureQueu}
       \subseteq ({hold[PvFrame]} \ {NULL}) \cup Range(previewFrames) \cup Filled
  /\ captureQueu \notin ({hold[PvFrame]} \ {NULL}) \cup Range(previewFrames) \cup Filled

LEMMA InPlaces == IInv => Places
<1> SUFFICES ASSUME IInv PROVE Places
  OBVIOUS
<1>1. Range(previewFrames) \subseteq Frames
  BY DEF IInv, CoreInv, FramesFine, FrameTypes, Range
<1>2. cbPc = "add" => hold[Copy] # NULL
  BY DEF IInv, CoreInv, HoldInv
<1>3. Range(previewFrames) \cup Filled \subseteq Waiting
  BY <1>1, <1>2, ObjectsAssumption DEF Waiting, Filled
<1>4. captureQueu \notin ({hold[PvFrame]} \ {NULL}) \cup Range(previewFrames) \cup Filled
  BY <1>1, <1>2, ObjectsAssumption, LocalsDiffer
  DEF Filled, IInv, CoreInv, FramesFine, FrameTypes, FrameOwnership, Owned, Held, Range
<1>5. /\ \A i \in DOMAIN previewFrames : previewFrames[i] \in Range(previewFrames)
      /\ \A f \in Range(previewFrames) : \E i \in DOMAIN previewFrames : previewFrames[i] = f
  BY DEF Range
<1> QED
  BY <1>3, <1>4, <1>5 DEF Places, Waiting

LEMMA InPlacesNext == IInv' => Places'
  BY InPlaces, PTL

KeptInOrder ==
  /\ UNCHANGED <<captured, delivered>>
  /\ \A f \in Waiting' : f \in Waiting /\ content'[f] = content[f]

LEMMA FewerOrder ==
  ASSUME IInv, IInv', OrderInv, KeptInOrder, \A f \in Taken(1)' : content'[f] = content[f],
         Fewer
  PROVE  OrderInv'
<1> USE InPlaces, InPlacesNext DEF KeptInOrder, Fewer
<1>1. Range(previewFrames)' \subseteq Range(previewFrames)
  BY DEF Range
<1>2. \A i, j \in DOMAIN previewFrames' :
        i < j => content'[previewFrames'[i]] < content'[previewFrames'[j]]
  <2>1. CASE previewFrames' = <<>>
    BY <2>1
  <2>2. CASE previewFrames' = previewFrames
    BY <2>2 DEF OrderInv, Places
  <2> QED
    BY <2>1, <2>2
<1>3. Older(Taken(1), Waiting)'
  BY DEF OrderInv, Older
<1> QED
  BY OnTheWay, <1>1, <1>2 DEF OrderInv, Older, Places

LEMMA EntersOrder ==
  ASSUME IInv, IInv', OrderInv, KeptInOrder, \A f \in Taken(1)' : content'[f] = content[f],
         Enters
  PROVE  OrderInv'
<1> USE InPlaces, InPlacesNext DEF KeptInOrder, Enters
<1>1. /\ DOMAIN previewFrames = 1 .. Len(previewFrames) /\ Len(previewFrames) \in Nat
      /\ DOMAIN previewFrames' = 1 .. Len(previewFrames) + 1
      /\ previewFrames'[Len(previewFrames) + 1] = hold[Copy]
      /\ \A i \in DOMAIN previewFrames : previewFrames'[i] = previewFrames[i]
  BY DEF IInv, CoreInv, FramesFine, FrameTypes
<1>2. Range(previewFrames)' \subseteq Range(previewFrames) \cup Filled
  BY <1>1 DEF Range
<1>3. \A i, j \in DOMAIN previewFrames' :
        i < j => content'[previewFrames'[i]] < content'[previewFrames'[j]]
  <2> SUFFICES ASSUME NEW i \in DOMAIN previewFrames', NEW j \in DOMAIN previewFrames', i < j
               PROVE  content'[previewFrames'[i]] < content'[previewFrames'[j]]
    OBVIOUS
  <2>1. i \in DOMAIN previewFrames /\ (j \in DOMAIN previewFrames \/ j = Len(previewFrames) + 1)
    BY <1>1
  <2>2. /\ content'[previewFrames'[i]] = content[previewFrames'[i]]
        /\ content'[previewFrames'[j]] = content[previewFrames'[j]]
    BY DEF Places
  <2> QED
    BY <1>1, <2>1, <2>2 DEF OrderInv, Older, Places
<1>4. Older(Taken(1), Waiting)' /\ Older({captureQueu} \ {NULL}, Waiting \ {captureQueu})'
  BY DEF OrderInv, Older, Places
<1>5. Older({hold[PvFrame]} \ {NULL}, Range(previewFrames) \cup Filled)'
  BY <1>2 DEF OrderInv, Older, Places
<1> QED
  BY OnTheWay, <1>3, <1>4, <1>5 DEF OrderInv, Older, Places

LEMMA ToPreviewOrder ==
  ASSUME IInv, IInv', OrderInv, KeptInOrder, \A f \in Taken(1)' : content'[f] = content[f],
         ToPreview
  PROVE  OrderInv'
<1> USE InPlaces, InPlacesNext DEF KeptInOrder, ToPreview
<1>1. /\ DOMAIN previewFrames = 1 .. Len(previewFrames) /\ Len(previewFrames) \in Nat \ {0}
      /\ DOMAIN previewFrames' = 1 .. Len(previewFrames) - 1
      /\ previewFrames[1] = Head(previewFrames)
      /\ \A i \in DOMAIN previewFrames' : previewFrames'[i] = previewFrames[i + 1]
  BY DEF IInv, CoreInv, FramesFine, FrameTypes
<1>2. /\ 1 \in DOMAIN previewFrames
      /\ \A i \in DOMAIN previewFrames' : i + 1 \in DOMAIN previewFrames /\ 1 < i + 1
      /\ \A i, j \in DOMAIN previewFrames' : i < j => i + 1 < j + 1
  BY <1>1
<1>3. /\ Head(previewFrames) \in Range(previewFrames)
      /\ \A f \in Range(previewFrames)' :
           f \in Range(previewFrames) /\ content[Head(previewFrames)] < content[f]
  BY <1>1, <1>2 DEF Places, OrderInv
<1>4. \A i, j \in DOMAIN previewFrames' :
        i < j => content'[previewFrames'[i]] < content'[previewFrames'[j]]
  <2> SUFFICES ASSUME NEW i \in DOMAIN previewFrames', NEW j \in DOMAIN previewFrames', i < j
               PROVE  content'[previewFrames'[i]] < content'[previewFrames'[j]]
    OBVIOUS
  <2>1. /\ content'[previewFrames'[i]] = content[previewFrames'[i]]
        /\ content'[previewFrames'[j]] = content[previewFrames'[j]]
    BY DEF Places
  <2> QED
    BY <1>1, <1>2, <2>1 DEF OrderInv
<1>5. hold'[PvFrame] \in Waiting'
  <2>1. Head(previewFrames) # NULL
    BY <1>3, ObjectsAssumption DEF IInv, CoreInv, FramesFine, FrameTypes, Range
  <2> QED
    BY <2>1 DEF Places
<1> QED
  BY OnTheWay, <1>3, <1>4, <1>5 DEF OrderInv, Older, Places

LEMMA ToCaptureOrder ==
  ASSUME IInv, IInv', OrderInv, KeptInOrder, \A f \in Taken(1)' : content'[f] = content[f],
         ToCapture
  PROVE  OrderInv'
<1> USE InPlaces, InPlacesNext DEF KeptInOrder, ToCapture
<1>1. Range(previewFrames)' = Range(previewFrames) /\ captureQueu' \in Waiting'
  BY DEF Places, Range
<1> QED
  BY OnTheWay, <1>1 DEF OrderInv, Older, Places

LEMMA ToCallbackOrder ==
  ASSUME IInv, IInv', OrderInv, KeptInOrder, \A f \in Taken(1)' : content'[f] = content[f],
         ToCallback
  PROVE  OrderInv'
<1> USE InPlaces, InPlacesNext DEF KeptInOrder, ToCallback
<1>1. Range(previewFrames)' = Range(previewFrames)
  BY DEF Range
<1>2. captureQueu \notin Waiting'
  BY <1>1 DEF Places
<1> QED
  BY OnTheWay, <1>1, <1>2 DEF OrderInv, Older, Places

LEMMA ConvertedOrder ==
  ASSUME IInv, IInv', OrderInv, KeptInOrder, Converted
  PROVE  OrderInv'
<1> USE InPlaces, InPlacesNext DEF KeptInOrder, Converted
<1>1. Range(previewFrames)' = Range(previewFrames)
  BY DEF Range
<1>2. PICK g : /\ Taken(1) = {hold[CpFrame(1)]} /\ Taken(1)' = {g}
               /\ content'[g] = content[hold[CpFrame(1)]]
  OBVIOUS
<1> QED
  BY OnTheWay, <1>1, <1>2 DEF OrderInv, Older, Places

LEMMA CalmKept ==
  ASSUME IInv, [Next]_vars, Calm, ~DuplicateFrame
  PROVE  KeptInOrder /\ (~Converts => \A f \in Taken(1)' : content'[f] = content[f])
<1>1. KeptInOrder
  BY WaitingKept DEF KeptInOrder, Calm
<1>2. ASSUME ~Converts, NEW f \in Taken(1)' PROVE content'[f] = content[f]
  <2>1. f \in Carried' /\ IInv' /\ FrameMove
    BY <1>2, StepInv, StepMoves, SizesAssumption DEF Taken, Carried, CaptureThreads
  <2> QED
    BY <1>2, <2>1, ContentKept
<1> QED
  BY <1>1, <1>2

(* A new picture is the youngest.                                          *)
LEMMA NewPicture ==
  ASSUME IInv, DuplicateFrame
  PROVE  /\ hold[Copy] \in Frames /\ hold[Copy] \notin Waiting \cup Taken(1)
         /\ Filled = {} /\ Filled' = {hold[Copy]} /\ Waiting' = Waiting \cup {hold[Copy]}
         /\ Taken(1)' = Taken(1) /\ UNCHANGED <<previewFrames, captureQueu, hold, delivered>>
         /\ captured' = captured + 1 /\ content'[hold[Copy]] = captured + 1
         /\ \A f \in Waiting \cup Taken(1) : content'[f] = content[f]
<1> USE LocalsDiffer DEF IInv, CoreInv, FramesFine, FrameTypes
<1>1. hold[Copy] \in Frames
  BY DEF DuplicateFrame, HoldInv, FrameOrNull
<1>2. UNCHANGED <<previewFrames, captureQueu, hold, delivered, cpPc>>
  BY DEF DuplicateFrame, queues, cpVars
<1>3. Filled = {} /\ Filled' = {hold[Copy]}
  BY <1>2 DEF DuplicateFrame, Filled
<1>4. 1 \in CaptureThreads
  BY SizesAssumption DEF CaptureThreads
<1>5. hold[Copy] \notin Waiting \cup Taken(1)
  BY <1>1, <1>3, <1>4, ObjectsAssumption DEF FrameOwnership, Held, Waiting, Taken, Range
<1>6. Waiting' = Waiting \cup {hold[Copy]} /\ Taken(1)' = Taken(1)
  BY <1>1, <1>2, <1>3, ObjectsAssumption DEF Waiting, Taken
<1>7. Waiting \cup Taken(1) \subseteq Frames
  BY <1>3, <1>4 DEF Waiting, Taken, FrameOrNull, Range
<1> QED
  BY <1>1, <1>2, <1>3, <1>5, <1>6, <1>7 DEF DuplicateFrame

LEMMA NewPictureOrder == ASSUME IInv, OrderInv, DuplicateFrame PROVE OrderInv'
<1>1. Places /\ Range(previewFrames)' = Range(previewFrames)
  BY InPlaces, NewPicture DEF Range
<1>2. /\ captured \in Nat /\ delivered \in Nat /\ content \in [Frames -> Nat]
      /\ FramesOnTheWay \subseteq Frames
  BY OnTheWay, NewPicture, LocalsDiffer, SizesAssumption
  DEF IInv, CoreInv, WorkerTypes, FramesFine, FrameTypes, Waiting, Taken, FrameOrNull, Range,
      CaptureThreads
<1>3. \A n \in Nat : n <= captured => n < captured + 1 /\ n <= captured + 1
  BY <1>2
<1>4. /\ delivered < captured + 1 /\ delivered <= captured + 1 /\ captured + 1 <= captured + 1
      /\ \A f \in FramesOnTheWay : content[f] < captured + 1 /\ content[f] <= captured + 1
  BY <1>2, <1>3 DEF OrderInv
<1>5. \A f \in FramesOnTheWay' :
        \/ f \in FramesOnTheWay /\ content'[f] = content[f]
        \/ f = hold[Copy] /\ content'[f] = captured + 1
  BY OnTheWay, NewPicture
<1>6. Older(Taken(1), Waiting)'
  BY OnTheWay, <1>4, NewPicture DEF OrderInv, Older
<1>7. Older({captureQueu} \ {NULL}, Waiting \ {captureQueu})'
  BY OnTheWay, <1>1, <1>4, NewPicture DEF OrderInv, Older, Places
<1>8. Older({hold[PvFrame]} \ {NULL}, Range(previewFrames) \cup Filled)'
  BY OnTheWay, <1>1, <1>4, NewPicture DEF OrderInv, Older, Places
<1>9. Older(Range(previewFrames), Filled)'
  BY OnTheWay, <1>1, <1>4, NewPicture DEF OrderInv, Older, Places
<1>10. \A i, j \in DOMAIN previewFrames' :
         i < j => content'[previewFrames'[i]] < content'[previewFrames'[j]]
  BY <1>1, NewPicture DEF OrderInv, Places
<1>11. /\ (delivered <= captured)'
       /\ \A f \in FramesOnTheWay' : delivered' < content'[f] /\ content'[f] <= captured'
  BY <1>4, <1>5, NewPicture DEF OrderInv
<1> QED
  BY <1>6, <1>7, <1>8, <1>9, <1>10, <1>11 DEF OrderInv

(* onFrame gets the oldest.                                                *)
LEMMA Invoked ==
  ASSUME IInv, session <= 1, NEW t \in CaptureThreads, CpInvoke(t)
  PROVE  /\ Taken(1) = {hold[CpFrame(1)]} /\ Taken(1)' = {}
         /\ delivered' = content[hold[CpFrame(1)]]
         /\ UNCHANGED <<captured, content, previewFrames, captureQueu, hold, Filled, Waiting>>
<1> USE LocalsDiffer DEF IInv, CoreInv
<1>1. t = 1
  BY OnlyFirst DEF CpInvoke, CpGoto, CpAt
<1>2. hold[CpFrame(1)] # NULL /\ cpPc[1] # "inCall" /\ cpPc'[1] = "inCall"
  BY <1>1 DEF CpInvoke, CpGoto, CpAt, HoldInv, CpTaken, WorkerTypes
<1>3. UNCHANGED <<captured, content, previewFrames, captureQueu, hold, cbPc>>
  BY DEF CpInvoke, CpOnly, CpKeepsFrames, memory, cbVars
<1> QED
  BY <1>1, <1>2, <1>3 DEF CpInvoke, Taken, Waiting, Filled, Range

LEMMA InvokeOrder ==
  ASSUME IInv, OrderInv, session <= 1, NEW t \in CaptureThreads, CpInvoke(t)
  PROVE  OrderInv'
<1>1. Range(previewFrames)' = Range(previewFrames)
  BY Invoked DEF Range
<1> QED
  BY OnTheWay, <1>1, Invoked DEF OrderInv, Older

LEMMA OrderStep ==
  ASSUME IInv, OrderInv, session <= 1, session' <= 1, [Next]_vars
  PROVE  OrderInv'
<1>1. IInv' /\ FrameMove
  BY StepInv, StepMoves
<1>2. CASE Calm /\ ~DuplicateFrame
  BY <1>1, <1>2, CalmKept, CalmParts, FewerOrder, EntersOrder, ToPreviewOrder, ToCaptureOrder,
     ToCallbackOrder, ConvertedOrder
<1> QED
  BY <1>2, StepCalm, NewPictureOrder, InvokeOrder

-----------------------------------------------------------------------------
(* In one session every step is one of FrameChannel's.                     *)
LEMMA InitChannel == ASSUME Init PROVE OrderInv /\ Channel!Init
<1>1. Range(<<>>) = {}
  BY DEF Range
<1>2. FramesOnTheWay = {} /\ Waiting = {} /\ Taken(1) = {}
  BY <1>1, LocalsDiffer, SizesAssumption
  DEF Init, FramesOnTheWay, Waiting, Taken, Filled, CaptureThreads
<1>3. InFlight = {}
  BY <1>2 DEF InFlight
<1>4. captured = 0 /\ delivered = 0 /\ captureQueu = NULL /\ hold[PvFrame] = NULL
      /\ previewFrames = <<>>
  BY LocalsDiffer DEF Init
<1>5. OrderInv
  BY <1>1, <1>2, <1>4 DEF OrderInv, Older
<1> QED
  BY <1>3, <1>4, <1>5 DEF Channel!Init

(* No picture that was not on its way is on its way after such a step.     *)
LEMMA CalmLoses ==
  ASSUME IInv, session <= 1, session' <= 1, [Next]_vars, Calm, ~DuplicateFrame
  PROVE  Channel!Lose
<1>1. /\ KeptInOrder
      /\ ~Converts => \A f \in Taken(1)' : content'[f] = content[f]
  BY CalmKept
<1>2. captureQueu # NULL => captureQueu \in Waiting
  BY InPlaces DEF Places
<1>3. \A f \in FramesOnTheWay' : \E g \in FramesOnTheWay : content'[f] = content[g]
  <2>1. \A f \in Waiting' : f \in FramesOnTheWay /\ content'[f] = content[f]
    BY OnTheWay, <1>1 DEF KeptInOrder
  <2>2. \A f \in Taken(1)' : \E g \in FramesOnTheWay : content'[f] = content[g]
    <3>1. \/ ~Converts /\ (Fewer \/ Enters \/ ToPreview \/ ToCapture \/ ToCallback)
          \/ Converted
      BY StepInv, StepMoves, CalmParts
    <3>2. CASE Converted
      BY OnTheWay, <3>2 DEF Converted
    <3>3. CASE ~Converts /\ (Fewer \/ Enters \/ ToPreview \/ ToCapture)
      BY OnTheWay, <1>1, <3>3 DEF Fewer, Enters, ToPreview, ToCapture
    <3>4. CASE ~Converts /\ ToCallback
      BY OnTheWay, <1>1, <1>2, <3>4 DEF ToCallback
    <3> QED
      BY <3>1, <3>2, <3>3, <3>4
  <2> QED
    BY OnTheWay, <2>1, <2>2
<1>4. InFlight' \in SUBSET InFlight
  BY <1>3 DEF InFlight
<1> QED
  BY <1>4 DEF Channel!Lose, Calm

LEMMA NewPictureAccepted == ASSUME IInv, DuplicateFrame PROVE Channel!Accept
<1>1. /\ FramesOnTheWay' = FramesOnTheWay \cup {hold[Copy]}
      /\ \A f \in FramesOnTheWay : content'[f] = content[f]
      /\ content'[hold[Copy]] = captured' /\ captured' = captured + 1 /\ UNCHANGED delivered
  BY OnTheWay, NewPicture
<1>2. InFlight' = InFlight \cup {captured'}
  BY <1>1 DEF InFlight
<1> QED
  BY <1>1, <1>2 DEF Channel!Accept

LEMMA InvokeDelivers ==
  ASSUME IInv, OrderInv, session <= 1, NEW t \in CaptureThreads, CpInvoke(t)
  PROVE  Channel!Deliver
<1> DEFINE n == content[hold[CpFrame(1)]]
<1>1. FramesOnTheWay = FramesOnTheWay' \cup {hold[CpFrame(1)]} /\ FramesOnTheWay' = Waiting
  BY OnTheWay, Invoked
<1>2. UNCHANGED content
  BY Invoked
<1>3. InFlight = InFlight' \cup {n} /\ InFlight' = {content[f] : f \in Waiting}
  BY <1>1, <1>2 DEF InFlight
<1>4. n \in Nat /\ \A f \in Waiting : n < content[f] /\ content[f] \in Nat
  <2>1. \A f \in Waiting : n < content[f]
    BY Invoked DEF OrderInv, Older
  <2>2. Waiting \subseteq Frames /\ hold[CpFrame(1)] \in Frames
    <3>1. 1 \in CaptureThreads /\ hold[CpFrame(1)] # NULL
      BY Invoked, SizesAssumption DEF Taken, CaptureThreads
    <3> QED
      BY <3>1, LocalsDiffer
      DEF IInv, CoreInv, FramesFine, FrameTypes, FrameOrNull, HoldInv, Waiting, Filled, Range
  <2>3. content \in [Frames -> Nat]
    BY DEF IInv, CoreInv, FramesFine, FrameTypes
  <2> QED
    BY <2>1, <2>2, <2>3
<1>5. n \in InFlight /\ n \in Nat /\ \A m \in InFlight' : n < m /\ m \in Nat
  BY <1>3, <1>4
<1>6. n \notin InFlight' /\ \A m \in InFlight : n <= m
  BY <1>3, <1>5
<1> QED
  BY <1>3, <1>5, <1>6, Invoked DEF Channel!Deliver

LEMMA ChannelStep ==
  ASSUME IInv, OrderInv, session <= 1, session' <= 1, [Next]_vars
  PROVE  Channel!Next
<1>1. CASE DuplicateFrame
  BY <1>1, NewPictureAccepted DEF Channel!Next
<1>2. CASE Calm /\ ~DuplicateFrame
  BY <1>2, CalmLoses DEF Channel!Next
<1>3. ASSUME NEW t \in CaptureThreads, CpInvoke(t) PROVE Channel!Next
  BY <1>3, InvokeDelivers DEF Channel!Next
<1> QED
  BY <1>1, <1>2, <1>3, StepCalm

(* Whatever the application calls during a session, onFrame sees pictures  *)
(* of the session in the order they were taken, each at most once.  The    *)
(* hypothesis says that the preview is started once.                       *)
THEOREM PreviewImplementsChannel == Spec /\ [](session <= 1) => ImplementsChannel
<1>1. Spec => []IInv
  BY Inductive
<1>2. OrderInv /\ IInv /\ session <= 1 /\ (session <= 1)' /\ [Next]_vars => OrderInv'
  BY OrderStep
<1>3. OrderInv /\ IInv /\ session <= 1 /\ (session <= 1)' /\ [Next]_vars
        => [Channel!Next]_Channel!channelVars
  BY ChannelStep
<1>4. Init => OrderInv /\ Channel!Init
  BY InitChannel
<1> QED
  BY <1>1, <1>2, <1>3, <1>4, PTL DEF Spec, ImplementsChannel, Channel!Spec

(* In plain words: in one session onFrame never gets a picture twice, nor  *)
(* an older one after a younger one, nor one the camera has not delivered. *)
THEOREM PicturesInOrder ==
  Spec /\ [](session <= 1)
    => [][delivered' # delivered => delivered < delivered' /\ delivered' <= captured]_vars
<1> DEFINE Advances == delivered' # delivered => delivered < delivered' /\ delivered' <= captured
<1>1. ASSUME IInv, OrderInv, session <= 1, [Next]_vars PROVE Advances
  <2>1. ASSUME NEW t \in CaptureThreads, CpInvoke(t) PROVE Advances
    <3>1. hold[CpFrame(1)] \in FramesOnTheWay /\ delivered' = content[hold[CpFrame(1)]]
      BY <1>1, <2>1, Invoked, OnTheWay
    <3> QED
      BY <1>1, <3>1 DEF OrderInv
  <2>2. CASE Calm \/ DuplicateFrame
    BY <1>1, <2>2, NewPicture DEF Calm
  <2> QED
    BY <1>1, <2>1, <2>2, StepCalm
<1>2. OrderInv /\ IInv /\ session <= 1 /\ (session <= 1)' /\ [Next]_vars => OrderInv'
  BY OrderStep
<1>3. OrderInv /\ IInv /\ session <= 1 /\ [Next]_vars => [Advances]_vars
  BY <1>1
<1>4. Init => OrderInv
  BY InitChannel
<1> QED
  BY <1>2, <1>3, <1>4, Inductive, PTL DEF Spec

=============================================================================
