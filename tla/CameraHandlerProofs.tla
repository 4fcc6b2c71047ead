------------------------- MODULE CameraHandlerProofs -------------------------
(***************************************************************************)
(* Proofs about CameraHandler, for any number of clients and recordings:   *)
(* who was notified in stopPreview finds the preview ended, the camera     *)
(* thread leaves nothing behind, an encoder that was told to stop gets one *)
(* picture at most, and the camera is not taken from the camera thread but *)
(* by an encoder's.                                                        *)
(***************************************************************************)
EXTENDS CameraHandler, TLAPS, WellFoundedInduction, FiniteSetTheorems

(* The types of what the proofs speak of.                                  *)
Typed ==
  /\ cpc \in [Clients -> CPcs] /\ seen \in [Clients -> Nat]
  /\ looper \in {"running", "quit", "ended", "died"} /\ tpc \in TPcs
  /\ opened \in BOOLEAN /\ mIsPreviewing \in BOOLEAN
  /\ preview \in Nat /\ previews \in Nat /\ closing \in [Threads -> Nat]
  /\ mMuxer \in 0 .. MaxRecordings /\ muxer \in [Threads -> 0 .. MaxRecordings]
  /\ recordings \in 0 .. MaxRecordings /\ feed \in 0 .. MaxRecordings
  /\ held \in 0 .. MaxRecordings /\ late \in [Recordings -> Nat]
  /\ encoder \in [Recordings -> EncoderStates]

(* A preview belongs to the camera in mUVCCamera, or to one that the       *)
(* thread which took it is about to destroy.                               *)
CameraInv ==
  /\ ~opened => preview = 0
  /\ tpc \in {"destroy", "open", "quit"} => ~opened
  /\ tpc = "previewStopped" => preview = 0
  /\ closing[CameraThread] # 0 => tpc = "destroy"
  /\ \A r \in Recordings : closing[r] # 0 => encoder[r] = "destroy"
  /\ looper \in {"quit", "ended"} => tpc = "idle" /\ ~opened

(* The camera thread has a recording of its own, or has just taken the     *)
(* recording out of mMuxer.                                                *)
Recorders == {"construct", "startMuxer", "recordingStarted", "stopMuxer"}
Emptied == {"stopMuxer", "resetCallback", "forget", "destroy", "open", "quit"}

RecordInv ==
  /\ tpc = "construct" => recordings + 1 \in Recordings
  /\ tpc \in {"startMuxer", "recordingStarted"} => recordings \in Recordings
  /\ tpc \in {"construct", "startMuxer", "recordingStarted"} => mMuxer = 0
  /\ tpc = "startMuxer" => encoder[recordings] = "prepared"
  /\ tpc = "recordingStarted" =>
       encoder[recordings] = "running" /\ \A t \in Threads : muxer[t] # recordings
  /\ mMuxer # 0 => encoder[mMuxer] = "running" /\ \A t \in Threads : muxer[t] # mMuxer
  /\ tpc \in Emptied \/ looper \in {"quit", "ended"} => mMuxer = 0 /\ feed = 0

(* Only one thread is about to stop a recording, and that still runs.      *)
MuxerInv ==
  /\ tpc = "stopMuxer" <=> muxer[CameraThread] # 0
  /\ \A r \in Recordings : encoder[r] = "stopMuxer" <=> muxer[r] # 0
  /\ \A t \in Threads : muxer[t] # 0 =>
       /\ encoder[muxer[t]] = "running" /\ feed # muxer[t]
       /\ \A u \in Threads : muxer[u] = muxer[t] => u = t

(* Somebody knows of every encoder that runs.                              *)
RunningInv ==
  \A r \in Recordings :
    /\ encoder[r] = "prepared" => tpc = "startMuxer" /\ recordings = r
    /\ encoder[r] = "running" =>
         \/ mMuxer = r
         \/ tpc = "recordingStarted" /\ recordings = r
         \/ \E t \in Threads : muxer[t] = r
    /\ r > recordings => encoder[r] = "none"

FeedInv ==
  /\ feed # 0 => encoder[feed] \in Unstopped
  /\ held # 0 => encoder[held] # "none"
  /\ \A r \in Recordings : encoder[r] = "none" \/ encoder[r] \in Unstopped => late[r] = 0

(* The camera thread finds the camera wherever it uses it, until an        *)
(* encoder's thread releases.                                              *)
KeptInv ==
  \/ \E r \in Recordings : encoder[r] \in Releasing
  \/ /\ looper # "died"
     /\ mMuxer # 0 => opened
     /\ tpc \in Recorders \cup {"resetCallback", "startCamera", "previewStarted", "stopCamera"}
          => opened

(* No client has seen a preview that is still to come.                     *)
SeenInv ==
  /\ preview <= previews
  /\ \A c \in Clients : seen[c] <= previews /\ (seen[c] # 0 => cpc[c] \in {"waiting", "stopped"})

IInv ==
  /\ Typed /\ CameraInv /\ RecordInv /\ MuxerInv /\ RunningInv /\ FeedInv /\ KeptInv
  /\ SeenInv /\ StopWaits /\ OneLatePicture

(* A recording's number is not the camera thread's.                        *)
LEMMA ThreadsSet ==
  /\ CameraThread \in Threads /\ \A r \in Recordings : r \in Threads /\ r # CameraThread /\ r \in Nat
  /\ \A t \in Threads : t = CameraThread \/ t \in Recordings
  BY HandlerAssumption DEF Threads, CameraThread, Recordings

LEMMA InitIInv == Init => IInv
<1>. SUFFICES ASSUME Init PROVE IInv
  OBVIOUS
<1>1. /\ cpc = [c \in Clients |-> "idle"] /\ seen = [c \in Clients |-> 0]
      /\ encoder = [r \in Recordings |-> "none"] /\ late = [r \in Recordings |-> 0]
      /\ muxer = [t \in Threads |-> 0] /\ closing = [t \in Threads |-> 0]
      /\ opened = FALSE /\ mIsPreviewing = FALSE /\ looper = "running" /\ tpc = "idle"
      /\ mMuxer = 0 /\ preview = 0 /\ previews = 0 /\ recordings = 0 /\ feed = 0 /\ held = 0
  BY DEF Init
<1>2. 0 \in Nat /\ 0 \in 0 .. MaxRecordings
  BY HandlerAssumption
<1>3. cpc \in [Clients -> CPcs] /\ seen \in [Clients -> Nat] /\ late \in [Recordings -> Nat]
  BY <1>1 DEF CPcs
<1>4. encoder \in [Recordings -> EncoderStates]
  BY <1>1 DEF EncoderStates
<1>5. muxer \in [Threads -> 0 .. MaxRecordings] /\ closing \in [Threads -> Nat]
  BY <1>1, <1>2
<1>6. Typed
  BY <1>1, <1>2, <1>3, <1>4, <1>5 DEF Typed, TPcs
<1>7. \A t \in Threads : muxer[t] = 0 /\ closing[t] = 0
  BY <1>1
<1>8. CameraInv /\ RecordInv /\ MuxerInv /\ RunningInv
  BY <1>1, <1>7, ThreadsSet DEF CameraInv, RecordInv, MuxerInv, RunningInv, Emptied
<1>9. FeedInv /\ KeptInv /\ SeenInv /\ StopWaits
  BY <1>1, <1>7, ThreadsSet DEF FeedInv, KeptInv, SeenInv, StopWaits, Recorders
<1>10. OneLatePicture
  BY <1>1 DEF OneLatePicture, InHand, Recordings
<1>. QED BY <1>6, <1>8, <1>9, <1>10 DEF IInv

-----------------------------------------------------------------------------
(* The clients.  What the camera thread and the encoders know does not     *)
(* change when a client takes a step.                                      *)
LEMMA ClientKeeps ==
  ASSUME IInv, UNCHANGED <<thread, camera, record, pictures>>, cpc' \in [Clients -> CPcs],
         seen' \in [Clients -> Nat],
         \A c \in Clients : \/ cpc'[c] = cpc[c] /\ seen'[c] = seen[c]
                            \/ seen'[c] = 0
                            \/ cpc'[c] = "waiting" /\ seen'[c] <= previews
  PROVE  IInv'
<1>1. Typed'
  BY DEF IInv, Typed, thread, camera, record, pictures
<1>2. CameraInv' /\ RecordInv' /\ MuxerInv' /\ RunningInv' /\ FeedInv' /\ KeptInv'
  BY DEF IInv, CameraInv, RecordInv, MuxerInv, RunningInv, FeedInv, KeptInv,
         thread, camera, record, pictures
<1>3. SeenInv' /\ StopWaits'
  BY DEF IInv, Typed, SeenInv, StopWaits, camera
<1>4. OneLatePicture'
  BY DEF IInv, OneLatePicture, InHand, record, pictures
<1>. QED BY <1>1, <1>2, <1>3, <1>4 DEF IInv

LEMMA ClientInv ==
  ASSUME IInv, NEW c \in Clients, StartCall(c) \/ ContinueCall(c) \/ WokenAlone(c)
  PROVE  IInv'
<1>0. seen[c] # 0 => cpc[c] \in {"waiting", "stopped"}
  BY DEF IInv, SeenInv
<1>1. CASE Request(c) \/ StopRecording(c)
  BY <1>1, ClientKeeps DEF IInv, Typed, Request, StopRecording
<1>2. CASE StopPreview(c) \/ CheckOpened(c)
  <2>1. UNCHANGED <<thread, camera, record, pictures, seen>> /\ cpc[c] \in {"idle", "entered"}
    BY <1>2 DEF StopPreview, CheckOpened, Call
  <2>2. \/ cpc' = [cpc EXCEPT ![c] = "check"] \/ cpc' = [cpc EXCEPT ![c] = "closed"]
    BY <1>2 DEF StopPreview, CheckOpened, EnterStopPreview
  <2>3. cpc' \in [Clients -> CPcs] /\ \A d \in Clients \ {c} : cpc'[d] = cpc[d]
    BY <2>2 DEF IInv, Typed, CPcs
  <2>4. seen'[c] = 0
    BY <1>0, <2>1
  <2>. QED BY <2>1, <2>3, <2>4, ClientKeeps DEF IInv, Typed
<1>3. CASE Close(c) \/ Release(c)
  <2>1. UNCHANGED <<thread, camera, record, pictures, seen>> /\ cpc[c] = "idle"
        /\ cpc' = [cpc EXCEPT ![c] = "entered"]
    BY <1>3 DEF Close, Release, Call
  <2>2. cpc' \in [Clients -> CPcs] /\ \A d \in Clients \ {c} : cpc'[d] = cpc[d]
    BY <2>1 DEF IInv, Typed, CPcs
  <2>3. seen'[c] = 0
    BY <1>0, <2>1
  <2>. QED BY <2>1, <2>2, <2>3, ClientKeeps DEF IInv, Typed
<1>4. CASE CheckPreviewing(c)
  <2>1. UNCHANGED <<thread, camera, record, pictures, seen>> /\ cpc[c] = "check"
    BY <1>4 DEF CheckPreviewing
  <2>2. \/ cpc' = [cpc EXCEPT ![c] = "lock"] \/ cpc' = [cpc EXCEPT ![c] = "stopped"]
    BY <1>4 DEF CheckPreviewing
  <2>3. cpc' \in [Clients -> CPcs] /\ \A d \in Clients \ {c} : cpc'[d] = cpc[d]
    BY <2>2 DEF IInv, Typed, CPcs
  <2>4. seen'[c] = 0
    BY <1>0, <2>1
  <2>. QED BY <2>1, <2>3, <2>4, ClientKeeps DEF IInv, Typed
<1>5. CASE LockAndWait(c)
  <2>1. UNCHANGED <<thread, camera, record, pictures>> /\ preview <= previews /\ preview \in Nat
    BY <1>5 DEF IInv, Typed, SeenInv, LockAndWait
  <2>2. cpc' = [cpc EXCEPT ![c] = "waiting"] /\ seen' = [seen EXCEPT ![c] = preview]
    BY <1>5 DEF LockAndWait
  <2>. QED BY <2>1, <2>2, ClientKeeps DEF IInv, Typed, CPcs
<1>6. CASE Returned(c) \/ WokenAlone(c)
  <2>1. UNCHANGED <<thread, camera, record, pictures>> /\ seen' = [seen EXCEPT ![c] = 0]
    BY <1>6 DEF Returned, WokenAlone
  <2>2. \E to \in CPcs : cpc' = [cpc EXCEPT ![c] = to]
    BY <1>6 DEF Returned, WokenAlone, CPcs
  <2>3. cpc' \in [Clients -> CPcs] /\ seen' \in [Clients -> Nat] /\ seen'[c] = 0
        /\ \A d \in Clients \ {c} : cpc'[d] = cpc[d] /\ seen'[d] = seen[d]
    BY <2>1, <2>2 DEF IInv, Typed
  <2>. QED BY <2>1, <2>3, ClientKeeps
<1>7. CASE Closed(c)
  <2>1. UNCHANGED <<thread, camera, record, pictures, seen>> /\ cpc[c] = "closed"
        /\ cpc' = [cpc EXCEPT ![c] = "idle"]
    BY <1>7 DEF Closed
  <2>2. cpc' \in [Clients -> CPcs] /\ \A d \in Clients \ {c} : cpc'[d] = cpc[d]
    BY <2>1 DEF IInv, Typed, CPcs
  <2>3. seen'[c] = 0
    BY <1>0, <2>1
  <2>. QED BY <2>1, <2>2, <2>3, ClientKeeps DEF IInv, Typed
<1>. QED BY <1>1, <1>2, <1>3, <1>4, <1>5, <1>6, <1>7 DEF StartCall, ContinueCall

-----------------------------------------------------------------------------
(* The camera thread.  Steps that leave recordings alone.                  *)
LEMMA RecordKept ==
  ASSUME IInv, UNCHANGED <<record, pictures>>,
         tpc \notin Recorders, tpc' \notin Recorders \ {"construct"},
         tpc' = "construct" => mMuxer = 0 /\ recordings + 1 \in Recordings,
         tpc' \in Emptied \/ looper' \in {"quit", "ended"} => mMuxer = 0 /\ feed = 0
  PROVE  RecordInv' /\ MuxerInv' /\ RunningInv' /\ FeedInv' /\ OneLatePicture'
<1>1. UNCHANGED <<mMuxer, muxer, recordings, feed, encoder, held, late>>
  BY DEF record, pictures
<1>2. tpc \notin {"construct", "startMuxer", "recordingStarted", "stopMuxer"}
      /\ tpc' \notin {"startMuxer", "recordingStarted", "stopMuxer"}
  BY DEF Recorders
<1>3. RecordInv'
  BY <1>1, <1>2 DEF IInv, RecordInv
<1>4. MuxerInv' /\ RunningInv' /\ FeedInv'
  BY <1>1, <1>2 DEF IInv, MuxerInv, RunningInv, FeedInv
<1>5. OneLatePicture'
  BY <1>1 DEF IInv, OneLatePicture, InHand
<1>. QED BY <1>3, <1>4, <1>5

(* Steps that leave the camera and the clients alone.                      *)
LEMMA PreviewKept ==
  ASSUME IInv, UNCHANGED <<cpc, seen, camera>>
  PROVE  SeenInv' /\ StopWaits'
  BY DEF IInv, SeenInv, StopWaits, camera

LEMMA DispatchInv == ASSUME IInv, Dispatch PROVE IInv'
<1>1. Typed'
  BY DEF IInv, Typed, TPcs, Dispatch, FirstStep, At, clients, camera, record, pictures
<1>2. CameraInv'
  BY ThreadsSet DEF IInv, Typed, CameraInv, Dispatch, FirstStep, At, camera, record
<1>3. KeptInv'
  BY DEF IInv, Typed, RecordInv, KeptInv, Recorders, Emptied, Dispatch, FirstStep, At,
         camera, record
<1>4. SeenInv' /\ StopWaits'
  BY ThreadsSet DEF IInv, Typed, CameraInv, SeenInv, StopWaits, Dispatch, FirstStep, At,
                    clients, camera
<1>5. /\ tpc \notin Recorders /\ tpc' \notin Recorders \ {"construct"}
      /\ tpc' = "construct" => mMuxer = 0 /\ recordings + 1 \in Recordings
      /\ tpc' \in Emptied \/ looper' \in {"quit", "ended"} => mMuxer = 0 /\ feed = 0
      /\ UNCHANGED <<record, pictures>>
  BY HandlerAssumption DEF IInv, Typed, RecordInv, Recorders, Emptied, Recordings,
                           Dispatch, FirstStep, At
<1>. QED BY <1>1, <1>2, <1>3, <1>4, <1>5, RecordKept DEF IInv

LEMMA ResetCallbackInv == ASSUME IInv, ResetCallback PROVE IInv'
<1>1. Typed'
  BY DEF IInv, Typed, TPcs, ResetCallback, UseCamera, Advance, AfterStopRecording, At,
         clients, camera, record, pictures
<1>2. CameraInv'
  BY ThreadsSet DEF IInv, Typed, CameraInv, ResetCallback, UseCamera, Advance,
                    AfterStopRecording, At, camera, record
<1>3. KeptInv'
  BY DEF IInv, Typed, RecordInv, KeptInv, Recorders, Emptied, ResetCallback, UseCamera,
         Advance, AfterStopRecording, At, camera, record
<1>4. SeenInv' /\ StopWaits'
  BY ThreadsSet DEF IInv, Typed, CameraInv, SeenInv, StopWaits, ResetCallback,
                    UseCamera, Advance, AfterStopRecording, At, clients, camera
<1>5. /\ tpc \notin Recorders /\ tpc' \notin Recorders \ {"construct"}
      /\ tpc' = "construct" => mMuxer = 0 /\ recordings + 1 \in Recordings
      /\ tpc' \in Emptied \/ looper' \in {"quit", "ended"} => mMuxer = 0 /\ feed = 0
      /\ UNCHANGED <<record, pictures>>
  BY HandlerAssumption DEF IInv, Typed, RecordInv, Recorders, Emptied, Recordings,
                           ResetCallback, UseCamera, Advance, AfterStopRecording, At
<1>. QED BY <1>1, <1>2, <1>3, <1>4, <1>5, RecordKept DEF IInv

LEMMA HandleCloseInv == ASSUME IInv, HandleClose PROVE IInv'
<1>1. Typed'
  BY DEF IInv, Typed, TPcs, HandleClose, Goto, Advance, TakeCamera, AfterClose, At,
         clients, camera, record, pictures
<1>2. CameraInv'
  BY ThreadsSet DEF IInv, Typed, CameraInv, HandleClose, Goto, Advance, TakeCamera,
                    AfterClose, At, camera, record
<1>3. KeptInv'
  BY DEF IInv, Typed, RecordInv, KeptInv, Recorders, Emptied, HandleClose, Goto,
         Advance, TakeCamera, AfterClose, At, camera, record
<1>4. SeenInv' /\ StopWaits'
  BY ThreadsSet DEF IInv, Typed, CameraInv, SeenInv, StopWaits, HandleClose, Goto,
                    Advance, TakeCamera, AfterClose, At, clients, camera
<1>5. /\ tpc \notin Recorders /\ tpc' \notin Recorders \ {"construct"}
      /\ tpc' = "construct" => mMuxer = 0 /\ recordings + 1 \in Recordings
      /\ tpc' \in Emptied \/ looper' \in {"quit", "ended"} => mMuxer = 0 /\ feed = 0
      /\ UNCHANGED <<record, pictures>>
  BY HandlerAssumption DEF IInv, Typed, RecordInv, Recorders, Emptied, Recordings,
                           HandleClose, Goto, Advance, TakeCamera, AfterClose, At
<1>. QED BY <1>1, <1>2, <1>3, <1>4, <1>5, RecordKept DEF IInv

LEMMA DestroyInv == ASSUME IInv, Destroy PROVE IInv'
<1>1. Typed'
  BY DEF IInv, Typed, TPcs, Destroy, Goto, Advance, AfterClose, At, clients, camera,
         record, pictures
<1>2. CameraInv'
  BY ThreadsSet DEF IInv, Typed, CameraInv, Destroy, Goto, Advance, AfterClose, At,
                    camera, record
<1>3. KeptInv'
  BY DEF IInv, Typed, RecordInv, KeptInv, Recorders, Emptied, Destroy, Goto, Advance,
         AfterClose, At, camera, record
<1>4. SeenInv' /\ StopWaits'
  BY ThreadsSet DEF IInv, Typed, CameraInv, SeenInv, StopWaits, Destroy, Goto, Advance,
                    AfterClose, At, clients, camera
<1>5. /\ tpc \notin Recorders /\ tpc' \notin Recorders \ {"construct"}
      /\ tpc' = "construct" => mMuxer = 0 /\ recordings + 1 \in Recordings
      /\ tpc' \in Emptied \/ looper' \in {"quit", "ended"} => mMuxer = 0 /\ feed = 0
      /\ UNCHANGED <<record, pictures>>
  BY HandlerAssumption DEF IInv, Typed, RecordInv, Recorders, Emptied, Recordings,
                           Destroy, Goto, Advance, AfterClose, At
<1>. QED BY <1>1, <1>2, <1>3, <1>4, <1>5, RecordKept DEF IInv

LEMMA HandleOpenInv == ASSUME IInv, HandleOpen PROVE IInv'
<1>1. Typed'
  BY DEF IInv, Typed, TPcs, HandleOpen, Goto, Advance, At, clients, camera, record,
         pictures
<1>2. CameraInv'
  BY ThreadsSet DEF IInv, Typed, CameraInv, HandleOpen, Goto, Advance, At, camera,
                    record
<1>3. KeptInv'
  BY DEF IInv, Typed, RecordInv, KeptInv, Recorders, Emptied, HandleOpen, Goto, Advance,
         At, camera, record
<1>4. SeenInv' /\ StopWaits'
  BY ThreadsSet DEF IInv, Typed, CameraInv, SeenInv, StopWaits, HandleOpen, Goto,
                    Advance, At, clients, camera
<1>5. /\ tpc \notin Recorders /\ tpc' \notin Recorders \ {"construct"}
      /\ tpc' = "construct" => mMuxer = 0 /\ recordings + 1 \in Recordings
      /\ tpc' \in Emptied \/ looper' \in {"quit", "ended"} => mMuxer = 0 /\ feed = 0
      /\ UNCHANGED <<record, pictures>>
  BY HandlerAssumption DEF IInv, Typed, RecordInv, Recorders, Emptied, Recordings,
                           HandleOpen, Goto, Advance, At
<1>. QED BY <1>1, <1>2, <1>3, <1>4, <1>5, RecordKept DEF IInv

LEMMA HandleStartPreviewInv == ASSUME IInv, HandleStartPreview PROVE IInv'
<1>1. Typed'
  BY DEF IInv, Typed, TPcs, HandleStartPreview, Goto, Advance, CanPreview, At, clients,
         camera, record, pictures
<1>2. CameraInv'
  BY ThreadsSet DEF IInv, Typed, CameraInv, HandleStartPreview, Goto, Advance,
                    CanPreview, At, camera, record
<1>3. KeptInv'
  BY DEF IInv, Typed, RecordInv, KeptInv, Recorders, Emptied, HandleStartPreview, Goto,
         Advance, CanPreview, At, camera, record
<1>4. SeenInv' /\ StopWaits'
  BY ThreadsSet DEF IInv, Typed, CameraInv, SeenInv, StopWaits, HandleStartPreview,
                    Goto, Advance, CanPreview, At, clients, camera
<1>5. /\ tpc \notin Recorders /\ tpc' \notin Recorders \ {"construct"}
      /\ tpc' = "construct" => mMuxer = 0 /\ recordings + 1 \in Recordings
      /\ tpc' \in Emptied \/ looper' \in {"quit", "ended"} => mMuxer = 0 /\ feed = 0
      /\ UNCHANGED <<record, pictures>>
  BY HandlerAssumption DEF IInv, Typed, RecordInv, Recorders, Emptied, Recordings,
                           HandleStartPreview, Goto, Advance, CanPreview, At
<1>. QED BY <1>1, <1>2, <1>3, <1>4, <1>5, RecordKept DEF IInv

LEMMA StartCameraInv == ASSUME IInv, StartCamera PROVE IInv'
<1>1. Typed'
  BY DEF IInv, Typed, TPcs, StartCamera, UseCamera, Advance, At, clients, camera,
         record, pictures
<1>2. CameraInv'
  BY ThreadsSet DEF IInv, Typed, CameraInv, StartCamera, UseCamera, Advance, At, camera,
                    record
<1>3. KeptInv'
  BY DEF IInv, Typed, RecordInv, KeptInv, Recorders, Emptied, StartCamera, UseCamera,
         Advance, At, camera, record
<1>4. SeenInv' /\ StopWaits'
  BY ThreadsSet DEF IInv, Typed, CameraInv, SeenInv, StopWaits, StartCamera, UseCamera,
                    Advance, At, clients, camera
<1>5. /\ tpc \notin Recorders /\ tpc' \notin Recorders \ {"construct"}
      /\ tpc' = "construct" => mMuxer = 0 /\ recordings + 1 \in Recordings
      /\ tpc' \in Emptied \/ looper' \in {"quit", "ended"} => mMuxer = 0 /\ feed = 0
      /\ UNCHANGED <<record, pictures>>
  BY HandlerAssumption DEF IInv, Typed, RecordInv, Recorders, Emptied, Recordings,
                           StartCamera, UseCamera, Advance, At
<1>. QED BY <1>1, <1>2, <1>3, <1>4, <1>5, RecordKept DEF IInv

LEMMA PreviewStartedInv == ASSUME IInv, PreviewStarted PROVE IInv'
<1>1. Typed'
  BY DEF IInv, Typed, TPcs, PreviewStarted, UseCamera, Advance, At, clients, camera,
         record, pictures
<1>2. CameraInv'
  BY ThreadsSet DEF IInv, Typed, CameraInv, PreviewStarted, UseCamera, Advance, At,
                    camera, record
<1>3. KeptInv'
  BY DEF IInv, Typed, RecordInv, KeptInv, Recorders, Emptied, PreviewStarted, UseCamera,
         Advance, At, camera, record
<1>4. SeenInv' /\ StopWaits'
  BY ThreadsSet DEF IInv, Typed, CameraInv, SeenInv, StopWaits, PreviewStarted,
                    UseCamera, Advance, At, clients, camera
<1>5. /\ tpc \notin Recorders /\ tpc' \notin Recorders \ {"construct"}
      /\ tpc' = "construct" => mMuxer = 0 /\ recordings + 1 \in Recordings
      /\ tpc' \in Emptied \/ looper' \in {"quit", "ended"} => mMuxer = 0 /\ feed = 0
      /\ UNCHANGED <<record, pictures>>
  BY HandlerAssumption DEF IInv, Typed, RecordInv, Recorders, Emptied, Recordings,
                           PreviewStarted, UseCamera, Advance, At
<1>. QED BY <1>1, <1>2, <1>3, <1>4, <1>5, RecordKept DEF IInv

LEMMA HandleStopPreviewInv == ASSUME IInv, HandleStopPreview PROVE IInv'
<1>1. Typed'
  BY DEF IInv, Typed, TPcs, HandleStopPreview, Goto, Advance, HasCamera, At, clients,
         camera, record, pictures
<1>2. CameraInv'
  BY ThreadsSet DEF IInv, Typed, CameraInv, HandleStopPreview, Goto, Advance, HasCamera,
                    At, camera, record
<1>3. KeptInv'
  BY DEF IInv, Typed, RecordInv, KeptInv, Recorders, Emptied, HandleStopPreview, Goto,
         Advance, HasCamera, At, camera, record
<1>4. SeenInv' /\ StopWaits'
  BY ThreadsSet DEF IInv, Typed, CameraInv, SeenInv, StopWaits, HandleStopPreview, Goto,
                    Advance, HasCamera, At, clients, camera
<1>5. /\ tpc \notin Recorders /\ tpc' \notin Recorders \ {"construct"}
      /\ tpc' = "construct" => mMuxer = 0 /\ recordings + 1 \in Recordings
      /\ tpc' \in Emptied \/ looper' \in {"quit", "ended"} => mMuxer = 0 /\ feed = 0
      /\ UNCHANGED <<record, pictures>>
  BY HandlerAssumption DEF IInv, Typed, RecordInv, Recorders, Emptied, Recordings,
                           HandleStopPreview, Goto, Advance, HasCamera, At
<1>. QED BY <1>1, <1>2, <1>3, <1>4, <1>5, RecordKept DEF IInv

LEMMA StopCameraInv == ASSUME IInv, StopCamera PROVE IInv'
<1>1. Typed'
  BY DEF IInv, Typed, TPcs, StopCamera, UseCamera, Advance, At, clients, camera, record,
         pictures
<1>2. CameraInv'
  BY ThreadsSet DEF IInv, Typed, CameraInv, StopCamera, UseCamera, Advance, At, camera,
                    record
<1>3. KeptInv'
  BY DEF IInv, Typed, RecordInv, KeptInv, Recorders, Emptied, StopCamera, UseCamera,
         Advance, At, camera, record
<1>4. SeenInv' /\ StopWaits'
  BY ThreadsSet DEF IInv, Typed, CameraInv, SeenInv, StopWaits, StopCamera, UseCamera,
                    Advance, At, clients, camera
<1>5. /\ tpc \notin Recorders /\ tpc' \notin Recorders \ {"construct"}
      /\ tpc' = "construct" => mMuxer = 0 /\ recordings + 1 \in Recordings
      /\ tpc' \in Emptied \/ looper' \in {"quit", "ended"} => mMuxer = 0 /\ feed = 0
      /\ UNCHANGED <<record, pictures>>
  BY HandlerAssumption DEF IInv, Typed, RecordInv, Recorders, Emptied, Recordings,
                           StopCamera, UseCamera, Advance, At
<1>. QED BY <1>1, <1>2, <1>3, <1>4, <1>5, RecordKept DEF IInv

LEMMA HandleStartRecordingInv == ASSUME IInv, HandleStartRecording PROVE IInv'
<1>1. Typed'
  BY DEF IInv, Typed, TPcs, HandleStartRecording, Goto, Advance, CannotRecord, At,
         clients, camera, record, pictures
<1>2. CameraInv'
  BY ThreadsSet DEF IInv, Typed, CameraInv, HandleStartRecording, Goto, Advance,
                    CannotRecord, At, camera, record
<1>3. KeptInv'
  BY DEF IInv, Typed, RecordInv, KeptInv, Recorders, Emptied, HandleStartRecording,
         Goto, Advance, CannotRecord, At, camera, record
<1>4. SeenInv' /\ StopWaits'
  BY ThreadsSet DEF IInv, Typed, CameraInv, SeenInv, StopWaits, HandleStartRecording,
                    Goto, Advance, CannotRecord, At, clients, camera
<1>5. /\ tpc \notin Recorders /\ tpc' \notin Recorders \ {"construct"}
      /\ tpc' = "construct" => mMuxer = 0 /\ recordings + 1 \in Recordings
      /\ tpc' \in Emptied \/ looper' \in {"quit", "ended"} => mMuxer = 0 /\ feed = 0
      /\ UNCHANGED <<record, pictures>>
  BY HandlerAssumption DEF IInv, Typed, RecordInv, Recorders, Emptied, Recordings,
                           HandleStartRecording, Goto, Advance, CannotRecord, At
<1>. QED BY <1>1, <1>2, <1>3, <1>4, <1>5, RecordKept DEF IInv

LEMMA HandleReleaseInv == ASSUME IInv, HandleRelease PROVE IInv'
<1>1. Typed'
  BY DEF IInv, Typed, TPcs, HandleRelease, Advance, At, clients, camera, record,
         pictures
<1>2. CameraInv'
  BY ThreadsSet DEF IInv, Typed, CameraInv, HandleRelease, Advance, At, camera, record
<1>3. KeptInv'
  BY DEF IInv, Typed, RecordInv, KeptInv, Recorders, Emptied, HandleRelease, Advance,
         At, camera, record
<1>4. SeenInv' /\ StopWaits'
  BY ThreadsSet DEF IInv, Typed, CameraInv, SeenInv, StopWaits, HandleRelease, Advance,
                    At, clients, camera
<1>5. /\ tpc \notin Recorders /\ tpc' \notin Recorders \ {"construct"}
      /\ tpc' = "construct" => mMuxer = 0 /\ recordings + 1 \in Recordings
      /\ tpc' \in Emptied \/ looper' \in {"quit", "ended"} => mMuxer = 0 /\ feed = 0
      /\ UNCHANGED <<record, pictures>>
  BY HandlerAssumption DEF IInv, Typed, RecordInv, Recorders, Emptied, Recordings,
                           HandleRelease, Advance, At
<1>. QED BY <1>1, <1>2, <1>3, <1>4, <1>5, RecordKept DEF IInv

(* Whoever is notified finds that the preview has ended.                   *)
LEMMA Notified ==
  ASSUME IInv, NotifyAll, preview = 0, closing[CameraThread] = 0,
         UNCHANGED <<seen, preview, previews, closing>>
  PROVE  cpc' \in [Clients -> CPcs] /\ SeenInv' /\ StopWaits'
<1>1. cpc' \in [Clients -> CPcs]
      /\ \A c \in Clients : cpc'[c] = cpc[c] \/ cpc'[c] = "stopped"
  BY DEF IInv, Typed, NotifyAll, Woken, CPcs
<1>. QED BY <1>1 DEF IInv, Typed, SeenInv, StopWaits

LEMMA PreviewStoppedInv == ASSUME IInv, PreviewStopped PROVE IInv'
<1>1. /\ tpc = "previewStopped" /\ tpc' = "idle" /\ looper = "running" /\ NotifyAll
      /\ mIsPreviewing' = FALSE
      /\ UNCHANGED <<seen, looper, opened, preview, previews, closing, record, pictures>>
  BY DEF PreviewStopped, At, Goto, Advance
<1>2. preview = 0 /\ closing[CameraThread] = 0
  BY <1>1 DEF IInv, CameraInv
<1>3. cpc' \in [Clients -> CPcs] /\ SeenInv' /\ StopWaits'
  BY <1>1, <1>2, Notified
<1>4. Typed'
  BY <1>1, <1>3 DEF IInv, Typed, TPcs, record, pictures
<1>5. CameraInv' /\ KeptInv'
  BY <1>1 DEF IInv, CameraInv, KeptInv, Recorders, record
<1>6. RecordInv' /\ MuxerInv' /\ RunningInv' /\ FeedInv' /\ OneLatePicture'
  BY <1>1, RecordKept DEF Recorders, Emptied
<1>. QED BY <1>3, <1>4, <1>5, <1>6 DEF IInv

LEMMA ExitInv == ASSUME IInv, Exit PROVE IInv'
<1>1. /\ looper = "quit" /\ looper' = "ended" /\ NotifyAll
      /\ UNCHANGED <<seen, tpc, camera, record, pictures>>
  BY DEF Exit
<1>2. tpc = "idle" /\ preview = 0 /\ closing[CameraThread] = 0 /\ mMuxer = 0 /\ feed = 0
  BY <1>1 DEF IInv, CameraInv, RecordInv
<1>3. cpc' \in [Clients -> CPcs] /\ SeenInv' /\ StopWaits'
  BY <1>1, <1>2, Notified DEF camera
<1>4. Typed'
  BY <1>1, <1>3 DEF IInv, Typed, camera, record, pictures
<1>5. CameraInv' /\ KeptInv'
  BY <1>1 DEF IInv, CameraInv, KeptInv, camera, record
<1>6. RecordInv' /\ MuxerInv' /\ RunningInv' /\ FeedInv' /\ OneLatePicture'
  BY <1>1, <1>2, RecordKept DEF Recorders, Emptied
<1>. QED BY <1>3, <1>4, <1>5, <1>6 DEF IInv

-----------------------------------------------------------------------------
(* The camera thread.  Steps that deal with recordings.                    *)

(* An encoder told to stop was not given a picture late before.            *)
LEMMA StoppedLate ==
  ASSUME IInv, NEW r \in Recordings, encoder[r] = "running",
         encoder' \in [Recordings -> EncoderStates], encoder'[r] = "stopping",
         \A q \in Recordings \ {r} : encoder'[q] = "none" <=> encoder[q] = "none",
         \A q \in Recordings \ {r} : encoder'[q] \in Unstopped <=> encoder[q] \in Unstopped,
         feed # r, UNCHANGED <<feed, held, late>>
  PROVE  FeedInv' /\ OneLatePicture'
<1>1. FeedInv'
  BY DEF IInv, Typed, FeedInv, Unstopped, Recordings
<1>2. late[r] = 0
  BY DEF IInv, FeedInv, Unstopped
<1>3. \A q \in Recordings : late'[q] + InHand(q)' <= 1
  <2>1. late'[r] + InHand(r)' <= 1
    BY <1>2 DEF InHand
  <2>2. \A q \in Recordings \ {r} : InHand(q)' = InHand(q)
    BY DEF InHand
  <2>. QED BY <2>1, <2>2 DEF IInv, OneLatePicture
<1>. QED BY <1>1, <1>3 DEF FeedInv, OneLatePicture

LEMMA HandleStopRecordingInv == ASSUME IInv, HandleStopRecording PROVE IInv'
<1>1. /\ tpc = "stopRecording" /\ looper = "running"
      /\ tpc' = (IF mMuxer # 0 THEN "stopMuxer" ELSE AfterStopRecording)
      /\ muxer' = [muxer EXCEPT ![CameraThread] = mMuxer] /\ mMuxer' = 0 /\ feed' = 0
      /\ UNCHANGED <<clients, looper, camera, recordings, encoder, pictures>>
  BY DEF HandleStopRecording, At, Goto, Advance, TakeMuxer, NotFed
<1>2. AfterStopRecording \in {"idle", "forget"}
  BY DEF AfterStopRecording
<1>3. muxer' \in [Threads -> 0 .. MaxRecordings] /\ muxer'[CameraThread] = mMuxer
      /\ \A t \in Threads \ {CameraThread} : muxer'[t] = muxer[t]
  BY <1>1, ThreadsSet DEF IInv, Typed
<1>4. muxer[CameraThread] = 0
  BY <1>1 DEF IInv, MuxerInv
<1>5. Typed'
  BY <1>1, <1>2, <1>3, HandlerAssumption DEF IInv, Typed, TPcs, clients, camera, pictures
<1>6. CameraInv' /\ SeenInv' /\ StopWaits'
  BY <1>1, <1>2, PreviewKept DEF IInv, CameraInv, clients, camera
<1>7. RecordInv' /\ KeptInv'
  BY <1>1, <1>2 DEF IInv, RecordInv, KeptInv, Recorders, Emptied, camera
<1>8. MuxerInv'
  BY <1>1, <1>2, <1>3, <1>4, ThreadsSet DEF IInv, RecordInv, MuxerInv
<1>9. RunningInv'
  BY <1>1, <1>3, <1>4, ThreadsSet DEF IInv, RunningInv, Recordings
<1>10. FeedInv' /\ OneLatePicture'
  BY <1>1 DEF IInv, FeedInv, OneLatePicture, InHand, pictures
<1>. QED BY <1>5, <1>6, <1>7, <1>8, <1>9, <1>10 DEF IInv

LEMMA StopMuxerInv == ASSUME IInv, StopMuxer PROVE IInv'
<1>. DEFINE m == muxer[CameraThread]
<1>1. /\ tpc = "stopMuxer" /\ tpc' = "resetCallback" /\ looper = "running"
      /\ encoder' = [encoder EXCEPT ![m] = "stopping"]
      /\ muxer' = [muxer EXCEPT ![CameraThread] = 0]
      /\ UNCHANGED <<clients, looper, camera, mMuxer, recordings, feed, pictures>>
  BY DEF StopMuxer, At, Goto, Advance
<1>2. m \in Recordings /\ encoder[m] = "running" /\ mMuxer = 0 /\ feed = 0
      /\ \A t \in Threads \ {CameraThread} : muxer[t] # m
  BY <1>1, ThreadsSet DEF IInv, Typed, MuxerInv, RecordInv, Emptied, Recordings
<1>3. muxer' \in [Threads -> 0 .. MaxRecordings] /\ muxer'[CameraThread] = 0
      /\ \A t \in Threads \ {CameraThread} : muxer'[t] = muxer[t]
  BY <1>1, ThreadsSet, HandlerAssumption DEF IInv, Typed
<1>4. encoder' \in [Recordings -> EncoderStates] /\ encoder'[m] = "stopping"
      /\ \A q \in Recordings \ {m} : encoder'[q] = encoder[q]
  BY <1>1, <1>2 DEF IInv, Typed, EncoderStates
<1>. HIDE DEF m
<1>5. Typed'
  BY <1>1, <1>3, <1>4 DEF IInv, Typed, TPcs, clients, camera, pictures
<1>6. CameraInv' /\ SeenInv' /\ StopWaits'
  BY <1>1, <1>2, <1>4, PreviewKept DEF IInv, CameraInv, clients, camera
<1>7. RecordInv' /\ KeptInv'
  BY <1>1, <1>2, <1>4 DEF IInv, RecordInv, KeptInv, Recorders, Emptied, Releasing, camera
<1>8. MuxerInv'
  BY <1>1, <1>2, <1>3, <1>4, ThreadsSet DEF IInv, Typed, MuxerInv, Recordings
<1>9. RunningInv'
  <2>1. ASSUME NEW q \in Recordings, encoder'[q] = "running"
        PROVE  \/ mMuxer' = q
               \/ tpc' = "recordingStarted" /\ recordings' = q
               \/ \E t \in Threads : muxer'[t] = q
    <3>1. encoder[q] = "running" /\ q # m
      BY <1>2, <1>4, <2>1
    <3>2. \A t \in Threads : muxer[t] = q => muxer'[t] = q
      BY <1>3, <3>1 DEF m
    <3>. QED BY <1>1, <3>1, <3>2 DEF IInv, RunningInv
  <2>2. ASSUME NEW q \in Recordings PROVE encoder'[q] = "prepared" => encoder[q] = "prepared"
    BY <1>2, <1>4
  <2>3. ASSUME NEW q \in Recordings PROVE encoder[q] = "none" => encoder'[q] = "none"
    BY <1>1, <1>2, <1>4
  <2>. QED BY <1>1, <2>1, <2>2, <2>3 DEF IInv, RunningInv
<1>10. FeedInv' /\ OneLatePicture'
  BY <1>1, <1>2, <1>4, StoppedLate DEF pictures, Recordings
<1>. QED BY <1>5, <1>6, <1>7, <1>8, <1>9, <1>10 DEF IInv

(* A new recording: its encoder is prepared, and then may be fed.          *)
LEMMA PrepareEncodersInv == ASSUME IInv, PrepareEncoders PROVE IInv'
<1>. DEFINE r == recordings + 1
<1>1. /\ tpc = "construct" /\ looper = "running" /\ r \in Recordings
      /\ mMuxer = 0 /\ recordings' = r /\ feed' \in {feed, r}
      /\ UNCHANGED <<clients, looper, camera, mMuxer, muxer, pictures>>
  BY DEF IInv, RecordInv, PrepareEncoders, At, Goto
<1>2. \/ tpc' = "startMuxer" /\ encoder' = [encoder EXCEPT ![r] = "prepared"]
      \/ tpc' = "idle" /\ encoder' = [encoder EXCEPT ![r] = "abandoned"]
  BY DEF PrepareEncoders, Goto, Advance
<1>3. encoder' \in [Recordings -> EncoderStates]
      /\ encoder'[r] = (IF tpc' = "startMuxer" THEN "prepared" ELSE "abandoned")
      /\ \A q \in Recordings \ {r} : encoder'[q] = encoder[q]
  BY <1>1, <1>2 DEF IInv, Typed, EncoderStates, Unstopped
<1>4. encoder[r] = "none" /\ late[r] = 0 /\ recordings \in Nat /\ r \in Nat
  BY <1>1 DEF IInv, Typed, RunningInv, FeedInv, Recordings
<1>5. Typed'
  BY <1>1, <1>2, <1>3 DEF IInv, Typed, TPcs, Recordings, clients, camera, pictures
<1>. HIDE DEF r
<1>6. CameraInv' /\ SeenInv' /\ StopWaits'
  BY <1>1, <1>2, <1>3, <1>4, PreviewKept DEF IInv, CameraInv, clients, camera
<1>7. RecordInv' /\ KeptInv'
  BY <1>1, <1>2, <1>3, <1>4 DEF IInv, RecordInv, KeptInv, Recorders, Emptied, Releasing, camera
<1>8. MuxerInv'
  BY <1>1, <1>2, <1>3, <1>4, ThreadsSet DEF IInv, Typed, MuxerInv, Recordings
<1>9. RunningInv'
  <2>1. ASSUME NEW q \in Recordings, encoder'[q] = "prepared"
        PROVE  tpc' = "startMuxer" /\ recordings' = q
    BY <1>1, <1>2, <1>3, <2>1 DEF IInv, RunningInv
  <2>2. ASSUME NEW q \in Recordings, encoder'[q] = "running"
        PROVE  \E t \in Threads : muxer'[t] = q
    BY <1>1, <1>3, <2>2 DEF IInv, RunningInv, Recordings
  <2>3. ASSUME NEW q \in Recordings, q > r
        PROVE  encoder'[q] = "none"
    <3>1. q > recordings /\ q # r
      BY <1>4, <2>3 DEF r, Recordings
    <3>. QED BY <1>3, <3>1 DEF IInv, RunningInv
  <2>. QED BY <1>1, <2>1, <2>2, <2>3 DEF RunningInv
<1>10. FeedInv'
  BY <1>1, <1>3, <1>4 DEF IInv, Typed, FeedInv, Unstopped, Recordings, pictures
<1>11. OneLatePicture'
  <2>1. \A q \in Recordings : InHand(q)' <= InHand(q) /\ InHand(q)' \in Nat /\ InHand(q) \in Nat
    BY <1>1, <1>3, <1>4 DEF InHand, Unstopped, pictures
  <2>2. \A q \in Recordings : late'[q] = late[q] /\ late[q] \in Nat /\ late[q] + InHand(q) <= 1
    BY <1>1 DEF IInv, Typed, OneLatePicture, pictures
  <2>3. \A q \in Recordings : late'[q] + InHand(q)' <= 1
    BY <2>1, <2>2
  <2>. QED BY <1>10, <2>3 DEF FeedInv, OneLatePicture
<1>. QED BY <1>5, <1>6, <1>7, <1>8, <1>9, <1>10, <1>11 DEF IInv

LEMMA StartMuxerInv == ASSUME IInv, StartMuxer PROVE IInv'
<1>1. /\ tpc = "startMuxer" /\ tpc' = "recordingStarted" /\ looper = "running"
      /\ encoder' = [encoder EXCEPT ![recordings] = "running"]
      /\ UNCHANGED <<clients, looper, camera, mMuxer, muxer, recordings, feed, pictures>>
      /\ mMuxer = 0 /\ recordings \in Recordings /\ encoder[recordings] = "prepared"
  BY DEF IInv, RecordInv, StartMuxer, At, Goto, Advance
<1>2. encoder' \in [Recordings -> EncoderStates] /\ encoder'[recordings] = "running"
      /\ \A q \in Recordings \ {recordings} : encoder'[q] = encoder[q]
  BY <1>1 DEF IInv, Typed, EncoderStates, Unstopped
<1>3. \A t \in Threads : muxer[t] # recordings
  BY <1>1 DEF IInv, MuxerInv, Recordings
<1>4. Typed'
  BY <1>1, <1>2 DEF IInv, Typed, TPcs, clients, camera, pictures
<1>5. CameraInv' /\ SeenInv' /\ StopWaits'
  BY <1>1, <1>2, PreviewKept DEF IInv, CameraInv, clients, camera
<1>6. RecordInv' /\ KeptInv'
  BY <1>1, <1>2, <1>3 DEF IInv, RecordInv, KeptInv, Recorders, Emptied, Releasing, camera
<1>7. MuxerInv'
  <2>1. muxer' = muxer /\ feed' = feed /\ tpc # "stopMuxer" /\ tpc' # "stopMuxer"
    BY <1>1
  <2>2. \A q \in Recordings : encoder'[q] = "stopMuxer" <=> encoder[q] = "stopMuxer"
    BY <1>1, <1>2
  <2>3. \A t \in Threads : muxer[t] # 0 => encoder'[muxer[t]] = encoder[muxer[t]]
    BY <1>2, <1>3 DEF IInv, Typed, Recordings
  <2>. QED BY <2>1, <2>2, <2>3 DEF IInv, MuxerInv
<1>8. RunningInv'
  BY <1>1, <1>2 DEF IInv, RunningInv, Recordings
<1>9. FeedInv' /\ OneLatePicture'
  BY <1>1, <1>2 DEF IInv, Typed, FeedInv, OneLatePicture, InHand, Unstopped, Recordings, pictures
<1>. QED BY <1>4, <1>5, <1>6, <1>7, <1>8, <1>9 DEF IInv

LEMMA RecordingStartedInv == ASSUME IInv, RecordingStarted PROVE IInv'
<1>1. /\ tpc = "recordingStarted" /\ tpc' = "idle" /\ looper = "running"
      /\ mMuxer' = recordings /\ feed' \in {feed, recordings}
      /\ UNCHANGED <<clients, looper, camera, muxer, recordings, encoder, pictures>>
  BY DEF RecordingStarted, At, Goto, Advance
<1>2. mMuxer = 0 /\ recordings \in Recordings /\ encoder[recordings] = "running"
      /\ \A t \in Threads : muxer[t] # recordings
  BY <1>1 DEF IInv, RecordInv
<1>3. Typed'
  BY <1>1, <1>2 DEF IInv, Typed, TPcs, Recordings, clients, camera, pictures
<1>4. CameraInv' /\ SeenInv' /\ StopWaits'
  BY <1>1, PreviewKept DEF IInv, CameraInv, clients, camera
<1>5. RecordInv' /\ KeptInv'
  BY <1>1, <1>2 DEF IInv, RecordInv, KeptInv, Recorders, Emptied, camera
<1>6. MuxerInv' /\ RunningInv'
  BY <1>1, <1>2 DEF IInv, MuxerInv, RunningInv, Recordings
<1>7. FeedInv' /\ OneLatePicture'
  BY <1>1, <1>2 DEF IInv, FeedInv, OneLatePicture, InHand, Unstopped, pictures
<1>. QED BY <1>3, <1>4, <1>5, <1>6, <1>7 DEF IInv

-----------------------------------------------------------------------------
(* The encoders' threads.  They move neither the camera thread nor a       *)
(* client; this is what is left to show, given the encoder's next place.   *)
LEMMA AnswerKeeps ==
  ASSUME IInv, NEW r \in Recordings, NEW to \in EncoderStates,
         UNCHANGED <<clients, thread, camera, mMuxer, muxer, recordings, pictures>>,
         feed' \in {feed, 0}, encoder' = [encoder EXCEPT ![r] = to],
         {encoder[r], to} \cap ({"none", "stopMuxer", "destroy"} \cup Unstopped) = {},
         encoder[r] \in Releasing => to \in Releasing
  PROVE  IInv'
<1>1. encoder' \in [Recordings -> EncoderStates] /\ encoder'[r] = to
      /\ \A q \in Recordings \ {r} : encoder'[q] = encoder[q]
  BY DEF IInv, Typed
<1>2. Typed'
  BY <1>1, HandlerAssumption DEF IInv, Typed, clients, thread, camera, pictures
<1>3. CameraInv' /\ SeenInv' /\ StopWaits'
  BY <1>1, PreviewKept DEF IInv, CameraInv, clients, thread, camera
<1>4. \A q \in Recordings : \A e \in {"none", "prepared", "running", "stopMuxer"} :
        encoder'[q] = e <=> encoder[q] = e
  BY <1>1 DEF Unstopped
<1>5. mMuxer # 0 => mMuxer \in Recordings
  BY DEF IInv, Typed, Recordings
<1>6. RecordInv'
  BY <1>4, <1>5 DEF IInv, RecordInv, thread
<1>7. KeptInv'
  BY <1>1 DEF IInv, KeptInv, thread, camera
<1>8. \A t \in Threads : muxer[t] # 0 => muxer[t] \in Recordings
  BY DEF IInv, Typed, Recordings
<1>9. MuxerInv'
  BY <1>4, <1>8 DEF IInv, MuxerInv, thread
<1>10. RunningInv'
  BY <1>4 DEF IInv, RunningInv, thread
<1>11. FeedInv'
  BY <1>1 DEF IInv, Typed, FeedInv, Recordings, pictures
<1>12. \A q \in Recordings : InHand(q)' = InHand(q) /\ late'[q] = late[q]
  BY <1>1 DEF InHand, pictures
<1>13. OneLatePicture'
  BY <1>11, <1>12 DEF IInv, FeedInv, OneLatePicture
<1>. QED BY <1>2, <1>3, <1>6, <1>7, <1>9, <1>10, <1>11, <1>13 DEF IInv

(* A thread that releases takes the recording ...                          *)
LEMMA ReleaseRecordingInv == ASSUME IInv, NEW r \in Recordings, ReleaseRecording(r) PROVE IInv'
<1>. DEFINE to == IF mMuxer # 0 THEN "stopMuxer" ELSE "forget"
<1>1. /\ encoder[r] = "releasing" /\ encoder' = [encoder EXCEPT ![r] = to]
      /\ muxer' = [muxer EXCEPT ![r] = mMuxer] /\ mMuxer' = 0 /\ feed' = 0
      /\ UNCHANGED <<clients, thread, camera, recordings, pictures>>
  BY DEF ReleaseRecording, EncoderOnly, TakeMuxer, NotFed, Stopped, clients
<1>2. muxer' \in [Threads -> 0 .. MaxRecordings] /\ muxer'[r] = mMuxer
      /\ \A t \in Threads \ {r} : muxer'[t] = muxer[t]
  BY <1>1, ThreadsSet DEF IInv, Typed
<1>3. encoder' \in [Recordings -> EncoderStates] /\ encoder'[r] = to
      /\ \A q \in Recordings \ {r} : encoder'[q] = encoder[q]
  BY <1>1 DEF IInv, Typed, EncoderStates, Releasing
<1>4. muxer[r] = 0 /\ r # CameraThread /\ r \in Threads
  BY <1>1, ThreadsSet DEF IInv, MuxerInv
<1>5. Typed'
  BY <1>1, <1>2, <1>3, HandlerAssumption DEF IInv, Typed, clients, thread, camera, pictures
<1>6. CameraInv' /\ SeenInv' /\ StopWaits'
  BY <1>1, <1>3, PreviewKept DEF IInv, CameraInv, clients, thread, camera
<1>7. RecordInv'
  BY <1>1, <1>2, <1>3 DEF IInv, RecordInv, Recordings, Recorders, Emptied, thread
<1>8. MuxerInv'
  <2>1. tpc' = "stopMuxer" <=> muxer'[CameraThread] # 0
    BY <1>1, <1>2, <1>4, ThreadsSet DEF IInv, MuxerInv, thread
  <2>2. \A q \in Recordings : encoder'[q] = "stopMuxer" <=> muxer'[q] # 0
    BY <1>2, <1>3, ThreadsSet DEF IInv, MuxerInv
  <2>3. \A t \in Threads : muxer'[t] # 0 =>
          /\ encoder'[muxer'[t]] = "running" /\ feed' # muxer'[t]
          /\ \A u \in Threads : muxer'[u] = muxer'[t] => u = t
    BY <1>1, <1>2, <1>3 DEF IInv, Typed, MuxerInv, RecordInv, Recordings
  <2>. QED BY <2>1, <2>2, <2>3 DEF MuxerInv
<1>9. RunningInv'
  BY <1>1, <1>2, <1>3, <1>4 DEF IInv, RunningInv, Recordings, thread
<1>10. KeptInv' /\ FeedInv'
  BY <1>1, <1>3 DEF IInv, KeptInv, FeedInv, Releasing, Unstopped, pictures
<1>11. OneLatePicture'
  BY <1>1, <1>3 DEF IInv, OneLatePicture, InHand, Unstopped, pictures
<1>. QED BY <1>5, <1>6, <1>7, <1>8, <1>9, <1>10, <1>11 DEF IInv

(* ... and stops it, ...                                                   *)
LEMMA ReleaseMuxerInv == ASSUME IInv, NEW r \in Recordings, ReleaseMuxer(r) PROVE IInv'
<1>. DEFINE m == muxer[r]
<1>1. /\ encoder[r] = "stopMuxer"
      /\ encoder' = [encoder EXCEPT ![m] = "stopping", ![r] = "resetCallback"]
      /\ muxer' = [muxer EXCEPT ![r] = 0]
      /\ UNCHANGED <<clients, thread, camera, mMuxer, recordings, feed, pictures>>
  BY DEF ReleaseMuxer, EncoderOnly, clients
<1>2. m \in Recordings /\ encoder[m] = "running" /\ m # r /\ feed # m
      /\ \A t \in Threads \ {r} : muxer[t] # m
  BY <1>1, ThreadsSet DEF IInv, Typed, MuxerInv, Recordings
<1>3. muxer' \in [Threads -> 0 .. MaxRecordings] /\ muxer'[r] = 0
      /\ \A t \in Threads \ {r} : muxer'[t] = muxer[t]
  BY <1>1, ThreadsSet, HandlerAssumption DEF IInv, Typed
<1>4. encoder' \in [Recordings -> EncoderStates] /\ encoder'[m] = "stopping"
      /\ encoder'[r] = "resetCallback"
      /\ \A q \in Recordings \ {m, r} : encoder'[q] = encoder[q]
  BY <1>1, <1>2 DEF IInv, Typed, EncoderStates, Releasing
<1>5. mMuxer # m /\ (tpc = "recordingStarted" => recordings # m)
  BY <1>1, <1>2, ThreadsSet DEF IInv, RecordInv, Recordings
<1>. HIDE DEF m
<1>6. Typed'
  BY <1>1, <1>3, <1>4 DEF IInv, Typed, clients, thread, camera, pictures
<1>7. CameraInv' /\ SeenInv' /\ StopWaits'
  BY <1>1, <1>2, <1>4, PreviewKept DEF IInv, CameraInv, clients, thread, camera
<1>8. RecordInv'
  <2>1. \A q \in Recordings : encoder[q] \in {"prepared", "running"} /\ q # m => encoder'[q] = encoder[q]
    BY <1>1, <1>4
  <2>2. \A q \in Recordings, t \in Threads : muxer[t] # q => muxer'[t] # q
    BY <1>3, ThreadsSet DEF CameraThread
  <2>3. tpc = "startMuxer" => recordings # m
    BY <1>2 DEF IInv, RecordInv
  <2>4. mMuxer # 0 => mMuxer \in Recordings
    BY DEF IInv, Typed, Recordings
  <2>. QED BY <1>1, <1>5, <2>1, <2>2, <2>3, <2>4 DEF IInv, RecordInv, thread
<1>9. KeptInv'
  BY <1>4 DEF KeptInv, Releasing
<1>10. MuxerInv'
  <2>1. tpc' = "stopMuxer" <=> muxer'[CameraThread] # 0
    BY <1>1, <1>3, ThreadsSet DEF IInv, MuxerInv, thread
  <2>2. \A q \in Recordings : encoder'[q] = "stopMuxer" <=> muxer'[q] # 0
    BY <1>2, <1>3, <1>4, ThreadsSet DEF IInv, MuxerInv
  <2>3. ASSUME NEW t \in Threads, muxer'[t] # 0
        PROVE  /\ encoder'[muxer'[t]] = "running" /\ feed' # muxer'[t]
               /\ \A u \in Threads : muxer'[u] = muxer'[t] => u = t
    <3>1. t # r /\ muxer'[t] = muxer[t] /\ muxer[t] # m /\ muxer[t] \in Recordings
      BY <1>2, <1>3, <2>3 DEF IInv, Typed, Recordings
    <3>2. encoder[muxer[t]] = "running" /\ feed # muxer[t]
          /\ \A u \in Threads : muxer[u] = muxer[t] => u = t
      BY <2>3, <3>1 DEF IInv, MuxerInv
    <3>3. muxer[t] # r
      BY <1>1, <3>2
    <3>. QED BY <1>1, <1>3, <1>4, <2>3, <3>1, <3>2, <3>3
  <2>. QED BY <2>1, <2>2, <2>3 DEF MuxerInv
<1>11. RunningInv'
  <2>1. ASSUME NEW q \in Recordings, encoder'[q] = "running"
        PROVE  \/ mMuxer' = q
               \/ tpc' = "recordingStarted" /\ recordings' = q
               \/ \E t \in Threads : muxer'[t] = q
    <3>1. encoder[q] = "running" /\ q # m
      BY <1>2, <1>4, <2>1
    <3>2. \A t \in Threads : muxer[t] = q => muxer'[t] = q
      BY <1>3, <3>1 DEF m
    <3>. QED BY <1>1, <3>1, <3>2 DEF IInv, RunningInv, thread
  <2>2. ASSUME NEW q \in Recordings PROVE encoder'[q] = "prepared" => encoder[q] = "prepared"
    BY <1>2, <1>4
  <2>3. ASSUME NEW q \in Recordings PROVE encoder[q] = "none" => encoder'[q] = "none"
    BY <1>1, <1>2, <1>4
  <2>. QED BY <1>1, <2>1, <2>2, <2>3 DEF IInv, RunningInv, thread
<1>12. FeedInv' /\ OneLatePicture'
  BY <1>1, <1>2, <1>4, StoppedLate DEF Unstopped, pictures
<1>. QED BY <1>6, <1>7, <1>8, <1>9, <1>10, <1>11, <1>12 DEF IInv

(* ... takes the camera and destroys it.                                   *)
LEMMA ReleaseCameraInv ==
  ASSUME IInv, NEW r \in Recordings, ReleaseCamera(r) \/ ReleaseDestroy(r) PROVE IInv'
<1>1. /\ encoder[r] \in {"forget", "destroy"}
      /\ UNCHANGED <<clients, thread, mIsPreviewing, previews, mMuxer, muxer, recordings, feed,
                     pictures>>
      /\ \E to \in {"destroy", "finish"} : encoder' = [encoder EXCEPT ![r] = to]
  BY DEF ReleaseCamera, ReleaseDestroy, EncoderOnly, Stopped, clients
<1>2. \/ /\ opened' = FALSE /\ preview' = 0 /\ closing' = [closing EXCEPT ![r] = preview]
         /\ encoder' = [encoder EXCEPT ![r] = IF opened THEN "destroy" ELSE "finish"]
      \/ /\ UNCHANGED <<opened, preview>> /\ closing' = [closing EXCEPT ![r] = 0]
         /\ encoder' = [encoder EXCEPT ![r] = "finish"]
  BY DEF ReleaseCamera, ReleaseDestroy, TakeCamera, Stopped
<1>3. encoder' \in [Recordings -> EncoderStates] /\ encoder'[r] \in {"destroy", "finish"}
      /\ \A q \in Recordings \ {r} : encoder'[q] = encoder[q]
  BY <1>1 DEF IInv, Typed, EncoderStates, Releasing
<1>4. closing' \in [Threads -> Nat] /\ \A t \in Threads \ {r} : closing'[t] = closing[t]
  BY <1>2 DEF IInv, Typed
<1>5. closing'[r] # 0 => encoder'[r] = "destroy"
  BY <1>2, ThreadsSet DEF IInv, Typed, CameraInv
<1>6. Typed'
  <2>1. opened' = FALSE \/ opened' = opened
    BY <1>2
  <2>2. preview' = 0 \/ preview' = preview
    BY <1>2
  <2>3. opened' \in BOOLEAN
    BY <2>1 DEF IInv, Typed
  <2>4. preview' \in Nat
    BY <2>2 DEF IInv, Typed
  <2>5. UNCHANGED <<cpc, seen, looper, tpc, mIsPreviewing, previews, mMuxer, muxer, recordings,
                    feed, held, late>>
    BY <1>1 DEF clients, thread, pictures
  <2>. QED BY <1>3, <1>4, <2>3, <2>4, <2>5 DEF IInv, Typed
<1>7. CameraInv'
  BY <1>1, <1>2, <1>3, <1>4, <1>5, ThreadsSet DEF IInv, CameraInv, thread
<1>8. SeenInv' /\ StopWaits'
  BY <1>1, <1>2, <1>4, ThreadsSet DEF IInv, Typed, SeenInv, StopWaits, clients
<1>9. RecordInv' /\ KeptInv'
  BY <1>1, <1>3 DEF IInv, RecordInv, KeptInv, Releasing, thread
<1>10. MuxerInv' /\ RunningInv'
  BY <1>1, <1>3 DEF IInv, Typed, MuxerInv, RunningInv, Recordings, thread
<1>11. FeedInv' /\ OneLatePicture'
  BY <1>1, <1>3 DEF IInv, Typed, FeedInv, OneLatePicture, InHand, Unstopped, Recordings, pictures
<1>. QED BY <1>6, <1>7, <1>8, <1>9, <1>10, <1>11 DEF IInv

LEMMA EncoderInv == ASSUME IInv, NEW r \in Recordings, EncoderStep(r) PROVE IInv'
<1>1. CASE OnStopped(r) \/ StopFeeding(r) \/ SendMediaUpdate(r) \/ NoOutputPath(r)
           \/ ReleaseCallback(r) \/ ReleaseFinish(r)
  <2>1. UNCHANGED <<clients, thread, camera, mMuxer, muxer, recordings, pictures>>
        /\ feed' \in {feed, 0}
    BY <1>1 DEF OnStopped, StopFeeding, SendMediaUpdate, NoOutputPath, ReleaseCallback,
                ReleaseFinish, EncoderOnly, clients
  <2>2. \/ /\ encoder[r] \in {"stopping", "cleared", "unfed"}
           /\ \E to \in {"cleared", "unfed", "stopped", "lost", "releasing"} :
                encoder' = [encoder EXCEPT ![r] = to]
        \/ /\ encoder[r] \in {"resetCallback", "finish"}
           /\ \E to \in {"forget", "released"} : encoder' = [encoder EXCEPT ![r] = to]
    BY <1>1 DEF OnStopped, StopFeeding, SendMediaUpdate, NoOutputPath, ReleaseCallback,
                ReleaseFinish, Stopped
  <2>3. PICK to \in EncoderStates :
          /\ encoder' = [encoder EXCEPT ![r] = to]
          /\ {encoder[r], to} \cap ({"none", "stopMuxer", "destroy"} \cup Unstopped) = {}
          /\ encoder[r] \in Releasing => to \in Releasing
    BY <2>2 DEF EncoderStates, Releasing, Silent, Unstopped
  <2>. QED BY <2>1, <2>3, AnswerKeeps
<1>. QED BY <1>1, ReleaseRecordingInv, ReleaseMuxerInv, ReleaseCameraInv DEF EncoderStep

(* onFrame takes a picture for an encoder that nobody has told to stop.    *)
LEMMA FrameInv == ASSUME IInv, OnFrame \/ Encode PROVE IInv'
<1>1. UNCHANGED <<clients, thread, camera, record>>
  BY DEF OnFrame, Encode
<1>2. /\ held' \in 0 .. MaxRecordings /\ late' \in [Recordings -> Nat]
      /\ \A r \in Recordings :
           /\ encoder[r] = "none" \/ encoder[r] \in Unstopped => late'[r] = 0
           /\ late'[r] + InHand(r)' <= 1
      /\ held' # 0 => encoder[held'] # "none"
  <2>1. CASE OnFrame
    <3>1. held = 0 /\ held' = feed /\ late' = late /\ encoder' = encoder
      BY <2>1, <1>1 DEF OnFrame, record
    <3>2. \A r \in Recordings : InHand(r)' = 0 /\ InHand(r) = 0
      BY <3>1, ThreadsSet DEF IInv, FeedInv, InHand, CameraThread
    <3>. QED BY <3>1, <3>2 DEF IInv, Typed, FeedInv, OneLatePicture, Unstopped
  <2>2. CASE Encode
    <3>1. held \in Recordings /\ held' = 0 /\ encoder' = encoder
          /\ late' = [late EXCEPT ![held] = IF encoder[held] \in Unstopped THEN @ ELSE @ + 1]
      BY <2>2, <1>1 DEF IInv, Typed, Encode, record, Recordings
    <3>2. \A r \in Recordings : InHand(r)' = 0
      BY <3>1, ThreadsSet DEF InHand, CameraThread
    <3>3. late' \in [Recordings -> Nat]
          /\ \A r \in Recordings \ {held} : late'[r] = late[r]
          /\ late'[held] = (IF encoder[held] \in Unstopped THEN late[held] ELSE late[held] + 1)
      BY <3>1 DEF IInv, Typed
    <3>4. encoder[held] \notin Unstopped => late[held] = 0
      BY <3>1 DEF IInv, Typed, OneLatePicture, InHand
    <3>5. encoder[held] \in Unstopped => late[held] = 0
      BY <3>1 DEF IInv, FeedInv
    <3>6. encoder[held] # "none"
      BY <3>1, ThreadsSet DEF IInv, FeedInv, CameraThread
    <3>7. \A r \in Recordings \ {held} : late[r] + InHand(r) <= 1 /\ InHand(r) = 0
      BY <3>1 DEF IInv, OneLatePicture, InHand
    <3>8. \A r \in Recordings : late'[r] + InHand(r)' <= 1
      BY <3>1, <3>2, <3>3, <3>4, <3>5, <3>7 DEF IInv, Typed
    <3>. QED BY <3>1, <3>3, <3>5, <3>6, <3>8, HandlerAssumption DEF IInv, FeedInv
  <2>. QED BY <2>1, <2>2
<1>3. Typed'
  BY <1>1, <1>2 DEF IInv, Typed, clients, thread, camera, record
<1>4. CameraInv' /\ RecordInv' /\ MuxerInv' /\ RunningInv' /\ KeptInv' /\ SeenInv' /\ StopWaits'
  BY <1>1, PreviewKept DEF IInv, CameraInv, RecordInv, MuxerInv, RunningInv, KeptInv,
     clients, thread, camera, record
<1>5. FeedInv' /\ OneLatePicture'
  BY <1>1, <1>2 DEF IInv, FeedInv, OneLatePicture, record
<1>. QED BY <1>3, <1>4, <1>5 DEF IInv

-----------------------------------------------------------------------------
LEMMA NextIInv == ASSUME IInv, [Next]_vars PROVE IInv'
<1>1. CASE ThreadStep
  BY <1>1, DispatchInv, HandleStopRecordingInv, StopMuxerInv, ResetCallbackInv, HandleCloseInv,
     DestroyInv, HandleOpenInv, HandleStartPreviewInv, StartCameraInv, PreviewStartedInv,
     HandleStopPreviewInv, StopCameraInv, PreviewStoppedInv, HandleStartRecordingInv,
     PrepareEncodersInv, StartMuxerInv, RecordingStartedInv, HandleReleaseInv, ExitInv
     DEF ThreadStep
<1>2. CASE MediaUpdateDue \/ UNCHANGED vars
  <2>1. UNCHANGED <<clients, thread, camera, record, pictures>>
    BY <1>2 DEF MediaUpdateDue, vars
  <2>. QED BY <2>1, ClientKeeps DEF IInv, Typed, clients
<1>. QED BY <1>1, <1>2, ClientInv, EncoderInv, FrameInv DEF Next

LEMMA HandlerInductive == Spec => []IInv
  BY InitIInv, NextIInv, PTL DEF Spec

(* A stopPreview that was notified returns after the preview it was called *)
(* for has ended, or was taken by an encoder's thread to be ended there,   *)
(* whatever other threads ask for and whatever fails.                      *)
THEOREM PreviewAwaited == Spec => []StopWaits
<1>1. IInv => StopWaits
  BY DEF IInv
<1>. QED BY HandlerInductive, <1>1, PTL

(* However it ended, the camera thread leaves no camera, no preview and no *)
(* recording behind that no other thread is about to end; the encoders of  *)
(* a failed preparation are not among them.                                *)
THEOREM ThreadEndsClean == Spec => []EndsClean
<1>1. IInv => EndsClean
  <2>. SUFFICES ASSUME IInv, looper \in {"quit", "ended"}
                PROVE  /\ ~opened /\ preview = 0 /\ closing[CameraThread] = 0
                       /\ mMuxer = 0 /\ feed = 0
                       /\ \A r \in Recordings : closing[r] # 0 => encoder[r] = "destroy"
                       /\ \A r \in Recordings : encoder[r] \in {"prepared", "running"} =>
                            \E e \in Recordings : encoder[e] = "stopMuxer" /\ muxer[e] = r
    BY DEF EndsClean
  <2>1. tpc = "idle" /\ ~opened /\ preview = 0 /\ closing[CameraThread] = 0
        /\ mMuxer = 0 /\ feed = 0
        /\ \A r \in Recordings : closing[r] # 0 => encoder[r] = "destroy"
    BY DEF IInv, CameraInv, RecordInv
  <2>2. ASSUME NEW r \in Recordings, encoder[r] \in {"prepared", "running"}
        PROVE  \E e \in Recordings : encoder[e] = "stopMuxer" /\ muxer[e] = r
    <3>1. PICK t \in Threads : muxer[t] = r
      BY <2>1, <2>2, ThreadsSet DEF IInv, RunningInv, CameraThread
    <3>2. muxer[CameraThread] = 0 /\ r # 0
      BY <2>1, ThreadsSet DEF IInv, MuxerInv, CameraThread
    <3>3. t \in Recordings
      BY <3>1, <3>2, ThreadsSet
    <3>. QED BY <3>1, <3>2, <3>3 DEF IInv, MuxerInv
  <2>. QED BY <2>1, <2>2
<1>. QED BY HandlerInductive, <1>1, PTL

(* However recordings follow each other, however late encoders answer and  *)
(* onFrame goes on: an encoder that was told to stop gets no picture but   *)
(* one that onFrame had in its hands then.                                 *)
THEOREM FeedStops == Spec => []OneLatePicture
<1>1. IInv => OneLatePicture
  BY DEF IInv
<1>. QED BY HandlerInductive, <1>1, PTL

(* While no encoder's thread releases, the camera thread finds mUVCCamera  *)
(* set wherever it uses it without the lock.                               *)
THEOREM CameraStays == Spec => []CameraKept
<1>1. IInv => CameraKept
  BY DEF IInv, KeptInv, CameraKept
<1>. QED BY HandlerInductive, <1>1, PTL

-----------------------------------------------------------------------------
(* Induction, for a set of numbers.                                        *)
LEMMA NatSetInduction ==
  ASSUME NEW S \in SUBSET Nat, 0 \in S, \A n \in S : n + 1 \in S
  PROVE  S = Nat
<1> SUFFICES ASSUME Nat \ S # {} PROVE FALSE
  OBVIOUS
<1> DEFINE T == Nat \ S
<1>1. IsWellFoundedOn(OpToRel(<, Nat), Nat)
  BY NatLessThanWellFounded
<1>2. T \in SUBSET Nat /\ T # {}
  OBVIOUS
<1> HIDE DEF T
<1>3. PICK x \in T : \A y \in T : <<y, x>> \notin OpToRel(<, Nat)
  BY <1>1, <1>2, WFMin
<1>4. \A y \in T : ~(y < x)
  BY <1>2, <1>3 DEF OpToRel
<1>5. x \in Nat /\ x # 0 /\ x - 1 \in Nat /\ x - 1 < x
  BY <1>2 DEF T
<1>6. x - 1 \in S
  BY <1>4, <1>5 DEF T
<1> QED
  BY <1>5, <1>6 DEF T

(* Some element of a bounded set of numbers is its i-th.                   *)
LEMMA RankExists ==
  ASSUME NEW S \in SUBSET Nat, NEW n \in Nat, \A k \in S : 0 < k /\ k <= n
  PROVE  \A i \in 1 .. Cardinality(S) : \E k \in S : Cardinality({j \in S : j <= k}) = i
<1> DEFINE UpTo(m) == {j \in S : j <= m}
           Good == {m \in Nat : /\ IsFiniteSet(UpTo(m))
                                /\ \A i \in 1 .. Cardinality(UpTo(m)) :
                                     \E k \in S : Cardinality(UpTo(k)) = i}
<1>1. 0 \in Good
  <2>1. \A j \in S : ~(j <= 0)
    OBVIOUS
  <2>2. UpTo(0) = {}
    BY <2>1
  <2> QED
    BY <2>2, FS_EmptySet
<1>2. ASSUME NEW m \in Good PROVE m + 1 \in Good
  <2>1. m \in Nat /\ IsFiniteSet(UpTo(m)) /\ Cardinality(UpTo(m)) \in Nat
    BY <1>2, FS_CardinalityType
  <2>4. \A j \in S : (j <= m + 1 <=> j <= m \/ j = m + 1) /\ ~(m + 1 <= m)
    BY <2>1
  <2>2. CASE m + 1 \notin S
    <3>1. UpTo(m + 1) = UpTo(m)
      BY <2>4, <2>2
    <3> QED
      BY <1>2, <2>1, <3>1
  <2>3. CASE m + 1 \in S
    <3>1. UpTo(m + 1) = UpTo(m) \cup {m + 1} /\ m + 1 \notin UpTo(m)
      BY <2>4, <2>3
    <3>2. IsFiniteSet(UpTo(m + 1)) /\ Cardinality(UpTo(m + 1)) = Cardinality(UpTo(m)) + 1
      BY <2>1, <3>1, FS_AddElement
    <3>3. ASSUME NEW i \in 1 .. Cardinality(UpTo(m + 1))
          PROVE  \E k \in S : Cardinality(UpTo(k)) = i
      <4>1. i \in 1 .. Cardinality(UpTo(m)) \/ i = Cardinality(UpTo(m + 1))
        BY <2>1, <3>2
      <4> QED
        BY <1>2, <2>3, <4>1
    <3> QED
      BY <2>1, <3>2, <3>3
  <2> QED
    BY <2>2, <2>3
<1>3. n \in Good
  <2> HIDE DEF Good
  <2>1. Good \in SUBSET Nat
    BY DEF Good
  <2> QED
    BY <1>1, <1>2, <2>1, NatSetInduction
<1>4. UpTo(n) = S
  OBVIOUS
<1> QED
  BY <1>3, <1>4

(* removeMessages gives a queue of messages.                               *)
LEMMA RemoveTyped ==
  ASSUME NEW A, NEW q \in Seq(A), NEW m
  PROVE  removeMessages(q, m) \in Seq(A)
<1> DEFINE left == {k \in DOMAIN q : q[k] # m}
           at(i) == CHOOSE k \in left : Cardinality({j \in left : j <= k}) = i
<1>1. DOMAIN q = 1 .. Len(q) /\ Len(q) \in Nat
  OBVIOUS
<1>2. left \in SUBSET Nat /\ \A k \in left : 0 < k /\ k <= Len(q)
  BY <1>1
<1>3. Cardinality(left) \in Nat
  <2>1. left \in SUBSET (1 .. Len(q)) /\ IsFiniteSet(1 .. Len(q))
    BY <1>1, FS_Interval
  <2> QED
    BY <2>1, FS_Subset, FS_CardinalityType
<1>4. \A i \in 1 .. Cardinality(left) : at(i) \in left
  <2> HIDE DEF left
  <2> QED
    BY <1>1, <1>2, RankExists
<1>5. \A k \in left : q[k] \in A
  BY <1>1
<1>6. removeMessages(q, m) = [i \in 1 .. Cardinality(left) |-> q[at(i)]]
  BY DEF removeMessages
<1> HIDE DEF left, at
<1> QED
  BY <1>3, <1>4, <1>5, <1>6

-----------------------------------------------------------------------------
(* The other variables: what is queued, asked for and remembered.          *)
MessagesTyped ==
  /\ outer \in [Clients -> {"none", "stopPreview", "close", "release"}]
  /\ calls \in [Clients -> Nat]
  /\ queue \in Seq(Messages) /\ delayed \in Nat /\ mReleased \in BOOLEAN
  /\ msg \in Messages \cup {"none"} /\ mEncoderType \in 0 .. 2
  /\ mIsRecording \in BOOLEAN

LEMMA SendTyped ==
  ASSUME NEW q \in Seq(Messages), NEW m \in Messages
  PROVE  Send(q, m) \in Seq(Messages)
  BY DEF Send

LEMMA StopPreviewTyped ==
  ASSUME queue \in Seq(Messages), NEW c \in Clients, EnterStopPreview(c)
  PROVE  queue' \in Seq(Messages)
<1>1. removeMessages(queue, "start") \in Seq(Messages)
  BY RemoveTyped
<1>. QED BY <1>1, SendTyped DEF EnterStopPreview, Messages

LEMMA ClientTyped ==
  ASSUME MessagesTyped, NEW c \in Clients, StartCall(c) \/ ContinueCall(c) \/ WokenAlone(c)
  PROVE  MessagesTyped'
<1>. USE DEF MessagesTyped
<1>1. queue' \in Seq(Messages)
  <2>1. ASSUME Request(c) \/ StopRecording(c) PROVE queue' \in Seq(Messages)
    BY <2>1, SendTyped DEF Request, StopRecording, Messages
  <2>2. ASSUME StopPreview(c) \/ CheckOpened(c) PROVE queue' \in Seq(Messages)
    BY <2>2, StopPreviewTyped DEF StopPreview, CheckOpened
  <2>3. ASSUME LockAndWait(c) \/ Returned(c) \/ Closed(c) PROVE queue' \in Seq(Messages)
    BY <2>3, SendTyped DEF LockAndWait, Returned, Closed, Messages
  <2>4. ASSUME Close(c) \/ Release(c) \/ CheckPreviewing(c) \/ WokenAlone(c)
        PROVE  queue' \in Seq(Messages)
    BY <2>4 DEF Close, Release, CheckPreviewing, WokenAlone, messages
  <2>. QED BY <2>1, <2>2, <2>3, <2>4 DEF StartCall, ContinueCall
<1>2. calls' = calls \/ calls' = [calls EXCEPT ![c] = @ + 1]
  BY DEF StartCall, ContinueCall, Request, StopRecording, StopPreview, Close, Release, Call,
         CheckPreviewing, LockAndWait, CheckOpened, Returned, Closed, WokenAlone
<1>3. outer' = outer \/ \E o \in {"none", "stopPreview", "close", "release"} :
                           outer' = [outer EXCEPT ![c] = o]
  BY DEF StartCall, ContinueCall, Request, StopRecording, StopPreview, Close, Release,
         CheckPreviewing, LockAndWait, CheckOpened, Returned, Closed, WokenAlone
<1>4. UNCHANGED <<delayed, thread, record>> /\ mReleased' \in BOOLEAN
  BY DEF StartCall, ContinueCall, Request, StopRecording, StopPreview, Close, Release,
         CheckPreviewing, LockAndWait, CheckOpened, Returned, Closed, WokenAlone, messages
<1>5. calls' \in [Clients -> Nat]
  BY <1>2
<1>6. outer' \in [Clients -> {"none", "stopPreview", "close", "release"}]
  BY <1>3
<1>. QED BY <1>1, <1>4, <1>5, <1>6 DEF thread, record

LEMMA ThreadTyped == ASSUME MessagesTyped, ThreadStep PROVE MessagesTyped'
<1>. USE DEF MessagesTyped, clients, messages, record
<1>1. CASE Dispatch
  BY <1>1 DEF Dispatch
<1>2. CASE HandleRelease
  <2>1. <<>> \in Seq(Messages) /\ 0 \in Nat
    OBVIOUS
  <2>2. CASE mIsRecording
    BY <1>2, <2>2 DEF HandleRelease, Advance
  <2>3. CASE ~mIsRecording
    BY <1>2, <2>1, <2>3 DEF HandleRelease, Advance
  <2>. QED BY <2>2, <2>3
<1>3. CASE Exit \/ PreviewStopped
  BY <1>3 DEF Exit, PreviewStopped, Goto, Advance
<1>4. CASE PrepareEncoders
  BY <1>4 DEF PrepareEncoders, Goto, Advance
<1>5. CASE HandleStopRecording \/ StopMuxer \/ ResetCallback \/ StartMuxer \/ RecordingStarted
  BY <1>5 DEF HandleStopRecording, TakeMuxer, StopMuxer, ResetCallback, StartMuxer,
              RecordingStarted, Goto, UseCamera, Advance
<1>6. CASE HandleClose \/ Destroy \/ HandleOpen \/ HandleStartPreview \/ StartCamera
           \/ PreviewStarted \/ HandleStopPreview \/ StopCamera \/ HandleStartRecording
  BY <1>6 DEF HandleClose, Destroy, HandleOpen, HandleStartPreview, StartCamera, PreviewStarted,
              HandleStopPreview, StopCamera, HandleStartRecording, Goto, UseCamera, Advance
<1>. QED BY <1>1, <1>2, <1>3, <1>4, <1>5, <1>6 DEF ThreadStep

LEMMA AnswerTyped ==
  ASSUME MessagesTyped,
         MediaUpdateDue \/ OnFrame \/ Encode \/ (\E r \in Recordings : EncoderStep(r))
           \/ UNCHANGED vars
  PROVE  MessagesTyped'
<1>. USE DEF MessagesTyped, clients, messages, thread, record
<1>1. CASE MediaUpdateDue
  BY <1>1 DEF MediaUpdateDue, Messages
<1>2. ASSUME NEW r \in Recordings, EncoderStep(r) PROVE MessagesTyped'
  <2>. USE DEF EncoderStep, OnStopped, StopFeeding, SendMediaUpdate, NoOutputPath,
               ReleaseRecording, ReleaseMuxer, ReleaseCallback, ReleaseCamera, ReleaseDestroy,
               ReleaseFinish, EncoderOnly
  <2>1. delayed' \in Nat
    BY <1>2
  <2>2. mIsRecording' \in BOOLEAN
    BY <1>2
  <2>3. mReleased' \in BOOLEAN
    BY <1>2
  <2>4. UNCHANGED <<outer, calls, queue, msg, mEncoderType>>
    BY <1>2
  <2>. QED BY <2>1, <2>2, <2>3, <2>4
<1>3. CASE OnFrame \/ Encode \/ UNCHANGED vars
  BY <1>3 DEF OnFrame, Encode, vars
<1>. QED BY <1>1, <1>2, <1>3

(* In every behaviour all variables have their types: whatever the clients *)
(* ask for and take back, the queue holds messages the thread can handle.  *)
THEOREM HandlerTypeCorrect == Spec => []TypeOK
<1>1. ASSUME Init PROVE MessagesTyped
  <2>1. queue \in Seq(Messages) /\ delayed \in Nat /\ calls \in [Clients -> Nat]
    BY <1>1 DEF Init
  <2>2. mReleased \in BOOLEAN /\ mIsRecording \in BOOLEAN
    BY <1>1 DEF Init
  <2>3. mEncoderType \in 0 .. 2 /\ msg \in Messages \cup {"none"}
    BY <1>1, HandlerAssumption DEF Init
  <2>4. outer \in [Clients -> {"none", "stopPreview", "close", "release"}]
    BY <1>1 DEF Init
  <2>. QED BY <2>1, <2>2, <2>3, <2>4 DEF MessagesTyped
<1>2. MessagesTyped /\ [Next]_vars => MessagesTyped'
  BY ClientTyped, ThreadTyped, AnswerTyped DEF Next
<1>3. IInv /\ MessagesTyped => TypeOK
  BY DEF IInv, Typed, MessagesTyped, TypeOK
<1>. QED BY <1>1, <1>2, <1>3, HandlerInductive, PTL DEF Spec
=============================================================================
