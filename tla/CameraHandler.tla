---------------------------- MODULE CameraHandler ----------------------------
(***************************************************************************)
(* AbstractUVCCameraHandler: the threads of an application ask for things  *)
(* by messages, the camera thread handles these one after the other, and   *)
(* the threads of encoders call back, one of which may find that it has to *)
(* release the camera itself.  stopPreview alone waits for its message to  *)
(* be handled; the camera thread ends when it was released and records     *)
(* nothing.                                                                *)
(*                                                                         *)
(* What happens inside one block synchronized on mSync is one action.  An  *)
(* encoder is modelled by its order to stop and by its call of onStopped;  *)
(* module Recording has what happens in between.                           *)
(***************************************************************************)
EXTENDS Integers, Sequences, FiniteSets

CONSTANTS
  Clients,        (* threads of the application                             *)
  EncoderTypes,   (* choices of mEncoderType: 0 is MediaSurfaceEncoder, 1   *)
                  (* MediaVideoEncoder, 2 MediaVideoBufferEncoder           *)
  MayFail,        (* "open", "size", "prepare": these throw an exception;   *)
                  (* "gone": the activity or its view is destroyed;         *)
                  (* "collect": the muxer is garbage before its encoders    *)
                  (* have stopped; "interrupt": a wait returns by itself    *)
  MayCall,        (* the methods each of them calls                         *)
  MaxCalls,       (* bound: calls each of them makes                        *)
  MaxRecordings   (* bound: recordings; then the storage is full            *)

Recordings == 1 .. MaxRecordings

ASSUME HandlerAssumption ==
  /\ EncoderTypes \subseteq 0 .. 2
  /\ MaxCalls \in [Clients -> Nat] /\ MaxRecordings \in Nat

VARIABLES
  cpc, outer,      (* each client: where it is, and in which method         *)
  seen,            (* the preview it waits to see the end of, 0 if none     *)
  calls,
  queue, delayed,  (* the messages; how many MSG_MEDIA_UPDATE are due later *)
  mReleased,
  looper,          (* the camera thread: "running", "quit" or "ended"; or   *)
                   (* "died", with the process, of an exception             *)
  tpc, msg,        (* where it is in the handling of which message          *)
  mEncoderType,
  opened,          (* mUVCCamera is set                                     *)
  mIsPreviewing, mIsRecording,
  preview,         (* the preview that mUVCCamera runs, 0 if none           *)
  previews, recordings,   (* how many were started                          *)
  mMuxer,          (* the recording in mMuxer, 0 if none                    *)
  muxer, closing,  (* the local variables of handleStopRecording and        *)
                   (* handleClose: the recording a thread is about to stop, *)
                   (* the preview of the camera it is about to destroy      *)
  feed,            (* the recording whose video encoder is to get pictures: *)
                   (* mVideoEncoder, or the one the view and the camera know*)
  held, late,      (* whose encoder onFrame gives its picture to; how many  *)
                   (* each was given after it was told to stop              *)
  encoder          (* the video encoder of each recording, and its thread   *)

clients  == <<cpc, outer, seen, calls>>
messages == <<queue, delayed>>
thread   == <<looper, tpc, msg, mEncoderType>>
camera   == <<opened, mIsPreviewing, preview, previews, closing>>
record   == <<mMuxer, muxer, mIsRecording, recordings, feed, encoder>>
pictures == <<held, late>>
vars == <<clients, messages, mReleased, thread, camera, record, pictures>>

(* Who can run handleStopRecording and handleClose: the camera thread and  *)
(* the threads of encoders.                                                *)
CameraThread == 0
Threads == {CameraThread} \cup Recordings

Messages == {"open", "close", "start", "stop", "record", "stopRecord", "update", "release"}
CPcs == {"idle", "entered", "check", "lock", "waiting", "stopped", "closed"}
TPcs == {"idle", "stopRecording", "stopMuxer", "resetCallback", "forget", "destroy", "open",
         "startPreview", "startCamera", "previewStarted", "stopPreview", "stopCamera",
         "previewStopped", "prepare", "construct", "startMuxer", "recordingStarted", "quit"}

(* Nobody has told these to stop; the preparation of an abandoned one, or  *)
(* of its partner, failed.                                                 *)
Unstopped == {"prepared", "abandoned", "running"}
(* In handleRelease, on its own thread, and after it.                      *)
Releasing == {"releasing", "stopMuxer", "resetCallback", "forget", "destroy", "finish",
              "released"}
(* Nobody will tell the camera thread that these have stopped.             *)
Silent == {"lost", "released"}
EncoderStates == Unstopped \cup Releasing \cup Silent \cup
                 {"none", "stopping", "cleared", "unfed", "stopped"}

Init ==
  /\ cpc = [c \in Clients |-> "idle"] /\ outer = [c \in Clients |-> "none"]
  /\ seen = [c \in Clients |-> 0] /\ calls = [c \in Clients |-> 0]
  /\ queue = <<>> /\ delayed = 0 /\ mReleased = FALSE
  /\ looper = "running" /\ tpc = "idle" /\ msg = "none" /\ mEncoderType \in EncoderTypes
  /\ opened = FALSE /\ mIsPreviewing = FALSE /\ mIsRecording = FALSE
  /\ preview = 0 /\ previews = 0 /\ recordings = 0 /\ mMuxer = 0
  /\ muxer = [t \in Threads |-> 0] /\ closing = [t \in Threads |-> 0]
  /\ feed = 0 /\ held = 0 /\ late = [r \in Recordings |-> 0]
  /\ encoder = [r \in Recordings |-> "none"]

(* An exception that nobody catches ends the process, with all threads.    *)
Alive == looper # "died"

(* sendMessage; a looper that has quit takes none.                         *)
Send(q, m) == IF looper = "running" THEN Append(q, m) ELSE q

(* removeMessages: the i-th message left is the one with i of those left   *)
(* up to it.  (It is SelectSeq; this form can be reasoned about.)          *)
removeMessages(q, m) ==
  LET left == {k \in DOMAIN q : q[k] # m}
  IN  [i \in 1 .. Cardinality(left) |->
         q[CHOOSE k \in left : Cardinality({j \in left : j <= k}) = i]]

(* mSync.notifyAll().  Mutant: nobody is notified.                         *)
NotWoken(pc) == pc

Woken(pc) == IF pc = "waiting" THEN "stopped" ELSE pc
NotifyAll == cpc' = [c \in Clients |-> Woken(cpc[c])]

-----------------------------------------------------------------------------
(* The application's threads.                                              *)

Call(c, method) ==
  /\ cpc[c] = "idle" /\ method \in MayCall[c] /\ calls[c] < MaxCalls[c]
  /\ calls' = [calls EXCEPT ![c] = @ + 1]

(* open, startPreview and startRecording check that nobody has released    *)
(* the handler.                                                            *)
Request(c) ==
  /\ ~mReleased
  /\ \E m \in {"open", "start", "record"} : Call(c, m) /\ queue' = Send(queue, m)
  /\ UNCHANGED <<cpc, outer, seen, delayed, mReleased, thread, camera, record, pictures>>

StopRecording(c) ==
  /\ Call(c, "stopRecord") /\ queue' = Send(queue, "stopRecord")
  /\ UNCHANGED <<cpc, outer, seen, delayed, mReleased, thread, camera, record, pictures>>

(* stopPreview begins ...                                                  *)
EnterStopPreview(c) ==
  /\ cpc' = [cpc EXCEPT ![c] = "check"]
  /\ queue' = Send(removeMessages(queue, "start"), "stopRecord")

StopPreview(c) ==
  /\ Call(c, "stop") /\ EnterStopPreview(c)
  /\ outer' = [outer EXCEPT ![c] = "stopPreview"]
  /\ UNCHANGED <<seen, delayed, mReleased, thread, camera, record, pictures>>

(* ... and goes on only if there is a preview, ...                         *)
CheckPreviewing(c) ==
  /\ cpc[c] = "check"
  /\ cpc' = [cpc EXCEPT ![c] = IF opened /\ mIsPreviewing THEN "lock" ELSE "stopped"]
  /\ UNCHANGED <<outer, seen, calls, messages, mReleased, thread, camera, record, pictures>>

(* ... to send its message and to wait until it is notified.               *)
LockAndWait(c) ==
  /\ cpc[c] = "lock" /\ cpc' = [cpc EXCEPT ![c] = "waiting"]
  /\ seen' = [seen EXCEPT ![c] = preview]
  /\ queue' = Send(queue, "stop")
  /\ UNCHANGED <<outer, calls, delayed, mReleased, thread, camera, record, pictures>>

(* Nobody looks at what the wait returned for: an interrupt, or a wakeup   *)
(* without a reason, ends it as a notification does.                       *)
WokenAlone(c) ==
  /\ Alive /\ cpc[c] = "waiting" /\ "interrupt" \in MayFail
  /\ cpc' = [cpc EXCEPT ![c] = "stopped"] /\ seen' = [seen EXCEPT ![c] = 0]
  /\ UNCHANGED <<outer, calls, messages, mReleased, thread, camera, record, pictures>>

(* close does nothing unless a camera is open.                             *)
Close(c) ==
  /\ Call(c, "close") /\ outer' = [outer EXCEPT ![c] = "close"]
  /\ cpc' = [cpc EXCEPT ![c] = "entered"]
  /\ UNCHANGED <<seen, messages, mReleased, thread, camera, record, pictures>>

Release(c) ==
  /\ Call(c, "release") /\ outer' = [outer EXCEPT ![c] = "release"]
  /\ mReleased' = TRUE
  /\ cpc' = [cpc EXCEPT ![c] = "entered"]
  /\ UNCHANGED <<seen, messages, thread, camera, record, pictures>>

CheckOpened(c) ==
  /\ cpc[c] = "entered"
  /\ IF opened
     THEN EnterStopPreview(c)
     ELSE cpc' = [cpc EXCEPT ![c] = "closed"] /\ UNCHANGED queue
  /\ UNCHANGED <<outer, seen, calls, delayed, mReleased, thread, camera, record, pictures>>

(* stopPreview returns, to the application or to close; close, to the     *)
(* application or to release.                                              *)
Returned(c) ==
  /\ cpc[c] = "stopped" /\ seen' = [seen EXCEPT ![c] = 0]
  /\ IF outer[c] = "stopPreview"
     THEN /\ cpc' = [cpc EXCEPT ![c] = "idle"] /\ outer' = [outer EXCEPT ![c] = "none"]
          /\ UNCHANGED queue
     ELSE /\ cpc' = [cpc EXCEPT ![c] = "closed"] /\ queue' = Send(queue, "close")
          /\ UNCHANGED outer
  /\ UNCHANGED <<calls, delayed, mReleased, thread, camera, record, pictures>>

Closed(c) ==
  /\ cpc[c] = "closed"
  /\ cpc' = [cpc EXCEPT ![c] = "idle"] /\ outer' = [outer EXCEPT ![c] = "none"]
  /\ queue' = IF outer[c] = "release" THEN Send(queue, "release") ELSE queue
  /\ UNCHANGED <<seen, calls, delayed, mReleased, thread, camera, record, pictures>>

-----------------------------------------------------------------------------
(* The camera thread.                                                      *)

At(from) == looper = "running" /\ tpc = from
Advance(to) ==
  tpc' = to /\ msg' = (IF to = "idle" THEN "none" ELSE msg) /\ UNCHANGED mEncoderType
Goto(to) == Advance(to) /\ UNCHANGED looper

(* mUVCCamera is used without the lock: if another thread has cleared it,  *)
(* the NullPointerException is not caught.  (Reading it and the call are   *)
(* one step; a call that comes after destroy does nothing.)                *)
UseCamera(to) == Advance(to) /\ looper' = IF opened THEN looper ELSE "died"

(* Mutants: handleRelease without handleClose; handleUpdateMedia does not  *)
(* resume a release that was put off.                                      *)
QuitAtOnce(m, released) ==
  CASE m = "start"  -> "startPreview"
    [] m = "stop"   -> "stopPreview"
    [] m = "record" -> "prepare"
    [] m = "update" /\ ~released -> "idle"
    [] m = "release" -> "quit"
    [] OTHER -> "stopRecording"
NeverResumed(m, released) ==
  CASE m = "start"  -> "startPreview"
    [] m = "stop"   -> "stopPreview"
    [] m = "record" -> "prepare"
    [] m = "update" -> "idle"
    [] OTHER -> "stopRecording"

FirstStep(m, released) ==
  CASE m = "start"  -> "startPreview"
    [] m = "stop"   -> "stopPreview"
    [] m = "record" -> "prepare"
    [] m = "update" /\ ~released -> "idle"
    [] OTHER -> "stopRecording"

(* The activity, or its view, may be destroyed at any time.                *)
MayBeGone == {FALSE} \cup (IF "gone" \in MayFail THEN {TRUE} ELSE {})

(* handleMessage; handleUpdateMedia releases when the handler was released *)
(* or the activity destroyed.                                              *)
Dispatch ==
  /\ At("idle") /\ queue # <<>>
  /\ msg' = Head(queue) /\ queue' = Tail(queue)
  /\ \E gone \in MayBeGone : tpc' = FirstStep(Head(queue), mReleased \/ gone)
  /\ UNCHANGED <<clients, delayed, mReleased, looper, mEncoderType, camera, record, pictures>>

(* handleOpen, handleClose and handleRelease begin with                    *)
(* handleStopRecording; handleOpen and handleRelease with handleClose.     *)
AfterStopRecording == IF msg = "stopRecord" THEN "idle" ELSE "forget"
AfterClose ==
  CASE msg = "open" -> "open" [] msg = "close" -> "idle" [] OTHER -> "quit"

(* Mutant: the encoder stays where it is given pictures.                   *)
StillFed == feed

NotFed == 0

(* The sections under mSync of handleStopRecording and handleClose, by     *)
(* whichever thread: whoever comes first has the recording, or the camera. *)
TakeMuxer(t) == muxer' = [muxer EXCEPT ![t] = mMuxer] /\ mMuxer' = 0 /\ feed' = NotFed
TakeCamera(t) ==
  opened' = FALSE /\ closing' = [closing EXCEPT ![t] = preview] /\ preview' = 0

HandleStopRecording ==
  /\ At("stopRecording") /\ TakeMuxer(CameraThread)
  /\ Goto(IF mMuxer # 0 THEN "stopMuxer" ELSE AfterStopRecording)
  /\ UNCHANGED <<clients, messages, mReleased, camera, mIsRecording, recordings, encoder,
                 pictures>>

StopMuxer ==
  /\ At("stopMuxer") /\ Goto("resetCallback")
  /\ encoder' = [encoder EXCEPT ![muxer[CameraThread]] = "stopping"]
  /\ muxer' = [muxer EXCEPT ![CameraThread] = 0]
  /\ UNCHANGED <<clients, messages, mReleased, camera, mMuxer, mIsRecording, recordings,
                 feed, pictures>>

ResetCallback ==
  /\ At("resetCallback") /\ UseCamera(AfterStopRecording)
  /\ UNCHANGED <<clients, messages, mReleased, camera, record, pictures>>

(* mUVCCamera is cleared first; then the camera stops its preview.         *)
HandleClose ==
  /\ At("forget") /\ TakeCamera(CameraThread)
  /\ Goto(IF opened THEN "destroy" ELSE AfterClose)
  /\ UNCHANGED <<clients, messages, mReleased, mIsPreviewing, previews, record, pictures>>

Destroy ==
  /\ At("destroy") /\ Goto(AfterClose)
  /\ closing' = [closing EXCEPT ![CameraThread] = 0]
  /\ UNCHANGED <<clients, messages, mReleased, opened, mIsPreviewing, preview, previews,
                 record, pictures>>

(* The result of UVCCamera.open is not looked at.                          *)
HandleOpen ==
  /\ At("open") /\ Goto("idle")
  /\ opened' \in {TRUE} \cup (IF "open" \in MayFail THEN {FALSE} ELSE {})
  /\ UNCHANGED <<clients, messages, mReleased, mIsPreviewing, preview, previews, closing,
                 record, pictures>>

(* Mutant: handleStartPreview does not look for a camera.                  *)
NotPreviewing == ~mIsPreviewing

CanPreview == opened /\ ~mIsPreviewing
HandleStartPreview ==
  /\ At("startPreview")
  /\ \/ Goto("idle") /\ (~CanPreview \/ "size" \in MayFail)
     \/ Goto("startCamera") /\ CanPreview
  /\ UNCHANGED <<clients, messages, mReleased, camera, record, pictures>>

StartCamera ==
  /\ At("startCamera") /\ UseCamera("previewStarted")
  /\ previews' = previews + 1
  /\ preview' = IF opened THEN previews' ELSE 0
  /\ UNCHANGED <<clients, messages, mReleased, opened, mIsPreviewing, closing, record,
                 pictures>>

PreviewStarted ==
  /\ At("previewStarted") /\ UseCamera("idle") /\ mIsPreviewing' = opened
  /\ UNCHANGED <<clients, messages, mReleased, opened, preview, previews, closing, record,
                 pictures>>

(* Mutant: the test for a camera the wrong way round.                      *)
NoCamera == ~opened

HasCamera == opened
HandleStopPreview ==
  /\ At("stopPreview")
  /\ Goto(IF ~mIsPreviewing THEN "idle"
          ELSE IF HasCamera THEN "stopCamera" ELSE "previewStopped")
  /\ UNCHANGED <<clients, messages, mReleased, camera, record, pictures>>

StopCamera ==
  /\ At("stopCamera") /\ UseCamera("previewStopped") /\ preview' = 0
  /\ UNCHANGED <<clients, messages, mReleased, opened, mIsPreviewing, previews, closing,
                 record, pictures>>

PreviewStopped ==
  /\ At("previewStopped") /\ Goto("idle") /\ mIsPreviewing' = FALSE /\ NotifyAll
  /\ UNCHANGED <<outer, seen, calls, messages, mReleased, opened, preview, previews,
                 closing, record, pictures>>

(* handleStartRecording: each encoder's preparation calls onPrepared, that *)
(* of a surface or video encoder also lets it be given pictures (that of a *)
(* camera taken meanwhile is caught).  After MaxRecordings the muxer can   *)
(* no more be constructed.                                                 *)
(* Mutant: that failure is not noticed.                                    *)
Unchecked == ~opened \/ mMuxer # 0

CannotRecord == ~opened \/ mMuxer # 0 \/ recordings = MaxRecordings
HandleStartRecording ==
  /\ At("prepare") /\ Goto(IF CannotRecord THEN "idle" ELSE "construct")
  /\ UNCHANGED <<clients, messages, mReleased, camera, record, pictures>>

PrepareEncoders ==
  /\ At("construct")
  /\ LET r == recordings + 1
         OnPrepared == mIsRecording' = TRUE /\ feed' = IF mEncoderType = 2 THEN feed ELSE r
     IN  /\ recordings' = r
         /\ \/ /\ Goto("startMuxer") /\ OnPrepared
               /\ encoder' = [encoder EXCEPT ![r] = "prepared"]
            \/ (* IOException, by the video or by the audio encoder        *)
               /\ "prepare" \in MayFail /\ Goto("idle")
               /\ encoder' = [encoder EXCEPT ![r] = "abandoned"]
               /\ OnPrepared \/ UNCHANGED <<mIsRecording, feed>>
  /\ UNCHANGED <<clients, messages, mReleased, camera, mMuxer, muxer, pictures>>

StartMuxer ==
  /\ At("startMuxer") /\ Goto("recordingStarted")
  /\ encoder' = [encoder EXCEPT ![recordings] = "running"]
  /\ UNCHANGED <<clients, messages, mReleased, camera, mMuxer, muxer, mIsRecording,
                 recordings, feed, pictures>>

(* With MediaVideoBufferEncoder the frame callback was set before, of a    *)
(* camera that then no other thread can have taken.                        *)
RecordingStarted ==
  /\ At("recordingStarted") /\ Goto("idle")
  /\ mMuxer' = recordings
  /\ feed' = IF mEncoderType = 2 THEN recordings ELSE feed
  /\ UNCHANGED <<clients, messages, mReleased, camera, muxer, mIsRecording, recordings,
                 encoder, pictures>>

(* The end of handleRelease.                                               *)
HandleRelease ==
  /\ At("quit") /\ Advance("idle")
  /\ IF mIsRecording
     THEN UNCHANGED <<looper, mReleased, messages>>
     ELSE looper' = "quit" /\ mReleased' = TRUE /\ queue' = <<>> /\ delayed' = 0
  /\ UNCHANGED <<clients, camera, record, pictures>>

(* The end of run.                                                         *)
Exit ==
  /\ looper = "quit" /\ looper' = "ended" /\ NotifyAll
  /\ UNCHANGED <<outer, seen, calls, messages, mReleased, tpc, msg, mEncoderType, camera,
                 record, pictures>>

-----------------------------------------------------------------------------
(* The video encoder's thread calls onStopped; of MediaVideoBufferEncoder  *)
(* that takes no notice.  Exceptions in it are caught.                     *)
Stopped(r, from, to) == encoder[r] = from /\ encoder' = [encoder EXCEPT ![r] = to]
EncoderOnly == UNCHANGED <<clients, queue, thread, pictures>>

OnStopped(r) ==
  /\ \/ mEncoderType # 2 /\ Stopped(r, "stopping", "cleared") /\ mIsRecording' = FALSE
     \/ mEncoderType = 2 /\ Stopped(r, "stopping", "stopped") /\ UNCHANGED mIsRecording
  /\ EncoderOnly
  /\ UNCHANGED <<delayed, mReleased, camera, mMuxer, muxer, recordings, feed>>

(* If the view is gone, that is all it does.                               *)
StopFeeding(r) ==
  /\ \/ Stopped(r, "cleared", "unfed") /\ feed' = 0
     \/ "gone" \in MayFail /\ Stopped(r, "cleared", "lost") /\ UNCHANGED feed
  /\ EncoderOnly
  /\ UNCHANGED <<delayed, mReleased, camera, mMuxer, muxer, mIsRecording, recordings>>

SendMediaUpdate(r) ==
  /\ Stopped(r, "unfed", "stopped")
  /\ delayed' = IF looper = "running" THEN delayed + 1 ELSE delayed
  /\ EncoderOnly
  /\ UNCHANGED <<mReleased, camera, mMuxer, muxer, mIsRecording, recordings, feed>>

(* There is no output path once the muxer was collected.  No message is    *)
(* sent then; if the handler was released, or the activity destroyed, this *)
(* thread itself runs handleRelease.                                       *)
NoOutputPath(r) ==
  /\ "collect" \in MayFail
  /\ \E gone \in MayBeGone :
       Stopped(r, "unfed", IF mReleased \/ gone THEN "releasing" ELSE "lost")
  /\ EncoderOnly
  /\ UNCHANGED <<delayed, mReleased, camera, mMuxer, muxer, mIsRecording, recordings, feed>>

ReleaseRecording(r) ==
  /\ TakeMuxer(r)
  /\ Stopped(r, "releasing", IF mMuxer # 0 THEN "stopMuxer" ELSE "forget")
  /\ EncoderOnly /\ UNCHANGED <<delayed, mReleased, camera, mIsRecording, recordings>>

ReleaseMuxer(r) ==
  /\ encoder[r] = "stopMuxer"
  /\ encoder' = [encoder EXCEPT ![muxer[r]] = "stopping", ![r] = "resetCallback"]
  /\ muxer' = [muxer EXCEPT ![r] = 0]
  /\ EncoderOnly
  /\ UNCHANGED <<delayed, mReleased, camera, mMuxer, mIsRecording, recordings, feed>>

ReleaseCallback(r) ==
  /\ Stopped(r, "resetCallback", IF opened THEN "forget" ELSE "released")
  /\ EncoderOnly
  /\ UNCHANGED <<delayed, mReleased, camera, mMuxer, muxer, mIsRecording, recordings, feed>>

ReleaseCamera(r) ==
  /\ TakeCamera(r) /\ Stopped(r, "forget", IF opened THEN "destroy" ELSE "finish")
  /\ EncoderOnly
  /\ UNCHANGED <<delayed, mReleased, mIsPreviewing, previews, mMuxer, muxer, mIsRecording,
                 recordings, feed>>

ReleaseDestroy(r) ==
  /\ Stopped(r, "destroy", "finish") /\ closing' = [closing EXCEPT ![r] = 0]
  /\ EncoderOnly
  /\ UNCHANGED <<delayed, mReleased, opened, mIsPreviewing, preview, previews, mMuxer, muxer,
                 mIsRecording, recordings, feed>>

(* It has no looper that it could end: the camera thread's goes on.        *)
ReleaseFinish(r) ==
  /\ Stopped(r, "finish", "released")
  /\ mReleased' = (mReleased \/ ~mIsRecording)
  /\ EncoderOnly
  /\ UNCHANGED <<delayed, camera, mMuxer, muxer, mIsRecording, recordings, feed>>

(* A second later the message is in the queue.                             *)
MediaUpdateDue ==
  /\ Alive /\ delayed > 0
  /\ delayed' = delayed - 1 /\ queue' = Append(queue, "update")
  /\ UNCHANGED <<clients, mReleased, thread, camera, record, pictures>>

-----------------------------------------------------------------------------
(* onFrame, which the preview's capture thread calls, one call at a time:  *)
(* it reads mVideoEncoder under mSync and gives it the picture later.      *)
OnFrame ==
  /\ Alive /\ mEncoderType = 2 /\ preview # 0
  /\ held = 0 /\ held' = feed
  /\ UNCHANGED <<clients, messages, mReleased, thread, camera, record, late>>

Encode ==
  /\ Alive /\ held # 0 /\ held' = 0
  /\ late' = [late EXCEPT ![held] = IF encoder[held] \in Unstopped THEN @ ELSE @ + 1]
  /\ UNCHANGED <<clients, messages, mReleased, thread, camera, record>>

-----------------------------------------------------------------------------
StartCall(c) ==
  Alive /\ (Request(c) \/ StopRecording(c) \/ StopPreview(c) \/ Close(c) \/ Release(c))
ContinueCall(c) ==
  Alive /\ (CheckPreviewing(c) \/ LockAndWait(c) \/ CheckOpened(c) \/ Returned(c) \/ Closed(c))

ThreadStep ==
  \/ Dispatch \/ HandleStopRecording \/ StopMuxer \/ ResetCallback \/ HandleClose \/ Destroy
  \/ HandleOpen \/ HandleStartPreview \/ StartCamera \/ PreviewStarted \/ HandleStopPreview
  \/ StopCamera \/ PreviewStopped \/ HandleStartRecording \/ PrepareEncoders \/ StartMuxer
  \/ RecordingStarted \/ HandleRelease \/ Exit

EncoderStep(r) ==
  /\ Alive
  /\ \/ OnStopped(r) \/ StopFeeding(r) \/ SendMediaUpdate(r) \/ NoOutputPath(r)
     \/ ReleaseRecording(r) \/ ReleaseMuxer(r) \/ ReleaseCallback(r) \/ ReleaseCamera(r)
     \/ ReleaseDestroy(r) \/ ReleaseFinish(r)

Next ==
  \/ \E c \in Clients : StartCall(c) \/ ContinueCall(c) \/ WokenAlone(c)
  \/ ThreadStep \/ MediaUpdateDue \/ OnFrame \/ Encode
  \/ \E r \in Recordings : EncoderStep(r)

Spec == Init /\ [][Next]_vars

(* Every thread runs, and a delayed message is due some time.  No          *)
(* application has to call anything.                                       *)
FairSpec ==
  /\ Spec
  /\ \A c \in Clients : WF_vars(ContinueCall(c))
  /\ WF_vars(ThreadStep) /\ WF_vars(MediaUpdateDue)
  /\ \A r \in Recordings : WF_vars(EncoderStep(r))

-----------------------------------------------------------------------------
(* Properties                                                              *)

(* Every variable has its type.                                            *)
TypeOK ==
  /\ cpc \in [Clients -> CPcs]
  /\ outer \in [Clients -> {"none", "stopPreview", "close", "release"}]
  /\ seen \in [Clients -> Nat] /\ calls \in [Clients -> Nat]
  /\ queue \in Seq(Messages) /\ delayed \in Nat /\ mReleased \in BOOLEAN
  /\ looper \in {"running", "quit", "ended", "died"} /\ tpc \in TPcs
  /\ msg \in Messages \cup {"none"} /\ mEncoderType \in 0 .. 2
  /\ opened \in BOOLEAN /\ mIsPreviewing \in BOOLEAN /\ mIsRecording \in BOOLEAN
  /\ preview \in Nat /\ previews \in Nat /\ closing \in [Threads -> Nat]
  /\ mMuxer \in 0 .. MaxRecordings /\ muxer \in [Threads -> 0 .. MaxRecordings]
  /\ recordings \in 0 .. MaxRecordings /\ feed \in 0 .. MaxRecordings
  /\ held \in 0 .. MaxRecordings /\ late \in [Recordings -> Nat]
  /\ encoder \in [Recordings -> EncoderStates]

(* A stopPreview that was notified returns only when the preview it found  *)
(* running has ended, whatever another thread asks for meanwhile, also     *)
(* when the camera is opened again or the camera thread ends.  Excepted: a *)
(* preview whose camera an encoder's thread took in handleRelease, which   *)
(* then is about to end it; and a wait that was interrupted (seen is 0).   *)
StopWaits ==
  \A c \in Clients :
    cpc[c] = "stopped" /\ seen[c] # 0 => seen[c] \notin {preview, closing[CameraThread]}

(* The camera thread leaves nothing behind, whichever message ended it and *)
(* in whatever order the encoders answered: no camera, no preview and no   *)
(* recording, unless an encoder's thread took it and is about to end it.   *)
(* Excepted: an encoder abandoned when the preparation failed, which waits *)
(* for ever.                                                               *)
EndsClean ==
  looper \in {"quit", "ended"} =>
    /\ ~opened /\ preview = 0 /\ closing[CameraThread] = 0 /\ mMuxer = 0 /\ feed = 0
    /\ \A r \in Recordings : closing[r] # 0 => encoder[r] = "destroy"
    /\ \A r \in Recordings : encoder[r] \in {"prepared", "running"} =>
         \E e \in Recordings : encoder[e] = "stopMuxer" /\ muxer[e] = r

(* An encoder that was told to stop is nobody's mVideoEncoder any more,    *)
(* and gets at most one picture, the one onFrame had in its hands, however *)
(* recordings follow each other and encoders answer late.                  *)
InHand(r) == IF held = r /\ encoder[r] \notin Unstopped THEN 1 ELSE 0
OneLatePicture ==
  /\ feed # 0 => encoder[feed] \in Unstopped
  /\ \A r \in Recordings : late[r] + InHand(r) <= 1

(* The camera thread uses mUVCCamera without the lock, and never finds it  *)
(* cleared after it has looked, unless an encoder's thread runs or ran     *)
(* handleRelease.                                                          *)
CameraKept ==
  looper = "died" => \E r \in Recordings : encoder[r] \in Releasing

(* A thread that waits in stopPreview is notified, also when another's     *)
(* message or the end of the camera thread comes first.  Excepted: the     *)
(* preview or the thread ended between its question and its wait.          *)
Answerable(c) ==
  cpc[c] = "waiting" /\ looper = "running" /\ mIsPreviewing
  /\ \E k \in DOMAIN queue : queue[k] = "stop"
StopReturns == \A c \in Clients : Answerable(c) ~> (cpc[c] # "waiting" \/ ~Alive)

(* A camera thread told to release ends, however late the encoders answer. *)
(* Excepted: mIsRecording is set and no encoder is left to clear it (the   *)
(* preparation failed, or MediaVideoBufferEncoder was used); the thread    *)
(* waits for a message that an encoder, having lost its muxer or its view, *)
(* did not send; it died.                                                  *)
Unanswered ==
  mIsRecording /\ \A r \in Recordings :
                   encoder[r] \in {"none", "abandoned", "stopped"} \cup Silent
Unresumed ==
  /\ tpc = "idle" /\ queue = <<>> /\ delayed = 0
  /\ \E r \in Recordings : encoder[r] \in Silent
ReleaseEnds ==
  (\E k \in DOMAIN queue : queue[k] = "release")
    ~> (looper \in {"ended", "died"} \/ Unanswered \/ Unresumed)

=============================================================================
