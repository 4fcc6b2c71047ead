------------------------------ MODULE Recording ------------------------------
(***************************************************************************)
(* One recording: MediaMuxerWrapper, its encoders (MediaEncoder and its    *)
(* four subclasses) and the threads around them.  The camera thread adds,  *)
(* prepares, starts and stops the encoders one after the other; each       *)
(* encoder's own thread drains its codec into the muxer; a source (the     *)
(* microphone thread, the frame callback, the renderer or the preview's    *)
(* capture thread) gives the codec frames and announces them.              *)
(*                                                                         *)
(* What a thread does inside one synchronized section is one action.  The  *)
(* codec is modelled by what MediaCodec promises: it reports its format    *)
(* once, before its first output, and may be late with anything.           *)
(***************************************************************************)
EXTENDS Integers, FiniteSets

CONSTANTS
  NumEncoders,  (* the muxer's encoders: 1 is the video, 2 the audio encoder*)
  EncodeSrcs,   (* the choices of encodeSrc for all encoders: 0 is          *)
                (* MediaSurfaceEncoder, 1 MediaAudioEncoder, 2              *)
                (* MediaVideoEncoder, 3 MediaVideoBufferEncoder             *)
  MayFail,      (* "codec": no codec is found; "prepare": IOException;      *)
                (* "collect": the garbage collector runs                    *)
  MaxFrames     (* bound: frames each source produces                       *)

Encoders == 1 .. NumEncoders

ASSUME RecordingAssumption ==
  /\ NumEncoders \in Nat \ {0}
  /\ EncodeSrcs \subseteq [Encoders -> 0 .. 3]
  /\ MaxFrames \in [Encoders -> Nat]

VARIABLES
  step, turn,          (* the camera thread: its step, and for which encoder*)
  encodeSrc,
  mEncoderCount, mStatredCount, mIsStarted,   (* MediaMuxerWrapper          *)
  collected,           (* the wrapper, which encoders hold by weak          *)
                       (* references, and its MediaMuxer were collected     *)
  file,                (* the MediaMuxer: "open", "started" or "stopped"    *)
  samples,             (* the samples it was given of each track            *)
  mIsCapturing, mRequestStop, mRequestDrain, mMuxerStarted, (* MediaEncoder *)
  pc,                  (* each encoder's thread                             *)
  drainPc,             (* where it is inside drain                          *)
  codec,               (* of each codec: frames inside, format reported,    *)
                       (* end of stream signalled, still there              *)
  source,              (* what each source does next with its frame         *)
  fed,                 (* frames each source has produced                   *)
  crashed              (* an exception nobody catches ended the process     *)

camera  == <<step, turn, encodeSrc>>
muxer   == <<mEncoderCount, mStatredCount, mIsStarted, collected, file, samples>>
flags   == <<mIsCapturing, mRequestStop, mRequestDrain, mMuxerStarted>>
threads == <<pc, drainPc>>
inputs  == <<source, fed>>
vars == <<camera, muxer, flags, threads, codec, inputs, crashed>>

Steps == {"add", "prepare", "start", "recording", "stop", "stopped", "failed"}
Pcs == {"none", "check", "park", "blocked", "drain", "lastDrain", "signal",
        "eosDrain", "release", "unmux", "exit", "exited"}
Draining == {"drain", "lastDrain", "eosDrain"}
DrainPcs == {"poll", "start", "wait"}
Codecs == [frames : Nat, format : BOOLEAN, eos : BOOLEAN, alive : BOOLEAN]

Init ==
  /\ step = "add" /\ turn = 1 /\ encodeSrc \in EncodeSrcs
  /\ mEncoderCount = 0 /\ mStatredCount = 0 /\ mIsStarted = FALSE
  /\ collected = FALSE /\ file = "open" /\ samples = [e \in Encoders |-> 0]
  /\ mIsCapturing = [e \in Encoders |-> FALSE]
  /\ mRequestStop = [e \in Encoders |-> FALSE]
  /\ mRequestDrain = [e \in Encoders |-> 0]
  /\ mMuxerStarted = [e \in Encoders |-> FALSE]
  /\ pc = [e \in Encoders |-> "none"]
  /\ drainPc = [e \in Encoders |-> "poll"]
  /\ codec = [e \in Encoders |-> [frames |-> 0, format |-> FALSE, eos |-> FALSE,
                                  alive |-> FALSE]]
  /\ source = [e \in Encoders |-> "idle"] /\ fed = [e \in Encoders |-> 0]
  /\ crashed = FALSE

(* mSync.notifyAll().                                                      *)
Woken(e) == IF pc[e] = "blocked" THEN "check" ELSE pc[e]
Notify(e) == pc' = [pc EXCEPT ![e] = Woken(e)]

-----------------------------------------------------------------------------
(* The camera thread.                                                      *)

(* It does one step for each encoder in turn, then goes on to the next.    *)
ForEach(e, now, next) ==
  /\ ~crashed /\ step = now /\ turn = e
  /\ step' = IF e = NumEncoders THEN next ELSE now
  /\ turn' = IF e = NumEncoders THEN 1 ELSE e + 1
  /\ UNCHANGED encodeSrc

(* The constructor adds the encoder to the muxer, starts its thread and    *)
(* waits until that has reset its requests.                                *)
AddEncoder(e) ==
  /\ ForEach(e, "add", "prepare")
  /\ mEncoderCount' = mEncoderCount + 1
  /\ pc' = [pc EXCEPT ![e] = "check"]
  /\ mRequestStop' = [mRequestStop EXCEPT ![e] = FALSE]
  /\ mRequestDrain' = [mRequestDrain EXCEPT ![e] = 0]
  /\ UNCHANGED <<mStatredCount, mIsStarted, collected, file, samples, mIsCapturing,
                 mMuxerStarted, drainPc, codec, inputs, crashed>>

(* Without a suitable codec prepare returns early.                         *)
Prepare(e) ==
  /\ ForEach(e, "prepare", "start")
  /\ mMuxerStarted' = [mMuxerStarted EXCEPT ![e] = FALSE]
  /\ \E found \in {TRUE} \cup (IF "codec" \in MayFail THEN {FALSE} ELSE {}) :
        codec' = [codec EXCEPT ![e].alive = found]
  /\ UNCHANGED <<muxer, mIsCapturing, mRequestStop, mRequestDrain, threads, inputs,
                 crashed>>

(* An IOException leaves handleStartRecording: nothing is started, and     *)
(* nobody stops the encoders' threads.                                     *)
PrepareFails(e) ==
  /\ ~crashed /\ step = "prepare" /\ turn = e /\ "prepare" \in MayFail
  /\ step' = "failed"
  /\ UNCHANGED <<turn, encodeSrc, muxer, flags, threads, codec, inputs, crashed>>

StartRecording(e) ==
  /\ ForEach(e, "start", "recording")
  /\ mIsCapturing' = [mIsCapturing EXCEPT ![e] = TRUE]
  /\ mRequestStop' = [mRequestStop EXCEPT ![e] = FALSE]
  /\ Notify(e)
  /\ UNCHANGED <<muxer, mRequestDrain, mMuxerStarted, drainPc, codec, inputs, crashed>>

(* handleStopRecording begins: the preview's capture is stopped.           *)
BeginStop ==
  /\ ~crashed /\ step = "recording" /\ step' = "stop"
  /\ UNCHANGED <<turn, encodeSrc, muxer, flags, threads, codec, inputs, crashed>>

(* A surface's codec is told that its input ends; without a codec that is  *)
(* a null pointer.                                                         *)
StopRefused(e) == ~mIsCapturing[e] \/ mRequestStop[e]
StopRecording(e) ==
  /\ ForEach(e, "stop", "stopped")
  /\ IF StopRefused(e)
     THEN UNCHANGED <<mRequestStop, pc, codec, crashed>>
     ELSE IF encodeSrc[e] = 0 /\ ~codec[e].alive
     THEN crashed' = TRUE /\ UNCHANGED <<mRequestStop, pc, codec>>
     ELSE /\ mRequestStop' = [mRequestStop EXCEPT ![e] = TRUE]
          /\ codec' = [codec EXCEPT ![e].eos = (encodeSrc[e] = 0)]
          /\ Notify(e) /\ UNCHANGED crashed
  /\ UNCHANGED <<muxer, mIsCapturing, mRequestDrain, mMuxerStarted, drainPc, inputs>>

-----------------------------------------------------------------------------
(* The sources.  A surface gets its frames from the preview, announced     *)
(* independently by the renderer; the microphone thread encodes, then      *)
(* announces; the others announce, then encode if that was accepted.       *)

InputOpen(e) ==
  \/ encodeSrc[e] = 0 /\ step \in {"prepare", "start", "recording"}
  \/ encodeSrc[e] = 1 /\ mIsCapturing[e]
  \/ encodeSrc[e] = 2 /\ source[e] = "announced"
  \/ encodeSrc[e] = 3 /\ mIsCapturing[e] /\ ~mRequestStop[e]

FeedFirst(e) == encodeSrc[e] \in {0, 1}
AnnounceFirst(e) == encodeSrc[e] # 1

(* One frame for the codec.  Once the codec is gone it is thrown away: the *)
(* exception is caught.                                                    *)
Feed(e) ==
  /\ ~crashed
  /\ \/ /\ source[e] = "idle" /\ FeedFirst(e)
        /\ InputOpen(e) /\ codec[e].alive /\ fed[e] < MaxFrames[e]
        /\ source' = [source EXCEPT ![e] = "fed"]
        /\ fed' = [fed EXCEPT ![e] = @ + 1]
     \/ /\ source[e] = "announced"
        /\ source' = [source EXCEPT ![e] = "idle"] /\ UNCHANGED fed
  /\ codec' = IF InputOpen(e) /\ codec[e].alive
              THEN [codec EXCEPT ![e].frames = @ + 1] ELSE codec
  /\ UNCHANGED <<camera, muxer, flags, threads, crashed>>

(* frameAvailableSoon.                                                     *)
Accepting(e) == mIsCapturing[e] /\ ~mRequestStop[e]
Announce(e) ==
  /\ ~crashed
  /\ \/ /\ source[e] = "idle" /\ AnnounceFirst(e) /\ Accepting(e) /\ fed[e] < MaxFrames[e]
        /\ source' = [source EXCEPT ![e] = "announced"]
        /\ fed' = [fed EXCEPT ![e] = @ + 1]
     \/ /\ source[e] = "fed"
        /\ source' = [source EXCEPT ![e] = "idle"] /\ UNCHANGED fed
  /\ IF Accepting(e)
     THEN mRequestDrain' = [mRequestDrain EXCEPT ![e] = @ + 1] /\ Notify(e)
     ELSE UNCHANGED <<mRequestDrain, pc>>
  /\ UNCHANGED <<camera, muxer, mIsCapturing, mRequestStop, mMuxerStarted, drainPc,
                 codec, crashed>>

-----------------------------------------------------------------------------
(* An encoder's thread, MediaEncoder.run.                                  *)

Goto(e, from, to) == ~crashed /\ pc[e] = from /\ pc' = [pc EXCEPT ![e] = to]

(* The first section under mSync reads the requests and takes one of them. *)
Check(e) ==
  /\ Goto(e, "check", CASE mRequestStop[e]          -> "lastDrain"
                        [] mRequestDrain[e] > 0
                           /\ ~mRequestStop[e]      -> "drain"
                        [] OTHER                    -> "park")
  /\ mRequestDrain' = [mRequestDrain EXCEPT ![e] = IF @ > 0 THEN @ - 1 ELSE 0]
  /\ UNCHANGED <<camera, muxer, mIsCapturing, mRequestStop, mMuxerStarted, drainPc,
                 codec, inputs, crashed>>

(* The second one waits, without looking at the requests again.            *)
Park(e) ==
  /\ Goto(e, "park", "blocked")
  /\ UNCHANGED <<camera, muxer, flags, drainPc, codec, inputs, crashed>>

(* Inside the loop of drain, which holds the muxer by a local variable.    *)
Polling(e) ==
  /\ ~crashed /\ ~collected /\ pc[e] \in Draining /\ drainPc[e] = "poll"
  /\ mIsCapturing[e] /\ codec[e].alive

(* INFO_OUTPUT_FORMAT_CHANGED: the track is added ...                      *)
DrainFormat(e) ==
  /\ Polling(e) /\ codec[e].frames > 0 /\ ~codec[e].format
  /\ codec' = [codec EXCEPT ![e].format = TRUE]
  /\ mMuxerStarted' = [mMuxerStarted EXCEPT ![e] = TRUE]
  /\ drainPc' = [drainPc EXCEPT ![e] = "start"]
  /\ UNCHANGED <<camera, muxer, mIsCapturing, mRequestStop, mRequestDrain, pc, inputs,
                 crashed>>

(* ... and the muxer is started by the encoder that comes last.            *)
(* Mutant: the first encoder starts the muxer.                             *)
FirstStarted(count) == mEncoderCount > 0 /\ count > 0

AllStarted(count) == mEncoderCount > 0 /\ count = mEncoderCount
MuxerStart(e) ==
  /\ ~crashed /\ drainPc[e] = "start"
  /\ mStatredCount' = mStatredCount + 1
  /\ IF AllStarted(mStatredCount')
     THEN mIsStarted' = TRUE /\ file' = "started"
     ELSE UNCHANGED <<mIsStarted, file>>
  /\ drainPc' = [drainPc EXCEPT ![e] = IF mIsStarted' THEN "poll" ELSE "wait"]
  /\ UNCHANGED <<camera, mEncoderCount, collected, samples, flags, pc, codec, inputs,
                 crashed>>

(* The others wait for it, 100 ms at a time.                               *)
(* Mutant: they wait for the count instead of the flag.                    *)
AllCounted == mStatredCount = mEncoderCount

IsStarted == mIsStarted
MuxerReady(e) ==
  /\ ~crashed /\ drainPc[e] = "wait" /\ IsStarted
  /\ drainPc' = [drainPc EXCEPT ![e] = "poll"]
  /\ UNCHANGED <<camera, muxer, flags, pc, codec, inputs, crashed>>

(* Encoded data; MediaMuxerWrapper.writeSampleData.                        *)
DrainData(e) ==
  /\ Polling(e) /\ codec[e].frames > 0 /\ codec[e].format
  /\ codec' = [codec EXCEPT ![e].frames = @ - 1]
  /\ samples' = IF mStatredCount > 0 THEN [samples EXCEPT ![e] = @ + 1] ELSE samples
  /\ UNCHANGED <<camera, mEncoderCount, mStatredCount, mIsStarted, collected, file, flags,
                 threads, inputs, crashed>>

AfterDrain(p) == IF p = "drain" THEN "check" ELSE IF p = "lastDrain" THEN "signal" ELSE "release"

(* BUFFER_FLAG_END_OF_STREAM.                                              *)
DrainEos(e) ==
  /\ Polling(e) /\ codec[e].frames = 0 /\ codec[e].eos
  /\ mIsCapturing' = [mIsCapturing EXCEPT ![e] = FALSE]
  /\ pc' = [pc EXCEPT ![e] = AfterDrain(pc[e])]
  /\ UNCHANGED <<camera, muxer, mRequestStop, mRequestDrain, mMuxerStarted, drainPc,
                 codec, inputs, crashed>>

(* Not capturing, no codec, no muxer, or no output of the codec in 60 ms.  *)
DrainDone(e) ==
  /\ ~crashed /\ pc[e] \in Draining /\ drainPc[e] = "poll"
  /\ pc' = [pc EXCEPT ![e] = AfterDrain(pc[e])]
  /\ UNCHANGED <<camera, muxer, flags, drainPc, codec, inputs, crashed>>

(* encode with a length of zero: its loop is not entered.                  *)
SignalEndOfInputStream(e) ==
  /\ Goto(e, "signal", "eosDrain")
  /\ crashed' = (mIsCapturing[e] /\ ~codec[e].alive)
  /\ UNCHANGED <<camera, muxer, flags, drainPc, codec, inputs>>

(* release tells the listener (CameraHandler) that the encoder stopped ... *)
Release(e) ==
  /\ Goto(e, "release", "unmux")
  /\ mIsCapturing' = [mIsCapturing EXCEPT ![e] = FALSE]
  /\ codec' = [codec EXCEPT ![e].alive = FALSE]
  /\ UNCHANGED <<camera, muxer, mRequestStop, mRequestDrain, mMuxerStarted, drainPc,
                 inputs, crashed>>

(* ... and stops the muxer: the last encoder finishes the file.            *)
(* Mutants: every encoder stops it; the file is finished by the first, or  *)
(* by none.                                                                *)
Always(e) == TRUE
FirstLeft(count) == mEncoderCount > 0 /\ count <= 1
NeverLeft(count) == mEncoderCount > 0 /\ count < 0

HasStarted(e) == mMuxerStarted[e]
NoneLeft(count) == mEncoderCount > 0 /\ count <= 0
MuxerStop(e) ==
  /\ Goto(e, "unmux", "exit")
  /\ IF HasStarted(e) /\ ~collected
     THEN /\ mStatredCount' = mStatredCount - 1
          /\ IF NoneLeft(mStatredCount')
             THEN file' = "stopped" /\ mIsStarted' = FALSE
             ELSE UNCHANGED <<file, mIsStarted>>
     ELSE UNCHANGED <<mStatredCount, file, mIsStarted>>
  /\ UNCHANGED <<camera, mEncoderCount, collected, samples, flags, drainPc, codec, inputs,
                 crashed>>

Exit(e) ==
  /\ Goto(e, "exit", "exited")
  /\ mRequestStop' = [mRequestStop EXCEPT ![e] = TRUE]
  /\ mIsCapturing' = [mIsCapturing EXCEPT ![e] = FALSE]
  /\ UNCHANGED <<camera, muxer, mRequestDrain, mMuxerStarted, drainPc, codec, inputs,
                 crashed>>

(* After handleStopRecording nobody but a thread inside drain holds the    *)
(* muxer: the collector may take it before the encoders have stopped it.   *)
Collect ==
  /\ ~crashed /\ ~collected /\ step \in {"stopped", "failed"} /\ "collect" \in MayFail
  /\ \A e \in Encoders : pc[e] \notin Draining
  /\ collected' = TRUE
  /\ UNCHANGED <<camera, mEncoderCount, mStatredCount, mIsStarted, file, samples, flags,
                 threads, codec, inputs, crashed>>

EncoderStep(e) ==
  \/ Check(e) \/ Park(e)
  \/ DrainFormat(e) \/ MuxerStart(e) \/ MuxerReady(e) \/ DrainData(e) \/ DrainEos(e)
  \/ DrainDone(e)
  \/ SignalEndOfInputStream(e) \/ Release(e) \/ MuxerStop(e) \/ Exit(e)

CameraStep(e) ==
  AddEncoder(e) \/ Prepare(e) \/ PrepareFails(e) \/ StartRecording(e) \/ StopRecording(e)

Next ==
  \/ BeginStop \/ Collect
  \/ \E e \in Encoders : CameraStep(e) \/ Feed(e) \/ Announce(e) \/ EncoderStep(e)

Spec == Init /\ [][Next]_vars

(* Every thread of the program runs.  Nothing makes the user stop the      *)
(* recording, or a source produce frames.                                  *)
FairSpec ==
  /\ Spec
  /\ \A e \in Encoders : WF_vars(CameraStep(e)) /\ WF_vars(EncoderStep(e))

-----------------------------------------------------------------------------
(* Properties                                                              *)

(* Every variable has its type.                                            *)
TypeOK ==
  /\ step \in Steps /\ turn \in Encoders /\ encodeSrc \in [Encoders -> 0 .. 3]
  /\ mEncoderCount \in Nat /\ mStatredCount \in Nat /\ mIsStarted \in BOOLEAN
  /\ collected \in BOOLEAN
  /\ file \in {"open", "started", "stopped"} /\ samples \in [Encoders -> Nat]
  /\ mIsCapturing \in [Encoders -> BOOLEAN] /\ mRequestStop \in [Encoders -> BOOLEAN]
  /\ mRequestDrain \in [Encoders -> Nat] /\ mMuxerStarted \in [Encoders -> BOOLEAN]
  /\ pc \in [Encoders -> Pcs] /\ drainPc \in [Encoders -> DrainPcs]
  /\ codec \in [Encoders -> Codecs]
  /\ source \in [Encoders -> {"idle", "fed", "announced"}] /\ fed \in [Encoders -> Nat]
  /\ crashed \in BOOLEAN

(* The encoders that count in mStatredCount.                               *)
Ended(e) == pc[e] \in {"exit", "exited"}
Muxing == {e \in Encoders : mMuxerStarted[e] /\ drainPc[e] # "start" /\ ~Ended(e)}

(* The count is that of the encoders that started the muxer and have not   *)
(* stopped it; the file is started once that was all of them, and finished *)
(* when none is left.  Otherwise addTrack would throw, a sample would be   *)
(* lost or a sample written to a file that is not started.                 *)
MuxerCount ==
  /\ ~collected => mStatredCount = Cardinality(Muxing)
  /\ mIsStarted <=> file = "started"
  /\ file # "open" => \A e \in Encoders : mMuxerStarted[e] /\ drainPc[e] # "start"
  /\ file = "stopped" => Muxing = {}
  /\ file = "started" => Muxing # {} \/ collected

(* The file is used as MediaMuxer demands (MuxerFile): whatever the order  *)
(* in which the encoders' threads start, write and end.                    *)
File == INSTANCE MuxerFile WITH
          phase <- IF collected /\ file # "stopped" THEN "lost" ELSE file,
          tracks <- {e \in Encoders : mMuxerStarted[e]},
          ended <- {e \in Encoders : mMuxerStarted[e] /\ Ended(e)}
ImplementsMuxerFile == File!Spec

(* stopRecording leaves the rest to the encoders' threads: once every one  *)
(* has been asked to stop, a started file is finished.  Excepted: a thread *)
(* asked between its two sections under mSync, which then waits for ever   *)
(* (MediaEncoder.java:165), and a muxer that was collected.                *)
Heard(e) == mRequestStop[e] /\ pc[e] \notin {"park", "blocked"}
FileFinished ==
  file = "started" /\ (\A e \in Encoders : Heard(e))
    ~> file = "stopped" \/ crashed \/ collected

(* No encoder waits for the muxer once all of them have their track, also  *)
(* when another has ended meanwhile.                                       *)
WaitersReleased ==
  \A e \in Encoders :
    drainPc[e] = "wait" /\ (\A d \in Encoders : mMuxerStarted[d])
      ~> drainPc[e] = "poll" \/ crashed
=============================================================================
