# A verification project for UVCCamera

TLA+ models of the USB camera stack in this repository, checked with TLC and proved
about with TLAPS. Paths below are relative to the repository; `jni/` stands for
`src/zxcam/src/main/jni/`.

## 1. The system

| Component | State | Operations | Interacts with | What is hard |
|---|---|---|---|---|
| **UVCPreview** `jni/UVCCamera/UVCPreview.cpp` | run and capture flags, preview queue, one-frame capture queue, frame pool, two windows, the Java callback | set windows and callback, start, stop, libuvc's frame callback, preview thread, capture thread | libuvc calls it; it starts threads; calls `onFrame` | four kinds of threads, flags read outside the mutexes, signals without a predicate loop, thread handles joined before they are set |
| **libuvc stream** `jni/libuvc/src/stream.c` | transfers in flight, assembly buffer, hold buffer, sequence numbers, `running` | start, stop, close, transfer callback, callback thread, polling `get_frame` | libusb's event thread; UVCPreview | double buffer shared by two threads, lost device, failed resubmission |
| **libuvc device** `jni/libuvc/src/device.c`, `init.c` | reference counts, open handles, status transfer, event thread | open, close, ref, unref, exit | UVCCamera, libusb | counts without a lock, close while the status transfer is pending |
| **UVCCamera (native) and JNI** | device handle, the UVCPreview, status and button callbacks | connect, release, preview and capture methods, controls | Java facade, libuvc | order of release |
| **UVCCamera.java** | native pointer, control block, current size | open, close, start and stop of preview and capture | USBMonitor, handler thread | methods that are not synchronized |
| **USBMonitor.java** | control blocks, attached devices, permission receiver | register, unregister, request permission, poll, attach and detach | Android USB service, listeners | broadcasts, poll and listener on different threads |
| **Camera handler** `AbstractUVCCameraHandler.java` | message queue, camera thread, callbacks | open, close, start and stop of preview, capture and recording | UVCCamera, encoders | one wait on a monitor for a message to be handled |
| **Recording** `encoder/` | muxer start count, encoder request count | prepare, start, stop, drain, frame available | handler, platform codecs | start barrier of two encoders, end of stream |
| **Camera service** `CameraServer.java`, `UVCService.java` | servers by device, bound callbacks, reference counts | connect, select, add and remove surface, disconnect | clients over AIDL | clients that die, maps changed while walked |
| Buffered pipelines `jni/UVCCamera/pipeline/` | queue and pool per stage | start, stop, queue, handle | - | not part of the build |
| Parameters, controls, pixel converters | none shared | sequential | - | - |
| Applications, widgets, samples, vendored libraries | - | - | - | user interface or third-party code |

Pictures flow from libusb's event thread (`stream.c` assembles payloads into a frame and
swaps it into the hold buffer) to libuvc's callback thread (`uvc_preview_frame_callback`
copies it into a frame of the pool and queues it) to the preview thread (paints it) to
the capture thread (recording surface and `IFrameCallback.onFrame`). The application's
threads start, stop and reconfigure all this while it runs.

Which properties make each component correct:

- *UVCPreview*: each frame has exactly one owner; memory does not grow; `stopPreview`
  returns and leaves nothing behind; no picture of one session shows up in the next;
  pictures arrive in order, at most once; the old callback is not used after
  `setFrameCallback` returned; no wakeup is lost.
- *stream*: a frame handed out is the one the camera completed last, in order, at most
  once; after stop no transfer is pending and no callback runs; stop returns.
- *device*: a device is freed exactly when the last reference goes; no callback after
  close.
- *USBMonitor*: connect and disconnect callbacks alternate per device; the control block
  found for a device is the open one.
- *handler*: the camera is used by the camera thread only; stop and close return.
- *recording*: the muxer is started once, after every encoder added its track, and
  stopped once, after every encoder ended; no encoder writes outside that window.
- *service*: a camera is open exactly while a client needs it.

`PROJECT.json` lists the hazards behind these properties at their lines.

## 2. Modules

| Module | Models |
|---|---|
| `UVCPreview` | `UVCPreview.cpp`, with the JNI calls that feed it |
| `FrameChannel` | the abstract promise: a channel that may lose pictures, keeps the order of the others and repeats none; those on their way are a set of numbers, of which the least arrives next |
| `MCUVCPreview` | instances for TLC (symmetry of the frames) |
| `UVCPreviewProofs` | types, the ownership of frames, stopping, sleeping and waking in `UVCPreview` |
| `UVCPreviewMemoryProofs` | the bounds on frames |
| `UVCPreviewOrderProofs` | which picture is where: across sessions, and in order within one |
| `UVCStream` | the streaming half of libuvc, `stream.c` |
| `FrameSource` | the abstract promise: frames in order, one call of the user's function at a time, none after stop |
| `MCUVCStream` | instances for TLC (what the camera sends) |
| `UVCStreamProofs` | theorems about `UVCStream` |
| `CameraHandler` | the message queue and camera thread of `AbstractUVCCameraHandler.java` |
| `MCCameraHandler` | instances for TLC (what each thread of the application calls) |
| `CameraHandlerProofs` | theorems about `CameraHandler` |
| `Recording` | `MediaMuxerWrapper.java`, `MediaEncoder.java` and its four subclasses: one recording |
| `MuxerFile` | the abstract promise: a file started once every track is there, written while started, finished once |
| `MCRecording` | instances for TLC (which encoders record) |
| `RecordingProofs` | theorems about `Recording` |
| `UVCDevice` | opening and closing: `UVCCamera.cpp` and `UVCCamera.java`, `device.c` and `init.c` of libuvc, the status and button callbacks |
| `CameraEvents` | the abstract promise: events reach the object that is set while the camera is open, one at a time |
| `MCUVCDevice` | instances for TLC (what may fail) |
| `UVCDeviceProofs` | theorems about `UVCDevice` |

`UVCPreview` sits on `FrameSource` and `UVCStream` implements it: between
`uvc_start_streaming` and `uvc_stop_streaming` frames are shown with rising numbers by
one thread, and when the latter returns that thread is gone. The two detailed modules
are checked apart; `FrameSource` is what one assumes and the other is shown to do.
`CameraHandler` and `Recording` meet in the same way: the former has of an encoder only
the order to stop and its call of `onStopped`, the latter everything between, and of the
camera thread only the calls that make, prepare, start and stop the encoders.
`UVCDevice` is around `UVCPreview` and `UVCStream`: they run between its opening and its
closing, which come after `stopPreview`.

### UVCPreview

Variables carry the names of the fields they stand for. What has no field in the code:

- a frame is a model value; `content` gives the number of the picture in it (pictures
  are numbered as libuvc delivers them), `live` the frames that are allocated, `hold`
  the local variable of each thread that points to a frame;
- `apiPc`, `cbPc`, `pvPc` and `cpPc[t]` are the places in the code where the
  application's thread, libuvc's callback thread, the preview thread and the capture
  thread of session `t` are. A capture thread may outlive its session (the handle joined
  may not be its own), so each session has one;
- `captureLock` is set while the application's thread is between two actions inside
  `capture_mutex`. Every other section under a mutex that does not wait is one action,
  so the mutex needs no variable;
- `windowRefs` counts the references the native code holds on a window.

Each call of a public method begins with an action (`setPreviewDisplay`, `startPreview`,
`stopPreview`, `setFrameCallback`, `setCaptureDisplay`, and `release`, which is
`stopPreview` followed by the destructor) and goes on through the actions of `ApiStep`,
one per critical section, unlocked access to a flag, signal, join or wait.
`CallbackStep`, `PreviewStep` and `CaptureStep` are the threads in the same way.
`pthread_cond_wait` is two actions, blocking and being woken, and `SpuriousWakeup` wakes
without a signal, as POSIX allows.

The flags `mIsRunning` and `mIsCapturing` are volatile and read and written outside
every mutex: each read that decides something is an action of its own. In
`do_capture_surface` and `do_capture_callback` the code uses `mCaptureWindow` and
`mFrameCallbackObj` without `capture_mutex`; so do `CpPost`, `CpInvoke`,
`CpReleaseWindow` and `CpForgetWindow`.

Assumptions about code outside `UVCPreview.cpp`:

- the public methods are called one at a time. The code does not enforce this for all of
  them: `setFrameCallback`, `startCapture` and `stopCapture` of `UVCCamera.java` take no
  monitor, and `onStopped` calls `stopCapture` on an encoder's thread. Two of them at the
  same time are not modelled, and what they do is not claimed anything of;
- `uvc_stop_streaming` returns after libuvc's callback thread ended (`StopStreaming`).
  `stream.c` does this unless the device was lost or refused a transfer before: that is
  `StreamIsSource` below, and finding 5 is the exception;
- once a window was released more often than acquired (which the code can do, see the
  findings) or the object was deleted, what follows is undefined and not followed:
  `Calls` and `CpAt` stop there.

### UVCStream

Three threads share a `uvc_stream_handle`: the one that starts and stops (`apiPc`),
libusb's event thread inside `_uvc_stream_callback` (`evPc`), and `_uvc_user_caller`
(`cbPc`). Variables carry the names of the fields; what has no field of that name:

- `transfers[t]` says where a transfer is: allocated, with libusb, cancelled, in its
  callback, `stranded` when libusb refused to take it back, or `null`;
- a packet is its position in `Packets`, the sequence the camera sends, and `sent`
  counts those that are gone; `outbuf`, `holdbuf` and `frame.data` are sequences of
  packets, so that a frame shows what it is made of. `got_bytes` is the length of
  `outbuf`, and all packets have the same size;
- `frame.seq` is the number under which the picture in `strmh->frame` was held, `shown`
  the number of the last one given to the user's function;
- `isochronous` is the mode found while starting. Both parsers are one pair of actions,
  `ReceivePacket` (header) and `AppendPacket` (data and end-of-frame bit), with the
  differences between them stated where they are: only bulk has the boundary check and
  ignores the end-of-frame bit of a payload without data;
- a bulk payload whose header is shorter than two bytes is an action of its own
  (`HeaderlessPayload`): its frame ID is not looked at (`stream.c:748`) and its data is
  appended all the same. `bare` remembers which packets came so. Of an isochronous packet
  the header is always read (iSight cameras, not modelled, apart).

Between taking `cb_mutex` and leaving it a thread is one action; waiting ends it.
`running` is accessed without the mutex by all three threads: `CloseStream` and
`StopStream` read it one after the other, `Decide` reads it and `Resubmit` acts on it,
and `_uvc_user_caller` goes to sleep on it. `CallUser` reads `hold_bfh_err` again after
`WaitForFrame` left the mutex, as the code does.

What goes wrong outside is an input, chosen by `MayFail`: packets lost (`LosePacket`),
broken, without a header, without data, without the end-of-frame bit, or empty; a start that finds no
usable format or endpoint; transfers that end with an error, are refused, or time out;
the device pulled out (`Unplug`). An isochronous packet of no bytes is not skipped
(`stream.c:890-894`): the header read is whatever the buffer held, so `EmptyPacket`
takes any frame ID and end-of-frame bit.

Assumptions about code outside `stream.c`:

- libusb calls back from one thread, once for each transfer it accepted, also for a
  cancelled one, whose status may still be any;
- the camera toggles the frame ID bit with each picture (the assumption is in `Packets`,
  not in the module);
- what a thread does with a handle that was freed under it is undefined and not
  followed: actions of the event and callback threads need `open`, and a stream is
  opened again only if nothing was left of the one before.

### CameraHandler

Threads of the application (`Clients`) call the handler's methods at the same time;
`cpc[c]` is where each is, `outer[c]` the method it began with (`close` and `release`
call `stopPreview`), `calls[c]` how many it made. The camera thread is `looper` (its
message loop), `msg` (the message it handles) and `tpc` (where in it); its loop has
"died" when it met an exception that nobody catches, which ends the process and with it
the behaviour. `queue` is its
message queue, without the messages that are due later, of which only `MSG_MEDIA_UPDATE`
exists (`delayed`). One block `synchronized (mSync)` is one action, and so is each
access outside it that another thread can come before: `CheckPreviewing` asks,
`LockAndWait` sends and waits, `WokenAlone` ends the wait without a notification (an
interrupt, or a spurious wakeup: the code looks at nothing afterwards);
`handleStartPreview` asks for a camera (`HandleStartPreview`), starts it (`StartCamera`)
and then sets the flag (`PreviewStarted`).

The camera thread is not alone with the camera. `onStopped` runs on the encoder's thread
(`EncoderStep`): it clears `mIsRecording`, stops the feeding and sends
`MSG_MEDIA_UPDATE`. If the muxer was collected there is no output path, no message is
sent (`NoOutputPath`), and in a handler that was released, or whose activity is gone,
that thread runs `handleRelease` itself, at the same time as the camera thread
(`ReleaseRecording` to `ReleaseFinish`). It takes `mMuxer` and `mUVCCamera` under
`mSync`, as `handleStopRecording` and `handleClose` do (`TakeMuxer`, `TakeCamera`; the
local variables of either thread are `muxer[t]` and `closing[t]`), and its
`Looper.myLooper().quit()` fails, since it has no looper. The camera thread reads
`mUVCCamera` without the lock: `UseCamera` is such a use, which kills it if the camera
was taken. If the view is gone `setVideoEncoder` throws, and `onStopped` ends there.

`onFrame` is two actions, as its two halves are in the code: `OnFrame` reads
`mVideoEncoder` under `mSync`, `Encode` gives it the picture (`held` is the local variable).

What has no field: `preview` numbers the preview that libUVCCamera runs, so that
`seen[c]` can say which one a waiting `stopPreview` found; `feed` is the recording whose
video encoder is given pictures, by `startCapture`, by the frame callback or by the
renderer, whichever its kind uses; `late[r]` counts the pictures it was given after it
was told to stop; `encoder[r]` is what is left of the video encoder of recording `r`, and
where its thread is in `onStopped`.

`handleClose` and `handleStopRecording` are not messages only: `handleOpen`,
`handleClose` and `handleRelease` begin with them, so one chain of actions serves all
(`FirstStep`, `AfterStopRecording`, `AfterClose`).

Assumptions about code outside the file: `UVCCamera`'s methods return (what they do is
`UVCPreview`); opening may fail and leave no usable device, which the code does not look
at; an encoder told to stop calls `onStopped` (`Recording` has when it does not).
Merged: reading `mUVCCamera` and the call on it are one step (a call on a camera that was
destroyed in between does nothing); `setVideoEncoder(null)` and `stopCapture` are one step
with the section before them, also in `StopFeeding`; of `onFrame` one call at a time.

### Recording

One recording, from the construction of the wrapper to the end of its encoders' threads.
The camera thread's `step` and `turn` go over the encoders as `MediaMuxerWrapper` does
(`AddEncoder`, `Prepare`, `StartRecording`, `StopRecording`). An encoder's thread is at
`pc[e]`, and inside `drain` also at `drainPc[e]`; `MediaEncoder.run` takes its requests
in one section under `mSync` (`Check`) and waits in another (`Park`), as in the code.
`source[e]` is the thread that gives encoder `e` its frames: the microphone's thread
encodes first and announces then, the video encoders fed by calls announce first, a
surface is filled by the renderer (`Feed`, `Announce`). `file` and `samples` are what
the platform's `MediaMuxer` was told, `collected` that the garbage collector took the
wrapper, which encoders hold by a weak reference.

Variables without `[e]` are the wrapper's, the others each encoder's, under the names of
the fields. Assumptions about code outside `src/`: `MediaCodec` reports its format once,
before its first output, and can be late with anything, so that every `drain` may end
early (`DrainDone`); it signals the end of the stream on its output only after that of a
surface was signalled on its input. `MediaMuxer` is `MuxerFile`: that it throws when
used in another order is what the refinement excludes.

### UVCDevice

Three kinds of threads. One method of `UVCCamera.java` at a time is under its monitor
(`apiPc`): `open` goes through `Connect`, `OpenDevice`, `SubmitStatus`, `SpawnHandler`
and `NewCallback`, `close` and `destroy` through `Close`, `DeleteCallback`, and the
steps of `uvc_close` and `libusb_close`, to `UnrefDevice`. libuvc's event thread (`hpc`)
polls, takes the status transfer and calls Java. `Clients` set the callbacks, for which
the Java methods take no lock. Pointers are flags here (`mDeviceHandle`, `mContext`),
except those that may point to something deleted: a native callback object has the
number of the opening that made it, so that `status_cb[k] = callback[k]` says that what
the handle points to still exists. What has no field: `ref` is the count of the
`uvc_device_t`; `descriptors` are the duplicates of the file descriptor that are open;
`wild` is the thread that used something deleted, after which nothing is followed.

The loop of the event thread follows libusb's, because closing depends on it:
`libusb_close` sets `pollfd_modify` and interrupts the poll, the event thread either
polls under the events lock (`poll`) or waits until the closing is done (`waiter`,
`waiting`), and `kill_handler_thread` is looked at only between two rounds
(`CheckKill`). Mutexes that a thread keeps over several actions are derived from where
it is (`HoldsEvents`, `HoldsStatus`, `HoldsObject`).

Assumptions about code outside these files: a Java callback does not set callbacks
itself (the mutex of the native object is not recursive); joining an event thread that
was never created, whose handle `pthread_create` did not set, returns (`JoinHandler`;
neither result is looked at in the code); the control block that `open`
clones keeps its descriptor (it is USBMonitor's); a call that is refused (a camera that
is open already, or destroyed) is no step. `MayFail` chooses the failures: of the
context, the search, the opening, the claim or the submission, the creation of the
thread; a camera without a status endpoint; a transfer that ends or is refused; a Java
callback that calls a synchronized method.

## 3. Runs

| Run | Question | Result |
|---|---|---|
| `preview_sessions` | two sessions and the release of the camera, with failing negotiation, streaming and thread creation and spurious wakeups: `TypeOK`, `FrameOwnership`, `MemoryBound`, `StopQuiesces`, `FreshFrames`, `NoWakeupLost` | hold (651,114 states) |
| `preview_capture` | callback and capture window replaced at any moment while frames flow and allocation, copy and conversion may fail: `FrameOwnership`, `MemoryBound`, and `ImplementsChannel`, the refinement of `FrameChannel` | hold |
| `preview_liveness` | queued frames are taken while the preview runs: `PreviewFramesDrain`, `CaptureFrameDrains` under fairness | hold |
| `preview_stop` | `StopReturns`: does `stopPreview` return? | violated |
| `preview_callback` | `CallbackOutlivesCall`: is the old callback unused once `setFrameCallback` went on? | violated |
| `preview_recording` | `RecordingContinues`: does a capture window stay until it is replaced or the preview stops? | violated |
| `stream` | bulk and isochronous streams of two pictures with every failure, payloads without a header among them: `TypeOK`, `FrameIntegrity`, `StopDrains`, `NoWakeupLost`, `ImplementsSource` (the refinement of `FrameSource`); held frames are looked at, and closing ends: `FramesReachCaller`, `CloseReturns` under fairness | hold (530,964 states) |
| `stream_stale` | `ShownOnce`: is each frame given to the user at most once? | violated |
| `stream_unplug` | `CloseEndsThreads`: does `uvc_stop_streaming` always end the threads? | violated |
| `recording` | a video encoder of each kind together with the audio encoder, short of a codec, failing to prepare, or with the muxer collected: `TypeOK`, `MuxerCount`, `ImplementsMuxerFile` (the refinement of `MuxerFile`); a started file is finished and nobody waits for a start that has happened: `FileFinished`, `WaitersReleased` under fairness | hold |
| `handler` | one thread uses the camera, one stops, closes or releases it, with failing opening, sizes and preparation, interrupted waits, and two recordings whose encoders answer late or find the muxer or the view gone: `TypeOK`, `StopWaits`, `EndsClean`, `OneLatePicture`, `CameraKept`, and `StopReturns`, `ReleaseEnds` under fairness | hold (451,341 states) |
| `device` | a camera opened twice, closed and destroyed with every failure, while events come and another thread sets the callbacks: `TypeOK`, `ReleasedClean`, `FreeAlone`, `UsedWhileClosing`, `ImplementsEvents` (the refinement of `CameraEvents`), and `MethodsReturn` under fairness | hold (106,634 states) |

**Bounds.** For `UVCPreview`: `MaxFrame` and `PoolSize` are 1 (`MAX_FRAME` 4 and
`FRAME_POOL_SZ` 6 in the code): full, empty and overflowing queues and pools are then a
step apart. Three or four frames are one for each place a frame can be at the same time
in these instances and one to spare, so that the pool is exhausted, overflows and
allocates. `MaxSessions` is 2 where the properties relate two sessions and 1 elsewhere;
a capture thread that outlived a session meets the next one with 2. `MaxCaptured` 2 or 3
pictures are enough for one to be drawn, one to be captured and one to be queued.
`MaxRefs` 1 reference per window keeps the count finite; the interesting values are 0, 1
and one too few. `ApiCalls` and `MayFail` choose what a run exercises, so that each
question has an instance TLC can finish. Frames are interchangeable, hence the symmetry
set; it is not used with temporal formulas whose quantifiers name frames.

For `UVCStream`: two transfers (10 in the code), the least for which one can be in its
callback while another is cancelled. Two pictures, of one and of two packets: a picture
can lose its beginning or its end, and one can be held while the next is assembled.
`SizeBuf` 3 holds all packets of both, so that a frame that mixed them would fit, and is
reached by the last. One stream (`MaxStarts`), because a handle
starts from zero each time.

For `Recording`: the audio encoder and one video encoder of each kind, which is what the
code records with. Two pictures and one piece of sound: the first output brings the
format, so one encoder can write while the other has yet to add its track, and one more
picture is there to be announced while the thread waits. The number of encoders, their
kinds and the numbers of frames are free in the proofs.

For `CameraHandler`: two threads, one that makes four calls and one that makes one, the
shortest in which a preview or a recording is started and another thread interferes. Two
recordings are the least for which a late `onStopped` meets the next one. `EncoderTypes`
0 and 2: type 1 differs from 0 only in who gives the pictures. `MayFail` has all its
members, so that a release by an encoder's thread meets every place of the camera thread.

For `UVCDevice`: two openings, because what is wrong after the first closing
(`kill_handler_thread`, stale pointers) shows in the second; one client that makes two
calls, so that a call can begin in one opening and end in the next; one object, which
`None` makes two values. Two clients with one call each were checked, too, without a
difference.

**Deadlock** is not checked: the application may stop calling, the bounds on sessions
and pictures end behaviours, and `stopPreview` can hang, which `preview_stop` examines
on its own. A recording ends, and so does a camera thread; both also have waits that
nothing ends (section 5), which the temporal properties name.

**Fairness** (`FairSpec`): weak fairness of each thread's next step. The operating
system schedules every runnable thread and the mutexes are held for bounded sections
only. Nothing is assumed of the application and the camera: calls and frames may end at
any time. `PreviewFramesDrain` and `CaptureFrameDrains` are claimed while the preview
runs and no call is under way that holds `capture_mutex` (`Disturbed`).

For `UVCStream`, `FairSpec` has weak fairness of the starting and stopping thread once
it is called, of the event thread, of the callback thread (the user's function returns,
as `uvc_preview_frame_callback` does) and of each transfer's completion: libusb gives a
bulk transfer 5 s, and an isochronous one completes with the bus, or fails when the
device is gone. `EndPayloads` is fair because a transfer has finitely many packets. The
camera may fall silent and the application may never close.

For `Recording`, weak fairness of the camera thread while it goes over the encoders and
of each encoder's thread; not of the sources, of the user who stops, nor of the
collector. For `CameraHandler`, weak fairness of a call that was begun, of the camera
thread, of the delayed message and of each encoder's answer; no call has to be made, no
picture has to come, and no wait is ended by `WokenAlone` for fairness' sake.

For `UVCDevice`, weak fairness of the method under the monitor, of the event thread's
loop and of its handling of an event (a Java callback returns), and of a client's call.
Two choices are less plain. The poll ends by itself (`PollTimeout`), because
`libusb_handle_events` gives it 60 seconds; that is what ends `close` when the event
thread missed both signs. The time-out of the wait (`WaitTimeout`) is not fair, so that
the wakeup by `libusb_unlock_events` is what the property rests on. `NewCallback` has
strong fairness: it wants the `status_mutex` that the event thread takes again and
again, and a mutex that is free again and again is got.

## 4. Proofs

`UVCPreviewProofs` proves, for every number of frames, windows, callbacks, sessions and
every queue and pool size (`SizesAssumption`, `ObjectsAssumption`):

- `TypeCorrect`: `Spec => []TypeOK`;
- `FramesOwned`: `Spec => []FrameOwnership`;
- `StopsQuietly`: `Spec => []StopQuiesces`;
- `WakeupsKept`: `Spec => []NoWakeupLost`.

Neither of the first two is inductive alone. `IInv` adds

- `HoldInv`: a local variable points to a frame exactly while its thread is between
  taking and handing on the frame. Without it an action could put an empty local into a
  queue, or overwrite a full one;
- `StageInv`: which of the application's, preview and callback threads can be where at
  the same time. A preview thread exists only while `mIsRunning` is set or a stop is on
  its way to `joinPreview`; libuvc delivers only while the preview thread is between
  start and stop of the stream; the capture queue is filled only by the preview thread.

The argument about frames is made once per way of moving one, not once per action:
lemmas such as `GetFrameFine`, `RecycleLocalFine`, `ReplaceCaptureFine` show that taking
from the pool, recycling, queueing and dequeueing keep every frame with one owner; each
action is then one of these moves. `InitInv` and `StepInv` give `Inductive`, and the
first three theorems follow. `NoWakeupLost` is inductive given the types: it is the part
of liveness that a step can break, and holds in every session and for every capture
thread, where the temporal properties are claimed only while the preview runs.

`UVCPreviewMemoryProofs` proves

- `MemoryBounded`: `Spec => []MemoryBound`,

for every queue and pool size and number of sessions. `FrameMove` lists the ways in
which a step may move frames (get, give back, clear, queue, dequeue, drop, ...), and
`StepMoves` shows that every step is one of them; the bounds are then shown once per
move, with cardinalities. The bound on lost frames needs more than itself, because
`addCaptureFrame` drops a frame only if the preview was stopped, and must not do so
twice. `MayLeak` says that the preview thread may still come to lose one (it has begun
and has not seen `mIsRunning` clear at the head of its loop), and `LeakBound` counts
that frame in advance: at most `session` frames are lost, one fewer while `MayLeak`.

`UVCPreviewOrderProofs` proves

- `FramesFresh`: `Spec => []FreshFrames`;
- `PreviewImplementsChannel`: `Spec /\ [](session <= 1) => ImplementsChannel`;
- `PicturesInOrder`: `Spec /\ [](session <= 1) => [][delivered' # delivered => delivered <
  delivered' /\ delivered' <= captured]_vars`.

Two steps move a picture past an end of the pipeline, `DuplicateFrame` and `CpInvoke`;
`StepCalm` shows that all others are `Calm`. `FreshFrames` is about the frames that are
queued or drawn, and about those that capture threads hold, where it excepts the capture
thread of an earlier session: one that outlived `stopPreview` (section 5) may still hold,
and deliver, a picture of its own session. `FreshInv` strengthens it by the
frame that libuvc's thread has filled and not queued yet, and by `sessionBase <=
captured`; a session begins when nothing of this kind is left, which is `StageInv`.
`OrderInv` orders the places along the pipeline: the picture a capture thread holds is
older than the one in `captureQueu`, that one older than the preview thread's, than those
of `previewFrames` (which are sorted) and than the one just filled, and all are younger
than the last one delivered. `CalmParts` classifies the moves once more by what they do to
that order, and `ChannelStep` maps each step to `Accept`, `Deliver`, `Lose` or a stutter
of `FrameChannel`.

The hypothesis `[](session <= 1)` is not a technical one. The capture thread of a session
may outlive `stopPreview` (the handle joined may not be its own), and two capture threads
then share one queue: each may hold a picture while the other calls `onFrame`, and order
between them is lost (with `MaxSessions` 2 TLC shows such a behaviour). In the run `preview_capture` it holds because `MaxSessions` is 1.

`UVCStreamProofs` proves, for every number of transfers, buffer size, sequence of
packets and choice of failures (`StreamAssumption`):

- `StreamTypeCorrect`: `Spec => []TypeOK`, with it the boundary check of bulk payloads;
- `FramesWhole`: `Spec => []FrameIntegrity`;
- `CloseDrains`: `Spec => []StopDrains`;
- `WakeupsKept`: `Spec => []NoWakeupLost`;
- `StreamIsSource`: `Spec => ImplementsSource`, the refinement of `FrameSource`.

Here `IInv` adds two parts. `FrameInv` says that what is being assembled is also of one
picture (packets without a header apart, as in `FrameIntegrity`), that its frame ID is
`fid`, and that its packets come before the next one: only
then does comparing the next packet's ID with `fid` keep pictures apart. `StageInv`
relates the place of the stopping thread to the other two: an open stream of a working
device that is not being stopped is running, from the join on no transfer is left, after
the join the callback thread is gone, and a freed handle of a working device is quiet.
`NoWakeupLost` needs
`StoppedInv`: from the moment a stop may wait, `running` is clear, so that a callback
thread woken for the end does not sleep again under the join.
For the refinement `OrderInv` orders the numbers along a picture's way, `shown <=
frame.seq <= hold_seq <= seq`: a frame shown is never older than the last one.
`SourceStep` maps each action to a step of `FrameSource` or to a stutter; `FreeStream`
is its `Stop`, which `StageInv` makes possible.

`RecordingProofs` proves, for every number and kind of encoders and of frames
(`RecordingAssumption`):

- `RecordingTypeCorrect`: `Spec => []TypeOK`;
- `MuxerCounts`: `Spec => []MuxerCount`;
- `RecordingImplementsMuxerFile`: `Spec => ImplementsMuxerFile`.

Neither `TypeOK` (the counts are natural numbers, so a count given back too often breaks
it) nor `MuxerCount` is inductive alone: that an encoder writes only while the file is
started rests on its place in `drain` (it left the wait only when `mIsStarted` was set),
and that the last one finishes it on the count being of exactly the encoders in
`Muxing`, whose cardinality the lemmas about adding and removing one element follow.

`CameraHandlerProofs` proves, for every number of threads and recordings
(`HandlerAssumption`):

- `HandlerTypeCorrect`: `Spec => []TypeOK`;
- `PreviewAwaited`: `Spec => []StopWaits`;
- `ThreadEndsClean`: `Spec => []EndsClean`;
- `FeedStops`: `Spec => []OneLatePicture`;
- `CameraStays`: `Spec => []CameraKept`.

None is inductive. `IInv` says where everything can be while two kinds of threads run
`handleStopRecording` and `handleClose`: `CameraInv`, that a preview belongs to the camera
in `mUVCCamera` or to the thread that took it and is at `destroy`; `RecordInv`, which
recording the camera thread has in hand at which place; `MuxerInv`, that a recording is in
the hands of one thread only, and still runs; `RunningInv`, that somebody knows of every
encoder that runs, so that it can still be told to stop; `FeedInv`, that no encoder was
given a late picture before it was stopped; `KeptInv`, at which places the camera thread
relies on a camera, as long as no encoder's thread releases; and `SeenInv`, that no thread
has seen a preview that is still to come, so that a new one is never mistaken for the one
waited for. Each property carries the exceptions that section 5 lists.
`HandlerTypeCorrect` has to say that a queue from which `removeMessages` took
messages is a queue of messages. A `SelectSeq` cannot be reasoned about here, so the model
says which message is the `i`-th one left, the one with `i` of those left up to it
(`MCCameraHandler` has TLC compare the two); `RankExists` shows, by induction on the
length, that there is one for every `i`.

`UVCDeviceProofs` proves, for every number of clients, objects, openings and calls and
every choice of failures (`DeviceAssumption`):

- `DeviceTypeCorrect`: `Spec => []TypeOK`, with it that no reference is given up twice;
- `NothingLeft`: `Spec => []ReleasedClean`;
- `FreedAlone`: `Spec => []FreeAlone`;
- `NoStrayUse`: `Spec => []UsedWhileClosing`;
- `DeviceIsCameraEvents`: `Spec => ImplementsEvents`, the refinement of `CameraEvents`.

None of them is inductive. `StageInv` says what the camera owns at each place of the
method under the monitor: nothing (`Closed`), a half opened device (`Built`) or an open
one (`Opened`). `ThreadInv` ties the transfer in its callback, the event and the called
object to the place of the event thread; as only an open device has a transfer in its
callback, events come only then. `CallbackInv` says when the native objects exist and
when the handle points to them: they differ only from `DeleteCallback` to `FreeHandle`,
which is all that `UsedWhileClosing` allows. There is one lemma per action, with one
step per conjunct; in the refinement `OpenDevice`, `NewCallback`, `ReplaceObject`,
`LockObject`, `JavaReturns` and `FreeHandle` are the steps of `CameraEvents`, a failed
opening is its `Close`, and everything else stutters.

Every invariant of the passing runs is proved, and so are all four refinements, that of
`FrameChannel` for one session. Only model-checked is liveness (`PreviewFramesDrain`,
`CaptureFrameDrains`, `FramesReachCaller`, `CloseReturns`, `FileFinished`,
`WaitersReleased`, `StopReturns`, `ReleaseEnds`, `MethodsReturn`): fairness rests on
ENABLED, which is outside the prover's reach. The library's induction rules take an
operator as parameter, which the installed provers cannot instantiate; where a proof
needs induction over the natural numbers, `NatSetInduction` in `CameraHandlerProofs`
states it about a set and proves it from the library's theorem that every nonempty set
has a least element. The proofs assume nothing about `MaxFrame` being reached, and hold
with the bounds as parameters. That the violated properties of section 5 are violated is
TLC's result.

## 5. Findings

1. *stopPreview may not return* (`preview_stop`). The flag is cleared and the signal
   sent without `preview_mutex`, and `waitPreviewFrame` waits without looking at the
   flag. The signal can come before the wait; if no further frame is queued (none is,
   once the flag is clear) `pthread_join` waits for ever.
2. *setFrameCallback may not wait* (`preview_callback`). The single wait for "finishing
   capturing" depends on `mIsCapturing`, which an earlier call already cleared: the old
   object's global reference is deleted while a capture thread runs its `onFrame`.
3. *A recording ends by itself* (`preview_recording`). Setting a callback or a window
   interrupts the capture thread, whose exit path releases and forgets whatever window
   is set by then, without the mutex.
4. *A picture is shown twice* (`stream_stale`). `hold_bfh_err` is read under `cb_mutex`
   to decide whether to populate the frame, and again without it to decide whether to
   show it (`stream.c:1745`, `:1756`). A good picture swapped in between makes the frame
   of a broken one, the previous picture, go to the user again. The header says of these
   fields that they may be accessed "only when holding a lock on cb_mutex".
5. *Closing does not always end the threads* (`stream_unplug`). `uvc_stream_close` stops
   only a running stream. After `LIBUSB_TRANSFER_NO_DEVICE`, or after a submission that
   failed once the callback thread had been created, `running` is 0 and the handle is
   freed while that thread and the other transfers use it.

Some properties name an exception where the code has a fault, or gives no promise, that
no comment or test contradicts: they are hazards, not findings. `FileFinished` leaves
out an encoder asked to stop between its two sections under `mSync`
(`MediaEncoder.java:165`), which waits for ever, and a muxer that was collected;
`WaitersReleased` an encoder whose partner never gets a track. `FrameIntegrity` excepts
bulk payloads without a header, which are appended whatever frame they are of
(`stream.c:748`); `FreshFrames` the picture of a capture thread that outlived its session
(the handle joined at `UVCPreview.cpp:369` may not be its own).

Of `CameraHandler`: `StopWaits` excepts a wait that was interrupted or woken without a
reason (`AbstractUVCCameraHandler.java:190-194`), and a preview whose camera an encoder's
thread has taken in `handleRelease` (`:791`): the camera thread then finds `mUVCCamera`
null and notifies although that preview is only about to end. `EndsClean` excepts what
such a thread has taken and is about to end, and the encoders of a preparation that failed
(`:665`), which wait for ever. `OneLatePicture` grants a stopped encoder the picture that
`onFrame` had in its hands. `CameraKept` excepts an encoder's thread in `handleRelease`:
after it the camera thread may die of a `NullPointerException`. `StopReturns` excepts a
notification that came before the wait; `ReleaseEnds` a recording that nobody clears
`mIsRecording` for, an encoder that found its muxer or its view gone and so sent no
message, and a camera thread that died.

Of `UVCDevice`: `UsedWhileClosing` excepts the time in which the deleted callback objects
may still be called; `ImplementsEvents` a client that uses a deleted object (it is not
followed); `MethodsReturn` a Java callback that waits for the monitor that `close` holds.
That a `UVCCamera` opened again after a close gets an event thread that ends at once
(`kill_handler_thread` is reset by nobody, `device.c:1575`) is in the model, and no
property is about it.

*stopPreview may leave the preview running* was found by reading and has no run: it asks
`isPreviewing()` (`AbstractUVCCameraHandler.java:181`) while the camera thread is
between `startPreview` of the camera and `mIsPreviewing = true`, and then neither sends
`MSG_PREVIEW_STOP` nor waits, although its comment says that it waits so that a surface
is not released while the preview runs. `StopWaits` is about a call that did wait and
was notified.

## 6. Not modelled, and why

In `stream.c`: polling with `uvc_stream_get_frame` (refused when there is a callback,
and never called here), the negotiation of format and size, time stamps and iSight
cameras (whose isochronous packets may come without a header). An isochronous packet with its error bit set is skipped and so the same as a
lost one. A transfer whose resubmission is refused is waited for for ever by
`uvc_stream_stop`; `CloseReturns` leaves that case out, since nothing in the code
promises more.

Elsewhere: pixels, sizes and formats (no property is about them; `setPreviewSize` only
changes sizes), `init_pool` (it allocates earlier what `get_frame` allocates on demand),
statistics and log output. In `CameraHandler`: `captureStill` (reads a view, changes no
state), `addCallback` and its listeners, the camera's parameters, and `resize`. In
`UVCDevice`: descriptors and what is parsed from them, the lists of devices, controls,
the control block that `open` clones, the global references by which native code holds
Java's objects, and libusb's own count of its device. In `Recording`: the configuration
of codecs, time stamps, the choice of a microphone, and names of files. Components with
status `not_modelled` in `PROJECT.json` carry their reason.

## 7. Plan

1. `UVCPreview` with its abstract channel and first theorems (done).
2. `UVCStream` with its abstract source, its safety and refinement proved (done).
3. `Recording` with its abstract file, its safety and refinement proved (done).
4. `CameraHandler`, its safety proved (done).
5. `UVCDevice` with its abstract events, its safety and refinement proved (done).
6. `USBMonitor`: permission, attach and detach broadcasts, poll, control blocks.
7. `CameraServer` and `UVCService`: clients, reference counts, removal while walking.
8. The buffered pipelines, if they become part of the build.

Proofs to add: with each of the modules 6 and 7 its type invariant, its safety invariants
and the refinement of an abstract specification, in this order.
