------------------------------ MODULE UVCDevice ------------------------------
(***************************************************************************)
(* Opening and closing a camera: UVCCamera.cpp on libuvc's device.c and    *)
(* init.c, with the way libusb's close stops its event handling.  A method *)
(* under the monitor of UVCCamera.java opens, closes or destroys; libuvc's *)
(* event thread takes status and button events from the interrupt          *)
(* transfer and calls Java; other threads set the callbacks, for which     *)
(* UVCCamera.java takes no lock.                                           *)
(*                                                                         *)
(* Streaming is over when this module closes (UVCPreview, UVCStream).      *)
(***************************************************************************)
EXTENDS Integers

CONSTANTS
  Clients,     (* threads that call setStatusCallback or setButtonCallback  *)
  Objects,     (* Java objects that implement the callbacks                 *)
  None,        (* null                                                      *)
  MayFail,     (* "init", "find", "open", "submit", "thread": the call      *)
               (* fails; "endpoint": the camera has no status endpoint;     *)
               (* "error": the status transfer ends; "refused": it cannot   *)
               (* be submitted again; "method": a Java callback calls a     *)
               (* synchronized method of the camera                         *)
  MaxOpens,    (* bound: calls of open                                      *)
  MaxSets      (* bound: calls of each client                               *)

ASSUME DeviceAssumption ==
  /\ None \notin Objects
  /\ MaxOpens \in Nat /\ MaxSets \in Nat

Kinds == {"status", "button"}
Opens == 1 .. MaxOpens

VARIABLES
  apiPc,             (* where the method under the monitor is               *)
  destroying,        (* it is destroy, not close                            *)
  opens,
  mNativePtr, mContext, mUsbFs, mDevice, mDeviceHandle,   (* these are set  *)
  mFd,
  descriptors,       (* the duplicates that are open; the n-th call of open *)
                     (* makes number n                                      *)
  callback,          (* mStatusCallback and mButtonCallback, by the opening *)
                     (* that made them; 0 is NULL                           *)
  object,            (* their Java object                                   *)
  ref,               (* of the uvc_device_t; 0 when it is freed             *)
  devh,              (* the uvc_device_handle_t is allocated,               *)
  claimed,           (* its control interface claimed                       *)
  status_cb,         (* what its callbacks point to, as in callback         *)
  status_xfer,       (* "none", "idle", "flying" or in its "callback"       *)
  open_devices,      (* the list of the context is not empty                *)
  kill_handler_thread,
  pollfd_modify,     (* libusb_close wants the event handling to pause      *)
  hpc,               (* where the event thread is                           *)
  kind, called,      (* the event it handles, the Java object it calls      *)
  cpc, arg, ptr, sets,   (* each client: where it is, what it sets, the     *)
                         (* native object it found, how many calls it made  *)
  wild               (* the thread that used what was deleted               *)

api     == <<apiPc, destroying, opens>>
camera  == <<mNativePtr, mContext, mUsbFs, mDevice, mDeviceHandle>>
files   == <<mFd, descriptors>>
natives == <<callback, object>>
handle  == <<ref, devh, claimed, status_cb, status_xfer>>
context == <<open_devices, kill_handler_thread, pollfd_modify>>
thread  == <<hpc, kind, called>>
clients == <<cpc, arg, ptr, sets>>
vars == <<api, camera, files, natives, handle, context, thread, clients, wild>>

ApiPcs == {"idle", "open", "submit", "spawn", "status", "button", "deleteStatus",
           "deleteButton", "kill", "signal", "lockEvents", "join", "free", "unref"}
HPcs == {"none", "failed", "check", "enter", "waiter", "waiting", "poll", "event",
         "deliver", "java", "monitor", "resubmit", "ended"}

(* The event thread holds libusb's events_lock; the handle's status_mutex; *)
(* the mutex of the native object for events of kind k.                    *)
HoldsEvents == hpc \in {"poll", "event", "deliver", "java", "monitor", "resubmit"}
HoldsStatus == hpc \in {"deliver", "java", "monitor"}
HoldsObject(k) == hpc \in {"java", "monitor"} /\ kind = k

(* There is no event thread.                                               *)
NoThread == hpc \in {"none", "failed", "ended"}

Init ==
  /\ apiPc = "idle" /\ destroying = FALSE /\ opens = 0
  /\ mNativePtr = TRUE /\ mContext = FALSE /\ mUsbFs = FALSE
  /\ mDevice = FALSE /\ mDeviceHandle = FALSE
  /\ mFd = 0 /\ descriptors = {}
  /\ callback = [k \in Kinds |-> 0] /\ object = [k \in Kinds |-> None]
  /\ ref = 0 /\ devh = FALSE /\ claimed = FALSE
  /\ status_cb = [k \in Kinds |-> 0] /\ status_xfer = "none"
  /\ open_devices = FALSE /\ kill_handler_thread = FALSE /\ pollfd_modify = FALSE
  /\ hpc = "none" /\ kind = "none" /\ called = None
  /\ cpc = [c \in Clients |-> "idle"] /\ arg = [c \in Clients |-> <<"status", None>>]
  /\ ptr = [c \in Clients |-> 0] /\ sets = [c \in Clients |-> 0]
  /\ wild = "nobody"

-----------------------------------------------------------------------------
(* open.                                                                   *)

At(from, to) == apiPc = from /\ apiPc' = to

(* connect: a context, made once, a duplicate of the descriptor, and a     *)
(* device of one reference.  An open camera refuses.                       *)
Connect ==
  /\ At("idle", "open") /\ mNativePtr /\ ~mDeviceHandle /\ opens < MaxOpens
  /\ opens' = opens + 1 /\ descriptors' = descriptors \cup {opens + 1}
  /\ mUsbFs' = TRUE /\ mContext' = TRUE /\ mDevice' = TRUE
  /\ ref' = 1
  /\ UNCHANGED <<destroying, mNativePtr, mDeviceHandle, mFd, natives, devh, claimed,
                 status_cb, status_xfer, context, thread, clients, wild>>

(* No context, or no device: the duplicate is closed again.                *)
ConnectFails ==
  /\ apiPc = "idle" /\ mNativePtr /\ ~mDeviceHandle /\ opens < MaxOpens
  /\ opens' = opens + 1 /\ mUsbFs' = TRUE
  /\ \/ "init" \in MayFail /\ ~mContext /\ UNCHANGED mContext
     \/ "find" \in MayFail /\ mContext' = TRUE
  /\ UNCHANGED <<apiPc, destroying, mNativePtr, mDevice, mDeviceHandle, files, natives,
                 handle, context, thread, clients, wild>>

(* uvc_open: the handle refers to the device, too.                         *)
OpenDevice ==
  /\ At("open", "submit")
  /\ ref' = ref + 1 /\ devh' = TRUE /\ claimed' = TRUE
  /\ UNCHANGED <<destroying, opens, camera, files, natives, status_cb, status_xfer,
                 context, thread, clients, wild>>

(* Mutants: the error path keeps the handle's reference, or gives up more. *)
KeepsReference(n) == n
UnrefTwice(n) == n - 2

(* The handle's reference, given up on the error path of uvc_open.         *)
UnrefHandle(n) == n - 1

(* libusb_open fails, or the descriptors, the claim or the submission do:  *)
(* what uvc_open has made it takes back, and connect the rest.             *)
OpenFails ==
  /\ \/ At("open", "idle") /\ "open" \in MayFail /\ ref' = ref - 1
     \/ At("submit", "idle") /\ "submit" \in MayFail /\ ref' = UnrefHandle(ref) - 1
  /\ devh' = FALSE /\ claimed' = FALSE
  /\ mDevice' = FALSE /\ mDeviceHandle' = FALSE
  /\ descriptors' = descriptors \ {opens}
  /\ UNCHANGED <<destroying, opens, mNativePtr, mContext, mUsbFs, mFd, natives,
                 status_cb, status_xfer, context, thread, clients, wild>>

SubmitStatus ==
  /\ At("submit", "spawn")
  /\ \/ status_xfer' = "flying"
     \/ "endpoint" \in MayFail /\ UNCHANGED status_xfer
  /\ UNCHANGED <<destroying, opens, camera, files, natives, ref, devh, claimed, status_cb,
                 context, thread, clients, wild>>

(* This is the context's first open device.                                *)
FirstDevice == ~open_devices

(* The context's event thread is started, and connect keeps the handle.    *)
SpawnHandler ==
  /\ At("spawn", "status")
  /\ IF FirstDevice
     THEN \/ hpc' = "check"
          \/ "thread" \in MayFail /\ hpc' = "failed"
     ELSE UNCHANGED hpc
  /\ open_devices' = TRUE /\ mDeviceHandle' = TRUE /\ mFd' = opens
  /\ UNCHANGED <<destroying, opens, mNativePtr, mContext, mUsbFs, mDevice, descriptors,
                 natives, handle, kill_handler_thread, pollfd_modify, kind, called,
                 clients, wild>>

(* The native callback objects make themselves known to the handle, under  *)
(* its status_mutex; so events come before open has returned.              *)
NewCallback(k) ==
  /\ \/ k = "status" /\ At("status", "button")
     \/ k = "button" /\ At("button", "idle")
  /\ ~HoldsStatus
  /\ callback' = [callback EXCEPT ![k] = opens] /\ object' = [object EXCEPT ![k] = None]
  /\ status_cb' = [status_cb EXCEPT ![k] = opens]
  /\ UNCHANGED <<destroying, opens, camera, files, ref, devh, claimed, status_xfer,
                 context, thread, clients, wild>>

-----------------------------------------------------------------------------
(* close and destroy.                                                      *)

Close ==
  /\ apiPc = "idle" /\ mNativePtr
  /\ destroying' \in BOOLEAN
  /\ apiPc' = IF mDeviceHandle THEN "deleteStatus" ELSE "unref"
  /\ UNCHANGED <<opens, camera, files, natives, handle, context, thread, clients, wild>>

(* release deletes the native objects, to which the handle still points.   *)
DeleteCallback(k) ==
  /\ \/ k = "status" /\ At("deleteStatus", "deleteButton")
     \/ k = "button" /\ At("deleteButton", "kill")
  /\ callback' = [callback EXCEPT ![k] = 0]
  /\ UNCHANGED <<destroying, opens, camera, files, object, handle, context, thread,
                 clients, wild>>

(* uvc_close tells the event thread to end ...                             *)
KillHandler ==
  /\ At("kill", "signal")
  /\ claimed' = FALSE /\ kill_handler_thread' = TRUE
  /\ UNCHANGED <<destroying, opens, camera, files, natives, ref, devh, status_cb,
                 status_xfer, open_devices, pollfd_modify, thread, clients, wild>>

(* ... and libusb_close interrupts its poll, ...                           *)
SignalEvents ==
  /\ At("signal", "lockEvents")
  /\ pollfd_modify' = TRUE
  /\ UNCHANGED <<destroying, opens, camera, files, natives, handle, open_devices,
                 kill_handler_thread, thread, clients, wild>>

(* Mutants: libusb does not forget a transfer that is still flying; nobody *)
(* is woken; nobody waits for the event thread.                            *)
StillFlying == status_xfer
NotWoken(pc) == pc
NotJoined == TRUE

NoLongerFlying == IF status_xfer = "flying" THEN "idle" ELSE status_xfer
Joined == NoThread

(* libusb_unlock_events wakes those who wait for events.                   *)
Woken(pc) == IF pc = "waiting" THEN "check" ELSE pc

(* ... takes the events lock, forgets the transfers and closes the device. *)
CloseUsb ==
  /\ At("lockEvents", "join") /\ ~HoldsEvents
  /\ status_xfer' = NoLongerFlying
  /\ pollfd_modify' = FALSE
  /\ hpc' = Woken(hpc)
  /\ UNCHANGED <<destroying, opens, camera, files, natives, ref, devh, claimed, status_cb,
                 open_devices, kill_handler_thread, kind, called, clients, wild>>

(* A handle that pthread_create never set, as its result is not looked at, *)
(* is taken to be joined at once.                                          *)
JoinHandler ==
  /\ At("join", "free") /\ Joined
  /\ UNCHANGED <<destroying, opens, camera, files, natives, handle, context, thread,
                 clients, wild>>

FreeHandle ==
  /\ At("free", "unref")
  /\ open_devices' = FALSE /\ ref' = ref - 1
  /\ devh' = FALSE /\ status_cb' = [k \in Kinds |-> 0]
  /\ status_xfer' = "none"
  /\ mDeviceHandle' = FALSE
  /\ UNCHANGED <<destroying, opens, mNativePtr, mContext, mUsbFs, mDevice, files, natives,
                 claimed, kill_handler_thread, pollfd_modify, thread, clients, wild>>

(* The rest of release, and of destroy: the context goes with the camera.  *)
UnrefDevice ==
  /\ At("unref", "idle")
  /\ ref' = IF mDevice THEN ref - 1 ELSE ref
  /\ mDevice' = FALSE
  /\ descriptors' = IF mUsbFs THEN descriptors \ {mFd} ELSE descriptors
  /\ mFd' = 0 /\ mUsbFs' = FALSE
  /\ mContext' = (mContext /\ ~destroying) /\ mNativePtr' = ~destroying
  /\ UNCHANGED <<destroying, opens, mDeviceHandle, natives, devh, claimed, status_cb,
                 status_xfer, context, thread, clients, wild>>

-----------------------------------------------------------------------------
(* The event thread.                                                       *)

(* What it uses must not have been deleted.                                *)
Uses(valid) == wild' = IF valid THEN wild ELSE "event thread"

(* One step of its loop, which uses the context.                           *)
Loop(from, to) ==
  /\ hpc = from /\ hpc' = to /\ Uses(mContext)
  /\ UNCHANGED <<api, camera, files, natives, handle, context, kind, called, clients>>

CheckKill == Loop("check", IF kill_handler_thread THEN "ended" ELSE "enter")

(* libusb_handle_events: poll under the events lock, unless libusb_close   *)
(* is at work; then wait until it is done.  Who comes a little later, or   *)
(* before, polls: nothing interrupts it but the time of 60 seconds.        *)
EnterEvents  == Loop("enter", IF pollfd_modify THEN "waiter" ELSE "poll")
WaitForEvent == Loop("waiter", IF pollfd_modify THEN "waiting" ELSE "enter")
Interrupted  == pollfd_modify /\ Loop("poll", "check")
PollTimeout  == Loop("poll", "check")
WaitTimeout  == Loop("waiting", "check")

(* _uvc_status_callback: an event for one of the callbacks, one for nobody *)
(* or a status that is tried again; or the end of the transfer.            *)
StatusEvent ==
  /\ hpc = "poll" /\ status_xfer = "flying"
  /\ \/ /\ \E k \in Kinds : kind' = k /\ hpc' = "event"
        /\ status_xfer' = "callback"
     \/ hpc' = "resubmit" /\ status_xfer' = "callback" /\ UNCHANGED kind
     \/ "error" \in MayFail /\ hpc' = "check" /\ status_xfer' = "idle" /\ UNCHANGED kind
  /\ UNCHANGED <<api, camera, files, natives, ref, devh, claimed, status_cb, context, called,
                 clients, wild>>

(* The handle's callback is called under its status_mutex.                 *)
LockStatus ==
  /\ hpc = "event" /\ Uses(devh)
  /\ hpc' = IF status_cb[kind] = 0 THEN "resubmit" ELSE "deliver"
  /\ UNCHANGED <<api, camera, files, natives, handle, context, kind, called, clients>>

(* notifyStatusCallback, notifyButtonCallback: Java is called under the    *)
(* mutex of the native object.                                             *)
LockObject ==
  /\ hpc = "deliver" /\ Uses(status_cb[kind] = callback[kind])
  /\ hpc' = IF object[kind] = None THEN "resubmit" ELSE "java"
  /\ called' = object[kind]
  /\ UNCHANGED <<api, camera, files, natives, handle, context, kind, clients>>

(* Java may want the camera's monitor, ...                                 *)
CallMethod ==
  /\ hpc = "java" /\ "method" \in MayFail /\ hpc' = "monitor"
  /\ UNCHANGED <<api, camera, files, natives, handle, context, kind, called, clients, wild>>

JavaReturns ==
  /\ \/ hpc = "java"
     \/ hpc = "monitor" /\ apiPc = "idle"
  /\ Uses(status_cb[kind] = callback[kind])
  /\ hpc' = "resubmit" /\ called' = None
  /\ UNCHANGED <<api, camera, files, natives, handle, context, kind, clients>>

Resubmit ==
  /\ hpc = "resubmit" /\ Uses(devh) /\ hpc' = "check"
  /\ \/ status_xfer' = "flying"
     \/ "refused" \in MayFail /\ status_xfer' = "idle"
  /\ UNCHANGED <<api, camera, files, natives, ref, devh, claimed, status_cb, context, kind,
                 called, clients>>

-----------------------------------------------------------------------------
(* setStatusCallback and setButtonCallback.                                *)

SetCallback(c) ==
  /\ cpc[c] = "idle" /\ mNativePtr /\ sets[c] < MaxSets
  /\ cpc' = [cpc EXCEPT ![c] = "native"] /\ sets' = [sets EXCEPT ![c] = @ + 1]
  /\ \E k \in Kinds, o \in Objects \cup {None} : arg' = [arg EXCEPT ![c] = <<k, o>>]
  /\ UNCHANGED <<api, camera, files, natives, handle, context, thread, ptr, wild>>

(* The camera, of which mNativePtr was the address, may be gone.           *)
FindCallback(c) ==
  /\ cpc[c] = "native"
  /\ wild' = IF mNativePtr THEN wild ELSE "client"
  /\ ptr' = [ptr EXCEPT ![c] = callback[arg[c][1]]]
  /\ cpc' = [cpc EXCEPT ![c] = IF callback[arg[c][1]] = 0 THEN "idle" ELSE "set"]
  /\ UNCHANGED <<api, camera, files, natives, handle, context, thread, arg, sets>>

(* Mutant: the object is replaced without its mutex.                       *)
NotLocked(k) == FALSE
LockedByEvent(k) == HoldsObject(k)

(* The Java object is replaced under the mutex of the native one, which    *)
(* may be gone as well.                                                    *)
ReplaceObject(c) ==
  LET k == arg[c][1] IN
  /\ cpc[c] = "set" /\ cpc' = [cpc EXCEPT ![c] = "idle"]
  /\ ~LockedByEvent(k)
  /\ IF ptr[c] = callback[k]
     THEN object' = [object EXCEPT ![k] = arg[c][2]] /\ UNCHANGED wild
     ELSE wild' = "client" /\ UNCHANGED object
  /\ UNCHANGED <<api, camera, files, callback, handle, context, thread, arg, ptr, sets>>

-----------------------------------------------------------------------------
Opening == Connect \/ ConnectFails \/ OpenDevice \/ OpenFails \/ SubmitStatus \/ SpawnHandler
           \/ \E k \in Kinds : NewCallback(k)
Closing == (\E k \in Kinds : DeleteCallback(k)) \/ KillHandler \/ SignalEvents \/ CloseUsb
           \/ JoinHandler \/ FreeHandle \/ UnrefDevice
ApiStep == Opening \/ Close \/ Closing
EventLoop == CheckKill \/ EnterEvents \/ WaitForEvent \/ Interrupted
EventCall == StatusEvent \/ LockStatus \/ LockObject \/ JavaReturns \/ Resubmit
ClientStep(c) == SetCallback(c) \/ FindCallback(c) \/ ReplaceObject(c)

(* What follows the use of something deleted is undefined and not followed. *)
Next ==
  /\ wild = "nobody"
  /\ \/ ApiStep
     \/ EventLoop \/ EventCall \/ PollTimeout \/ WaitTimeout \/ CallMethod
     \/ \E c \in Clients : ClientStep(c)

Spec == Init /\ [][Next]_vars

(* A method goes on once it has begun, and so does the event thread; a poll *)
(* ends after 60 seconds and Java's callbacks return.  Who waits for the   *)
(* status_mutex gets it if it is free again and again.  Events need not    *)
(* come.                                                                   *)
FairSpec ==
  /\ Spec
  /\ WF_vars(wild = "nobody" /\ apiPc # "idle" /\ ApiStep)
  /\ \A k \in Kinds : SF_vars(wild = "nobody" /\ NewCallback(k))
  /\ WF_vars(wild = "nobody" /\ EventLoop)
  /\ WF_vars(wild = "nobody" /\ (LockStatus \/ LockObject \/ JavaReturns \/ Resubmit))
  /\ WF_vars(wild = "nobody" /\ PollTimeout)
  /\ \A c \in Clients : WF_vars(wild = "nobody" /\ (FindCallback(c) \/ ReplaceObject(c)))

-----------------------------------------------------------------------------
CameraTypes ==
  /\ apiPc \in ApiPcs /\ destroying \in BOOLEAN /\ opens \in 0 .. MaxOpens
  /\ mNativePtr \in BOOLEAN /\ mContext \in BOOLEAN /\ mUsbFs \in BOOLEAN
  /\ mDevice \in BOOLEAN /\ mDeviceHandle \in BOOLEAN
  /\ mFd \in 0 .. MaxOpens /\ descriptors \subseteq Opens
HandleTypes ==
  /\ ref \in 0 .. 2 /\ devh \in BOOLEAN /\ claimed \in BOOLEAN
  /\ status_xfer \in {"none", "idle", "flying", "callback"}
  /\ open_devices \in BOOLEAN /\ kill_handler_thread \in BOOLEAN
  /\ pollfd_modify \in BOOLEAN
ThreadTypes ==
  /\ hpc \in HPcs /\ kind \in Kinds \cup {"none"} /\ called \in Objects \cup {None}
  /\ wild \in {"nobody", "client", "event thread"}
CallbackTypes ==
  /\ callback \in [Kinds -> 0 .. MaxOpens] /\ status_cb \in [Kinds -> 0 .. MaxOpens]
  /\ object \in [Kinds -> Objects \cup {None}]
ClientTypes ==
  /\ cpc \in [Clients -> {"idle", "native", "set"}]
  /\ arg \in [Clients -> Kinds \X (Objects \cup {None})]
  /\ ptr \in [Clients -> 0 .. MaxOpens] /\ sets \in [Clients -> 0 .. MaxSets]

TypeOK == CameraTypes /\ HandleTypes /\ ThreadTypes /\ CallbackTypes /\ ClientTypes

(* A camera that is not open, because it was closed or because opening it  *)
(* failed anywhere, has left nothing: no descriptor (UVCCamera.cpp:168,    *)
(* :175, :214), no reference, claim or transfer, and no event thread.      *)
ReleasedClean ==
  apiPc = "idle" /\ ~mDeviceHandle =>
    /\ descriptors = {} /\ ref = 0 /\ ~mDevice
    /\ ~devh /\ ~claimed /\ ~open_devices /\ ~pollfd_modify
    /\ status_xfer = "none" /\ NoThread

(* uvc_free_devh comes after "Streaming must be stopped, and threads must  *)
(* have died" (device.c:1530): no transfer flies into the freed handle, no *)
(* thread is left that could use it.                                       *)
FreeAlone == apiPc = "free" => NoThread /\ status_xfer # "flying" /\ ref = 2

(* The event thread uses something deleted only while release has deleted  *)
(* the callback objects and uvc_close has not joined it: never a freed     *)
(* handle, transfer or context, and never in an open camera.               *)
UsedWhileClosing ==
  wild = "event thread" => apiPc \in {"deleteButton", "kill", "signal", "lockEvents"}

(* Java's callbacks are called while the camera is open, one at a time,    *)
(* and are not replaced meanwhile: once setStatusCallback has returned the *)
(* object before is not used any more, and none is once close has.         *)
Calling == [k \in Kinds |-> IF k = kind THEN called ELSE None]
Events == INSTANCE CameraEvents WITH open <- devh, listener <- object, calling <- Calling
ImplementsEvents == Events!Spec

(* open, close and destroy return, after 60 seconds at worst, while events *)
(* come and callbacks are set; unless a Java callback waits for the        *)
(* monitor that they hold.                                                 *)
MethodsReturn ==
  (apiPc # "idle") ~> (apiPc = "idle" \/ hpc = "monitor" \/ wild # "nobody")

=============================================================================
