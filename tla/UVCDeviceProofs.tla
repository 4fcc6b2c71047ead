--------------------------- MODULE UVCDeviceProofs ---------------------------
(***************************************************************************)
(* Proofs about UVCDevice, for any number of clients, objects and openings *)
(* and whatever may fail: types, what is left when the camera is closed,   *)
(* that the handle is freed alone, and the refinement of CameraEvents.     *)
(***************************************************************************)
EXTENDS UVCDevice, TLAPS

(* uvc_open is under way; the handle is kept by connect.                   *)
Building == apiPc \in {"open", "submit", "spawn"}
IsOpen ==
  \/ apiPc \in {"status", "button", "deleteStatus", "deleteButton", "kill", "signal",
                "lockEvents", "join", "free"}
  \/ apiPc = "idle" /\ mDeviceHandle

(* Nothing of an open camera.                                              *)
Closed ==
  /\ apiPc \in {"idle", "unref"} /\ ~mDeviceHandle
  /\ ~devh /\ ~claimed /\ ~open_devices /\ ~pollfd_modify
  /\ status_xfer = "none" /\ NoThread
  /\ IF mDevice THEN apiPc = "unref" /\ ref = 1 /\ mUsbFs /\ descriptors = {mFd}
                ELSE ref = 0 /\ descriptors = {} /\ mFd = 0

Built ==
  /\ ~mDeviceHandle /\ mDevice /\ mUsbFs /\ mContext /\ ~open_devices /\ ~pollfd_modify
  /\ NoThread /\ mFd = 0 /\ opens \in Opens /\ descriptors = {opens}
  /\ IF apiPc = "open" THEN ref = 1 /\ ~devh /\ ~claimed ELSE ref = 2 /\ devh /\ claimed
  /\ status_xfer \in {"none", "flying"} /\ (apiPc # "spawn" => status_xfer = "none")

Opened ==
  /\ mDeviceHandle /\ mDevice /\ mUsbFs /\ mContext /\ open_devices
  /\ ref = 2 /\ devh /\ descriptors = {mFd} /\ opens \in Opens
  /\ claimed = (apiPc \notin {"signal", "lockEvents", "join", "free"})
  /\ pollfd_modify = (apiPc = "lockEvents")
  /\ apiPc \in {"join", "free"} => status_xfer \in {"none", "idle"}
  /\ apiPc = "free" => NoThread

StageInv == IF IsOpen THEN Opened ELSE IF Building THEN Built ELSE Closed

(* Where the event thread is and what it does.                             *)
ThreadInv ==
  /\ status_xfer = "callback" <=> hpc \in {"event", "deliver", "java", "monitor", "resubmit"}
  /\ hpc \in {"event", "deliver", "java", "monitor"} => kind \in Kinds
  /\ called # None <=> hpc \in {"java", "monitor"}

(* Where the native objects are, and who knows of them.                    *)
CallbackInv ==
  /\ apiPc \notin {"deleteButton", "kill", "signal", "lockEvents", "join", "free"}
       => callback = status_cb
  /\ ~IsOpen \/ apiPc \in {"status", "kill", "signal", "lockEvents", "join", "free"}
       => \A k \in Kinds : callback[k] = 0
  /\ apiPc = "deleteButton" => callback["status"] = 0

ClientInv == \A c \in Clients : cpc[c] = "set" => ptr[c] # 0

IInv ==
  /\ TypeOK /\ StageInv /\ ThreadInv /\ CallbackInv /\ ClientInv
  /\ UsedWhileClosing

-----------------------------------------------------------------------------
(* Every action keeps IInv: one lemma each, one step for each conjunct.    *)

LEMMA InitIInv == Init => IInv
<1>. SUFFICES ASSUME Init PROVE IInv
  OBVIOUS
<1>1. 0 \in 0 .. MaxOpens /\ 0 \in 0 .. MaxSets /\ 0 \in 0 .. 2
  BY DeviceAssumption
<1>2. CameraTypes /\ HandleTypes /\ ThreadTypes
  BY <1>1 DEF Init, CameraTypes, HandleTypes, ThreadTypes, ApiPcs, HPcs
<1>3. CallbackTypes
  BY <1>1 DEF Init, CallbackTypes
<1>4. ClientTypes
  BY <1>1 DEF Init, ClientTypes, Kinds
<1>5. StageInv
  BY DEF Init, StageInv, IsOpen, Building, Closed, NoThread
<1>6. ThreadInv /\ CallbackInv /\ ClientInv /\ UsedWhileClosing
  BY DEF Init, ThreadInv, CallbackInv, ClientInv, UsedWhileClosing
<1>. QED BY <1>2, <1>3, <1>4, <1>5, <1>6 DEF IInv, TypeOK

LEMMA ConnectInv == ASSUME IInv, wild = "nobody", Connect PROVE IInv'
<1>1. CameraTypes'
  BY DeviceAssumption DEF IInv, TypeOK, CameraTypes, ApiPcs, Opens, Connect, At
<1>2. HandleTypes'
  BY DEF IInv, TypeOK, CameraTypes, HandleTypes, Connect, context
<1>3. ThreadTypes'
  BY DEF IInv, TypeOK, ThreadTypes, Connect, thread
<1>4. CallbackTypes'
  BY DeviceAssumption DEF IInv, TypeOK, CallbackTypes, Connect, natives
<1>5. ClientTypes'
  BY DEF IInv, TypeOK, ClientTypes, Connect, clients
<1>6. StageInv'
  <2>1. Closed /\ ~mDevice /\ ~IsOpen
    BY DEF IInv, Connect, At, StageInv, IsOpen, Building, Closed
  <2>2. opens' \in Opens
    BY DeviceAssumption DEF IInv, TypeOK, CameraTypes, Connect, Opens
  <2>3. descriptors' = {opens'}
    BY <2>1 DEF Connect, Closed
  <2>4. Built'
    BY <2>1, <2>2, <2>3 DEF Connect, At, Closed, Built, NoThread, context, thread
  <2>. QED BY <2>4 DEF Connect, At, StageInv, IsOpen, Building
<1>7. ThreadInv'
  BY DEF IInv, TypeOK, ThreadInv, Connect, thread
<1>8. CallbackInv'
  BY DEF IInv, CallbackInv, IsOpen, Connect, At, natives
<1>9. ClientInv'
  BY DEF IInv, ClientInv, Connect, clients
<1>10. UsedWhileClosing'
  BY DEF ThreadTypes, UsedWhileClosing, Connect
<1>. QED BY <1>1, <1>2, <1>3, <1>4, <1>5, <1>6, <1>7, <1>8, <1>9, <1>10 DEF IInv, TypeOK

LEMMA ConnectFailsInv == ASSUME IInv, wild = "nobody", ConnectFails PROVE IInv'
<1>1. CameraTypes'
  <2>1. opens' \in 0 .. MaxOpens
    BY DeviceAssumption DEF IInv, TypeOK, CameraTypes, ConnectFails
  <2>2. mContext' \in BOOLEAN
    BY DEF IInv, TypeOK, CameraTypes, ConnectFails
  <2>. QED BY <2>1, <2>2 DEF IInv, TypeOK, CameraTypes, ConnectFails, files
<1>2. HandleTypes'
  BY DEF IInv, TypeOK, HandleTypes, ConnectFails, handle, context
<1>3. ThreadTypes'
  BY DEF IInv, TypeOK, ThreadTypes, ConnectFails, thread
<1>4. CallbackTypes'
  BY DeviceAssumption DEF IInv, TypeOK, CallbackTypes, ConnectFails, natives, handle
<1>5. ClientTypes'
  BY DEF IInv, TypeOK, ClientTypes, ConnectFails, clients
<1>6. StageInv'
  BY DeviceAssumption DEF IInv, StageInv, IsOpen, Building, Closed, NoThread, ConnectFails,
     files, handle, context, thread
<1>7. ThreadInv'
  BY DEF IInv, TypeOK, ThreadInv, ConnectFails, handle, thread
<1>8. CallbackInv'
  BY DEF IInv, CallbackInv, IsOpen, ConnectFails, natives, handle
<1>9. ClientInv'
  BY DEF IInv, ClientInv, ConnectFails, clients
<1>10. UsedWhileClosing'
  BY DEF ThreadTypes, UsedWhileClosing, ConnectFails
<1>. QED BY <1>1, <1>2, <1>3, <1>4, <1>5, <1>6, <1>7, <1>8, <1>9, <1>10 DEF IInv, TypeOK

LEMMA OpenDeviceInv == ASSUME IInv, wild = "nobody", OpenDevice PROVE IInv'
<1>1. CameraTypes'
  BY DeviceAssumption DEF IInv, TypeOK, CameraTypes, ApiPcs, OpenDevice, At, camera, files
<1>2. HandleTypes'
  BY DEF IInv, TypeOK, HandleTypes, StageInv, IsOpen, Building, Built, OpenDevice, At, context
<1>3. ThreadTypes'
  BY DEF IInv, TypeOK, ThreadTypes, OpenDevice, thread
<1>4. CallbackTypes'
  BY DeviceAssumption DEF IInv, TypeOK, CallbackTypes, OpenDevice, natives
<1>5. ClientTypes'
  BY DEF IInv, TypeOK, ClientTypes, OpenDevice, clients
<1>6. StageInv'
  BY DeviceAssumption DEF IInv, StageInv, IsOpen, Building, Built, NoThread, OpenDevice, At,
     camera, files, context, thread
<1>7. ThreadInv'
  BY DEF IInv, TypeOK, ThreadInv, OpenDevice, thread
<1>8. CallbackInv'
  BY DEF IInv, CallbackInv, IsOpen, OpenDevice, At, natives
<1>9. ClientInv'
  BY DEF IInv, ClientInv, OpenDevice, clients
<1>10. UsedWhileClosing'
  BY DEF ThreadTypes, UsedWhileClosing, OpenDevice
<1>. QED BY <1>1, <1>2, <1>3, <1>4, <1>5, <1>6, <1>7, <1>8, <1>9, <1>10 DEF IInv, TypeOK

LEMMA OpenFailsInv == ASSUME IInv, wild = "nobody", OpenFails PROVE IInv'
<1>1. CameraTypes'
  BY DeviceAssumption DEF IInv, TypeOK, CameraTypes, ApiPcs, OpenFails, At
<1>2. HandleTypes'
  <2>1. Built
    BY DEF IInv, OpenFails, At, StageInv, IsOpen, Building
  <2>2. ref' = 0
    BY <2>1 DEF OpenFails, At, UnrefHandle, Built
  <2>3. ref' \in 0 .. 2
    BY <2>2
  <2>. QED BY <2>3 DEF IInv, TypeOK, HandleTypes, OpenFails, context
<1>3. ThreadTypes'
  BY DEF IInv, TypeOK, ThreadTypes, OpenFails, thread
<1>4. CallbackTypes'
  BY DeviceAssumption DEF IInv, TypeOK, CallbackTypes, OpenFails, natives
<1>5. ClientTypes'
  BY DEF IInv, TypeOK, ClientTypes, OpenFails, clients
<1>6. StageInv'
  BY DeviceAssumption DEF IInv, StageInv, IsOpen, Building, Built, Closed, NoThread, OpenFails,
     At, UnrefHandle, context, thread
<1>7. ThreadInv'
  BY DEF IInv, TypeOK, ThreadInv, OpenFails, thread
<1>8. CallbackInv'
  BY DEF IInv, CallbackInv, IsOpen, OpenFails, At, natives
<1>9. ClientInv'
  BY DEF IInv, ClientInv, OpenFails, clients
<1>10. UsedWhileClosing'
  BY DEF ThreadTypes, UsedWhileClosing, OpenFails
<1>. QED BY <1>1, <1>2, <1>3, <1>4, <1>5, <1>6, <1>7, <1>8, <1>9, <1>10 DEF IInv, TypeOK

LEMMA SubmitStatusInv == ASSUME IInv, wild = "nobody", SubmitStatus PROVE IInv'
<1>1. CameraTypes'
  BY DeviceAssumption DEF IInv, TypeOK, CameraTypes, ApiPcs, SubmitStatus, At, camera, files
<1>2. HandleTypes'
  BY DEF IInv, TypeOK, CameraTypes, HandleTypes, SubmitStatus, context
<1>3. ThreadTypes'
  BY DEF IInv, TypeOK, ThreadTypes, SubmitStatus, thread
<1>4. CallbackTypes'
  BY DeviceAssumption DEF IInv, TypeOK, CallbackTypes, SubmitStatus, natives
<1>5. ClientTypes'
  BY DEF IInv, TypeOK, ClientTypes, SubmitStatus, clients
<1>6. StageInv'
  BY DeviceAssumption DEF IInv, StageInv, IsOpen, Building, Built, NoThread, SubmitStatus, At,
     camera, files, context, thread
<1>7. ThreadInv'
  BY DEF IInv, ThreadInv, StageInv, IsOpen, Building, Built, SubmitStatus, At, thread
<1>8. CallbackInv'
  BY DEF IInv, CallbackInv, IsOpen, SubmitStatus, At, natives
<1>9. ClientInv'
  BY DEF IInv, ClientInv, SubmitStatus, clients
<1>10. UsedWhileClosing'
  BY DEF ThreadTypes, UsedWhileClosing, SubmitStatus
<1>. QED BY <1>1, <1>2, <1>3, <1>4, <1>5, <1>6, <1>7, <1>8, <1>9, <1>10 DEF IInv, TypeOK

LEMMA SpawnHandlerInv == ASSUME IInv, wild = "nobody", SpawnHandler PROVE IInv'
<1>1. CameraTypes'
  BY DeviceAssumption DEF IInv, TypeOK, CameraTypes, ApiPcs, SpawnHandler, At
<1>2. HandleTypes'
  BY DEF IInv, TypeOK, CameraTypes, HandleTypes, SpawnHandler, handle
<1>3. ThreadTypes'
  BY DEF IInv, TypeOK, ThreadTypes, HPcs, SpawnHandler
<1>4. CallbackTypes'
  BY DeviceAssumption DEF IInv, TypeOK, CallbackTypes, SpawnHandler, natives, handle
<1>5. ClientTypes'
  BY DEF IInv, TypeOK, ClientTypes, SpawnHandler, clients
<1>6. StageInv'
  BY DeviceAssumption DEF IInv, TypeOK, HandleTypes, StageInv, IsOpen, Built, Opened, Closed,
     SpawnHandler, At, handle
<1>7. ThreadInv'
  BY DEF IInv, ThreadInv, StageInv, Built, Opened, Closed, SpawnHandler, FirstDevice, handle
<1>8. CallbackInv'
  BY DEF IInv, CallbackInv, IsOpen, SpawnHandler, At, natives, handle
<1>9. ClientInv'
  BY DEF IInv, ClientInv, SpawnHandler, clients
<1>10. UsedWhileClosing'
  BY DEF ThreadTypes, UsedWhileClosing, SpawnHandler
<1>. QED BY <1>1, <1>2, <1>3, <1>4, <1>5, <1>6, <1>7, <1>8, <1>9, <1>10 DEF IInv, TypeOK

LEMMA CloseInv == ASSUME IInv, wild = "nobody", Close PROVE IInv'
<1>1. CameraTypes'
  BY DeviceAssumption DEF IInv, TypeOK, CameraTypes, ApiPcs, Close, camera, files
<1>2. HandleTypes'
  BY DEF IInv, TypeOK, CameraTypes, HandleTypes, Close, handle, context
<1>3. ThreadTypes'
  BY DEF IInv, TypeOK, ThreadTypes, Close, thread
<1>4. CallbackTypes'
  BY DeviceAssumption DEF IInv, TypeOK, CallbackTypes, Close, natives, handle
<1>5. ClientTypes'
  BY DEF IInv, TypeOK, ClientTypes, Close, clients
<1>6. StageInv'
  BY DeviceAssumption DEF IInv, StageInv, IsOpen, Building, Opened, Closed, NoThread, Close,
     camera, files, handle, context, thread
<1>7. ThreadInv'
  BY DEF IInv, TypeOK, ThreadInv, Close, handle, thread
<1>8. CallbackInv'
  BY DEF IInv, CallbackInv, IsOpen, Close, natives, handle
<1>9. ClientInv'
  BY DEF IInv, ClientInv, Close, clients
<1>10. UsedWhileClosing'
  BY DEF ThreadTypes, UsedWhileClosing, Close
<1>. QED BY <1>1, <1>2, <1>3, <1>4, <1>5, <1>6, <1>7, <1>8, <1>9, <1>10 DEF IInv, TypeOK

LEMMA KillHandlerInv == ASSUME IInv, wild = "nobody", KillHandler PROVE IInv'
<1>1. CameraTypes'
  BY DeviceAssumption DEF IInv, TypeOK, CameraTypes, ApiPcs, KillHandler, At, camera, files
<1>2. HandleTypes'
  BY DEF IInv, TypeOK, CameraTypes, HandleTypes, KillHandler
<1>3. ThreadTypes'
  BY DEF IInv, TypeOK, ThreadTypes, KillHandler, thread
<1>4. CallbackTypes'
  BY DeviceAssumption DEF IInv, TypeOK, CallbackTypes, KillHandler, natives
<1>5. ClientTypes'
  BY DEF IInv, TypeOK, ClientTypes, KillHandler, clients
<1>6. StageInv'
  BY DeviceAssumption DEF IInv, StageInv, IsOpen, Opened, KillHandler, At, camera, files
<1>7. ThreadInv'
  BY DEF IInv, TypeOK, ThreadInv, KillHandler, thread
<1>8. CallbackInv'
  BY DEF IInv, CallbackInv, KillHandler, At, natives
<1>9. ClientInv'
  BY DEF IInv, ClientInv, KillHandler, clients
<1>10. UsedWhileClosing'
  BY DEF ThreadTypes, UsedWhileClosing, KillHandler
<1>. QED BY <1>1, <1>2, <1>3, <1>4, <1>5, <1>6, <1>7, <1>8, <1>9, <1>10 DEF IInv, TypeOK

LEMMA SignalEventsInv == ASSUME IInv, wild = "nobody", SignalEvents PROVE IInv'
<1>1. CameraTypes'
  BY DeviceAssumption DEF IInv, TypeOK, CameraTypes, ApiPcs, SignalEvents, At, camera, files
<1>2. HandleTypes'
  BY DEF IInv, TypeOK, CameraTypes, HandleTypes, SignalEvents, handle
<1>3. ThreadTypes'
  BY DEF IInv, TypeOK, ThreadTypes, SignalEvents, thread
<1>4. CallbackTypes'
  BY DeviceAssumption DEF IInv, TypeOK, CallbackTypes, SignalEvents, natives, handle
<1>5. ClientTypes'
  BY DEF IInv, TypeOK, ClientTypes, SignalEvents, clients
<1>6. StageInv'
  BY DeviceAssumption DEF IInv, StageInv, IsOpen, Opened, SignalEvents, At, camera, files,
     handle
<1>7. ThreadInv'
  BY DEF IInv, TypeOK, ThreadInv, SignalEvents, handle, thread
<1>8. CallbackInv'
  BY DEF IInv, CallbackInv, SignalEvents, At, natives
<1>9. ClientInv'
  BY DEF IInv, ClientInv, SignalEvents, clients
<1>10. UsedWhileClosing'
  BY DEF ThreadTypes, UsedWhileClosing, SignalEvents
<1>. QED BY <1>1, <1>2, <1>3, <1>4, <1>5, <1>6, <1>7, <1>8, <1>9, <1>10 DEF IInv, TypeOK

LEMMA CloseUsbInv == ASSUME IInv, wild = "nobody", CloseUsb PROVE IInv'
<1>1. CameraTypes'
  BY DeviceAssumption DEF IInv, TypeOK, CameraTypes, ApiPcs, CloseUsb, At, camera, files
<1>2. HandleTypes'
  BY DEF IInv, TypeOK, CameraTypes, HandleTypes, CloseUsb, NoLongerFlying
<1>3. ThreadTypes'
  BY DEF IInv, TypeOK, ThreadTypes, HPcs, CloseUsb, Woken
<1>4. CallbackTypes'
  BY DeviceAssumption DEF IInv, TypeOK, CallbackTypes, CloseUsb, natives
<1>5. ClientTypes'
  BY DEF IInv, TypeOK, ClientTypes, CloseUsb, clients
<1>6. StageInv'
  BY DeviceAssumption DEF IInv, TypeOK, HandleTypes, ThreadInv, StageInv, IsOpen, Opened,
     CloseUsb, At, NoLongerFlying, HoldsEvents, camera, files
<1>7. ThreadInv'
  BY DEF IInv, TypeOK, ThreadInv, StageInv, CloseUsb, NoLongerFlying, Woken
<1>8. CallbackInv'
  BY DEF IInv, TypeOK, CallbackTypes, CallbackInv, CloseUsb, At, natives
<1>9. ClientInv'
  BY DEF IInv, ClientInv, CloseUsb, clients
<1>10. UsedWhileClosing'
  BY DEF ThreadTypes, UsedWhileClosing, CloseUsb
<1>. QED BY <1>1, <1>2, <1>3, <1>4, <1>5, <1>6, <1>7, <1>8, <1>9, <1>10 DEF IInv, TypeOK

LEMMA JoinHandlerInv == ASSUME IInv, wild = "nobody", JoinHandler PROVE IInv'
<1>1. CameraTypes'
  BY DeviceAssumption DEF IInv, TypeOK, CameraTypes, ApiPcs, JoinHandler, At, camera, files
<1>2. HandleTypes'
  BY DEF IInv, TypeOK, CameraTypes, HandleTypes, JoinHandler, handle, context
<1>3. ThreadTypes'
  BY DEF IInv, TypeOK, ThreadTypes, JoinHandler, thread
<1>4. CallbackTypes'
  BY DeviceAssumption DEF IInv, TypeOK, CallbackTypes, JoinHandler, natives, handle
<1>5. ClientTypes'
  BY DEF IInv, TypeOK, ClientTypes, JoinHandler, clients
<1>6. StageInv'
  BY DeviceAssumption DEF IInv, StageInv, IsOpen, Opened, NoThread, JoinHandler, At, Joined,
     camera, files, handle, context, thread
<1>7. ThreadInv'
  BY DEF IInv, TypeOK, ThreadInv, JoinHandler, handle, thread
<1>8. CallbackInv'
  BY DEF IInv, CallbackInv, JoinHandler, At, natives
<1>9. ClientInv'
  BY DEF IInv, ClientInv, JoinHandler, clients
<1>10. UsedWhileClosing'
  BY DEF ThreadTypes, UsedWhileClosing, JoinHandler
<1>. QED BY <1>1, <1>2, <1>3, <1>4, <1>5, <1>6, <1>7, <1>8, <1>9, <1>10 DEF IInv, TypeOK

LEMMA FreeHandleInv == ASSUME IInv, wild = "nobody", FreeHandle PROVE IInv'
<1>1. CameraTypes'
  BY DeviceAssumption DEF IInv, TypeOK, CameraTypes, ApiPcs, FreeHandle, At, files
<1>2. HandleTypes'
  <2>1. ref' = 1
    BY DEF IInv, FreeHandle, At, StageInv, IsOpen, Opened
  <2>2. ref' \in 0 .. 2
    BY <2>1
  <2>. QED BY <2>2 DEF IInv, TypeOK, HandleTypes, FreeHandle
<1>3. ThreadTypes'
  BY DEF IInv, TypeOK, ThreadTypes, FreeHandle, thread
<1>4. CallbackTypes'
  BY DeviceAssumption DEF IInv, TypeOK, CallbackTypes, FreeHandle, natives
<1>5. ClientTypes'
  BY DEF IInv, TypeOK, ClientTypes, FreeHandle, clients
<1>6. StageInv'
  <2>1. Opened /\ NoThread
    BY DEF IInv, FreeHandle, At, StageInv, IsOpen, Opened
  <2>2. Closed'
    <3>1. ref' = 1 /\ apiPc' = "unref"
      BY <2>1 DEF FreeHandle, At, Opened
    <3>2. mDevice' /\ mUsbFs' /\ descriptors' = {mFd'} /\ ~claimed' /\ ~pollfd_modify'
      BY <2>1 DEF FreeHandle, At, Opened, files
    <3>. QED BY <2>1, <3>1, <3>2 DEF FreeHandle, Closed, NoThread, thread
  <2>. QED BY <2>2 DEF FreeHandle, At, StageInv, IsOpen, Building
<1>7. ThreadInv'
  BY DEF IInv, ThreadInv, StageInv, Built, Opened, Closed, FreeHandle, At, thread
<1>8. CallbackInv'
  BY DEF IInv, TypeOK, CallbackTypes, CallbackInv, FreeHandle, At, natives
<1>9. ClientInv'
  BY DEF IInv, ClientInv, FreeHandle, clients
<1>10. UsedWhileClosing'
  BY DEF ThreadTypes, UsedWhileClosing, FreeHandle
<1>. QED BY <1>1, <1>2, <1>3, <1>4, <1>5, <1>6, <1>7, <1>8, <1>9, <1>10 DEF IInv, TypeOK

LEMMA UnrefDeviceInv == ASSUME IInv, wild = "nobody", UnrefDevice PROVE IInv'
<1>1. CameraTypes'
  <2>1. descriptors' \subseteq Opens
    BY DEF IInv, TypeOK, CameraTypes, UnrefDevice
  <2>2. 0 \in 0 .. MaxOpens
    BY DeviceAssumption
  <2>3. mContext' \in BOOLEAN /\ mNativePtr' \in BOOLEAN
    BY DEF UnrefDevice
  <2>. QED BY <2>1, <2>2, <2>3 DEF IInv, TypeOK, CameraTypes, UnrefDevice, At, ApiPcs
<1>2. HandleTypes'
  BY DEF IInv, TypeOK, HandleTypes, StageInv, Built, Opened, Closed, UnrefDevice, context
<1>3. ThreadTypes'
  BY DEF IInv, TypeOK, ThreadTypes, UnrefDevice, thread
<1>4. CallbackTypes'
  BY DeviceAssumption DEF IInv, TypeOK, CallbackTypes, UnrefDevice, natives
<1>5. ClientTypes'
  BY DEF IInv, TypeOK, ClientTypes, UnrefDevice, clients
<1>6. StageInv'
  BY DeviceAssumption DEF IInv, StageInv, IsOpen, Building, Closed, NoThread, UnrefDevice, At,
     context, thread
<1>7. ThreadInv'
  BY DEF IInv, TypeOK, ThreadInv, UnrefDevice, thread
<1>8. CallbackInv'
  BY DEF IInv, CallbackInv, IsOpen, UnrefDevice, At, natives
<1>9. ClientInv'
  BY DEF IInv, ClientInv, UnrefDevice, clients
<1>10. UsedWhileClosing'
  BY DEF ThreadTypes, UsedWhileClosing, UnrefDevice
<1>. QED BY <1>1, <1>2, <1>3, <1>4, <1>5, <1>6, <1>7, <1>8, <1>9, <1>10 DEF IInv, TypeOK

LEMMA NewCallbackInv == ASSUME IInv, wild = "nobody", NEW k \in Kinds, NewCallback(k) PROVE IInv'
<1>1. CameraTypes'
  BY DeviceAssumption DEF IInv, TypeOK, CameraTypes, ApiPcs, NewCallback, At, camera, files
<1>2. HandleTypes'
  BY DEF IInv, TypeOK, CameraTypes, HandleTypes, NewCallback, context
<1>3. ThreadTypes'
  BY DEF IInv, TypeOK, ThreadTypes, NewCallback, thread
<1>4. CallbackTypes'
  BY DeviceAssumption DEF IInv, TypeOK, CameraTypes, CallbackTypes, NewCallback
<1>5. ClientTypes'
  BY DEF IInv, TypeOK, ClientTypes, NewCallback, clients
<1>6. StageInv'
  BY DeviceAssumption DEF IInv, StageInv, IsOpen, Opened, NewCallback, At, camera, files,
     context
<1>7. ThreadInv'
  BY DEF IInv, TypeOK, ThreadInv, NewCallback, thread
<1>8. CallbackInv'
  <2>1. callback = status_cb /\ (apiPc = "status" => \A j \in Kinds : callback[j] = 0)
    BY DEF IInv, CallbackInv, NewCallback, At
  <2>2. callback' = status_cb'
    BY <2>1 DEF NewCallback
  <2>3. apiPc' = "button" \/ (apiPc' = "idle" /\ IsOpen')
    BY DEF IInv, StageInv, Opened, IsOpen, NewCallback, At, camera
  <2>. QED BY <2>2, <2>3 DEF CallbackInv, IsOpen
<1>9. ClientInv'
  BY DEF IInv, ClientInv, NewCallback, clients
<1>10. UsedWhileClosing'
  BY DEF ThreadTypes, UsedWhileClosing, NewCallback
<1>. QED BY <1>1, <1>2, <1>3, <1>4, <1>5, <1>6, <1>7, <1>8, <1>9, <1>10 DEF IInv, TypeOK

LEMMA DeleteCallbackInv == ASSUME IInv, wild = "nobody", NEW k \in Kinds, DeleteCallback(k)
  PROVE  IInv'
<1>1. CameraTypes'
  BY DeviceAssumption DEF IInv, TypeOK, CameraTypes, ApiPcs, DeleteCallback, At, camera, files
<1>2. HandleTypes'
  BY DEF IInv, TypeOK, HandleTypes, DeleteCallback, handle, context
<1>3. ThreadTypes'
  BY DEF IInv, TypeOK, ThreadTypes, DeleteCallback, thread
<1>4. CallbackTypes'
  BY DeviceAssumption DEF IInv, TypeOK, CallbackTypes, DeleteCallback, handle
<1>5. ClientTypes'
  BY DEF IInv, TypeOK, ClientTypes, DeleteCallback, clients
<1>6. StageInv'
  BY DeviceAssumption DEF IInv, StageInv, IsOpen, Opened, DeleteCallback, At, camera, files,
     handle, context
<1>7. ThreadInv'
  BY DEF IInv, TypeOK, ThreadInv, DeleteCallback, handle, thread
<1>8. CallbackInv'
  <2>1. callback' = [callback EXCEPT ![k] = 0] /\ DOMAIN callback = Kinds
    BY DEF IInv, TypeOK, CallbackTypes, DeleteCallback
  <2>2. CASE k = "status"
    <3>1. apiPc' = "deleteButton" /\ callback'["status"] = 0
      BY <2>1, <2>2 DEF DeleteCallback, At
    <3>. QED BY <3>1 DEF CallbackInv, IsOpen
  <2>3. CASE k = "button"
    <3>1. apiPc' = "kill" /\ callback["status"] = 0
      BY <2>3 DEF IInv, CallbackInv, DeleteCallback, At
    <3>2. \A j \in Kinds : callback'[j] = 0
      BY <2>1, <2>3, <3>1 DEF Kinds
    <3>. QED BY <3>1, <3>2 DEF CallbackInv
  <2>. QED BY <2>2, <2>3 DEF Kinds
<1>9. ClientInv'
  BY DEF IInv, ClientInv, DeleteCallback, clients
<1>10. UsedWhileClosing'
  BY DEF ThreadTypes, UsedWhileClosing, DeleteCallback
<1>. QED BY <1>1, <1>2, <1>3, <1>4, <1>5, <1>6, <1>7, <1>8, <1>9, <1>10 DEF IInv, TypeOK

LEMMA LoopInv == ASSUME IInv, wild = "nobody", EventLoop \/ PollTimeout \/ WaitTimeout PROVE IInv'
<1>1. CameraTypes'
  BY DeviceAssumption DEF IInv, TypeOK, CameraTypes, EventLoop, PollTimeout, WaitTimeout,
     CheckKill, EnterEvents, WaitForEvent, Interrupted, Loop, api, camera, files
<1>2. HandleTypes'
  BY DEF IInv, TypeOK, HandleTypes, EventLoop, PollTimeout, WaitTimeout, CheckKill, EnterEvents,
     WaitForEvent, Interrupted, Loop, handle, context
<1>3. ThreadTypes'
  BY DEF IInv, TypeOK, ThreadTypes, HPcs, EventLoop, PollTimeout, WaitTimeout, CheckKill,
     EnterEvents, WaitForEvent, Interrupted, Loop, Uses
<1>4. CallbackTypes'
  BY DeviceAssumption DEF IInv, TypeOK, CallbackTypes, EventLoop, PollTimeout, WaitTimeout,
     CheckKill, EnterEvents, WaitForEvent, Interrupted, Loop, natives, handle
<1>5. ClientTypes'
  BY DEF IInv, TypeOK, ClientTypes, EventLoop, PollTimeout, WaitTimeout, CheckKill, EnterEvents,
     WaitForEvent, Interrupted, Loop, clients
<1>6. StageInv'
  BY DeviceAssumption DEF IInv, TypeOK, CameraTypes, HandleTypes, StageInv, IsOpen, Built,
     Opened, Closed, NoThread, EventLoop, PollTimeout, WaitTimeout, CheckKill, EnterEvents,
     WaitForEvent, Interrupted, Loop, api, camera, files, handle, context
<1>7. ThreadInv'
  BY DEF IInv, TypeOK, ThreadInv, StageInv, EventLoop, PollTimeout, WaitTimeout, CheckKill,
     EnterEvents, WaitForEvent, Interrupted, Loop, handle
<1>8. CallbackInv'
  BY DEF IInv, CallbackInv, IsOpen, EventLoop, PollTimeout, WaitTimeout, CheckKill, EnterEvents,
     WaitForEvent, Interrupted, Loop, api, camera, natives, handle
<1>9. ClientInv'
  BY DEF IInv, ClientInv, EventLoop, PollTimeout, WaitTimeout, CheckKill, EnterEvents,
     WaitForEvent, Interrupted, Loop, clients
<1>10. UsedWhileClosing'
  BY DEF IInv, UsedWhileClosing, StageInv, Built, Opened, Closed, NoThread, EventLoop,
     PollTimeout, WaitTimeout, CheckKill, EnterEvents, WaitForEvent, Interrupted, Loop, Uses
<1>. QED BY <1>1, <1>2, <1>3, <1>4, <1>5, <1>6, <1>7, <1>8, <1>9, <1>10 DEF IInv, TypeOK

LEMMA StatusEventInv == ASSUME IInv, wild = "nobody", StatusEvent PROVE IInv'
<1>1. CameraTypes'
  BY DeviceAssumption DEF IInv, TypeOK, CameraTypes, StatusEvent, api, camera, files
<1>2. HandleTypes'
  BY DEF IInv, TypeOK, CameraTypes, HandleTypes, StatusEvent, context
<1>3. ThreadTypes'
  BY DEF IInv, TypeOK, ThreadTypes, HPcs, StatusEvent
<1>4. CallbackTypes'
  BY DeviceAssumption DEF IInv, TypeOK, CallbackTypes, StatusEvent, natives
<1>5. ClientTypes'
  BY DEF IInv, TypeOK, ClientTypes, StatusEvent, clients
<1>6. StageInv'
  BY DeviceAssumption DEF IInv, StageInv, IsOpen, Built, Opened, Closed, NoThread, StatusEvent,
     api, camera, files, context
<1>7. ThreadInv'
  BY DEF IInv, TypeOK, ThreadInv, StatusEvent
<1>8. CallbackInv'
  BY DEF IInv, CallbackInv, IsOpen, StatusEvent, api, camera, natives
<1>9. ClientInv'
  BY DEF IInv, ClientInv, StatusEvent, clients
<1>10. UsedWhileClosing'
  BY DEF ThreadTypes, UsedWhileClosing, StatusEvent
<1>. QED BY <1>1, <1>2, <1>3, <1>4, <1>5, <1>6, <1>7, <1>8, <1>9, <1>10 DEF IInv, TypeOK

LEMMA LockStatusInv == ASSUME IInv, wild = "nobody", LockStatus PROVE IInv'
<1>1. CameraTypes'
  BY DeviceAssumption DEF IInv, TypeOK, CameraTypes, LockStatus, api, camera, files
<1>2. HandleTypes'
  BY DEF IInv, TypeOK, CameraTypes, HandleTypes, LockStatus, handle, context
<1>3. ThreadTypes'
  BY DEF IInv, ThreadTypes, ThreadInv, HPcs, LockStatus, Uses
<1>4. CallbackTypes'
  BY DeviceAssumption DEF IInv, TypeOK, CallbackTypes, LockStatus, natives, handle
<1>5. ClientTypes'
  BY DEF IInv, TypeOK, ClientTypes, LockStatus, clients
<1>6. StageInv'
  BY DeviceAssumption DEF IInv, StageInv, IsOpen, Built, Opened, Closed, NoThread, LockStatus,
     api, camera, files, handle, context
<1>7. ThreadInv'
  BY DEF IInv, TypeOK, ThreadInv, LockStatus, handle
<1>8. CallbackInv'
  BY DEF IInv, CallbackInv, IsOpen, LockStatus, api, camera, natives, handle
<1>9. ClientInv'
  BY DEF IInv, ClientInv, LockStatus, clients
<1>10. UsedWhileClosing'
  BY DEF IInv, UsedWhileClosing, StageInv, Built, Opened, Closed, NoThread, LockStatus, Uses
<1>. QED BY <1>1, <1>2, <1>3, <1>4, <1>5, <1>6, <1>7, <1>8, <1>9, <1>10 DEF IInv, TypeOK

LEMMA LockObjectInv == ASSUME IInv, wild = "nobody", LockObject PROVE IInv'
<1>1. CameraTypes'
  BY DeviceAssumption DEF IInv, TypeOK, CameraTypes, LockObject, api, camera, files
<1>2. HandleTypes'
  BY DEF IInv, TypeOK, CameraTypes, HandleTypes, LockObject, handle, context
<1>3. ThreadTypes'
  BY DEF IInv, TypeOK, ThreadTypes, CallbackTypes, ThreadInv, HPcs, LockObject, Uses
<1>4. CallbackTypes'
  BY DeviceAssumption DEF IInv, TypeOK, CallbackTypes, LockObject, natives, handle
<1>5. ClientTypes'
  BY DEF IInv, TypeOK, ClientTypes, LockObject, clients
<1>6. StageInv'
  BY DeviceAssumption DEF IInv, StageInv, IsOpen, Built, Opened, Closed, NoThread, LockObject,
     api, camera, files, handle, context
<1>7. ThreadInv'
  BY DEF IInv, TypeOK, ThreadInv, LockObject, handle
<1>8. CallbackInv'
  BY DEF IInv, CallbackInv, IsOpen, LockObject, api, camera, natives, handle
<1>9. ClientInv'
  BY DEF IInv, ClientInv, LockObject, clients
<1>10. UsedWhileClosing'
  BY DEF IInv, UsedWhileClosing, CallbackInv, ThreadInv, StageInv, IsOpen, Opened, LockObject,
     Uses, api
<1>. QED BY <1>1, <1>2, <1>3, <1>4, <1>5, <1>6, <1>7, <1>8, <1>9, <1>10 DEF IInv, TypeOK

LEMMA CallMethodInv == ASSUME IInv, wild = "nobody", CallMethod PROVE IInv'
<1>1. CameraTypes'
  BY DeviceAssumption DEF IInv, TypeOK, CameraTypes, CallMethod, api, camera, files
<1>2. HandleTypes'
  BY DEF IInv, TypeOK, CameraTypes, HandleTypes, CallMethod, handle, context
<1>3. ThreadTypes'
  BY DEF IInv, TypeOK, ThreadTypes, HPcs, CallMethod
<1>4. CallbackTypes'
  BY DeviceAssumption DEF IInv, TypeOK, CallbackTypes, CallMethod, natives, handle
<1>5. ClientTypes'
  BY DEF IInv, TypeOK, ClientTypes, CallMethod, clients
<1>6. StageInv'
  BY DeviceAssumption DEF IInv, StageInv, IsOpen, Built, Opened, Closed, NoThread, CallMethod,
     api, camera, files, handle, context
<1>7. ThreadInv'
  BY DEF IInv, TypeOK, ThreadInv, CallMethod, handle
<1>8. CallbackInv'
  BY DEF IInv, CallbackInv, IsOpen, CallMethod, api, camera, natives, handle
<1>9. ClientInv'
  BY DEF IInv, ClientInv, CallMethod, clients
<1>10. UsedWhileClosing'
  BY DEF ThreadTypes, UsedWhileClosing, CallMethod
<1>. QED BY <1>1, <1>2, <1>3, <1>4, <1>5, <1>6, <1>7, <1>8, <1>9, <1>10 DEF IInv, TypeOK

LEMMA JavaReturnsInv == ASSUME IInv, wild = "nobody", JavaReturns PROVE IInv'
<1>1. CameraTypes'
  BY DeviceAssumption DEF IInv, TypeOK, CameraTypes, JavaReturns, api, camera, files
<1>2. HandleTypes'
  BY DEF IInv, TypeOK, CameraTypes, HandleTypes, JavaReturns, handle, context
<1>3. ThreadTypes'
  BY DEF IInv, ThreadTypes, ThreadInv, HPcs, JavaReturns, Uses
<1>4. CallbackTypes'
  BY DeviceAssumption DEF IInv, TypeOK, CallbackTypes, JavaReturns, natives, handle
<1>5. ClientTypes'
  BY DEF IInv, TypeOK, ClientTypes, JavaReturns, clients
<1>6. StageInv'
  BY DeviceAssumption DEF IInv, StageInv, IsOpen, Built, Opened, Closed, NoThread, JavaReturns,
     api, camera, files, handle, context
<1>7. ThreadInv'
  BY DEF IInv, TypeOK, ThreadInv, JavaReturns, handle
<1>8. CallbackInv'
  BY DEF IInv, CallbackInv, IsOpen, JavaReturns, api, camera, natives, handle
<1>9. ClientInv'
  BY DEF IInv, ClientInv, JavaReturns, clients
<1>10. UsedWhileClosing'
  BY DEF IInv, UsedWhileClosing, CallbackInv, ThreadInv, StageInv, IsOpen, Opened, JavaReturns,
     Uses, api
<1>. QED BY <1>1, <1>2, <1>3, <1>4, <1>5, <1>6, <1>7, <1>8, <1>9, <1>10 DEF IInv, TypeOK

LEMMA ResubmitInv == ASSUME IInv, wild = "nobody", Resubmit PROVE IInv'
<1>1. CameraTypes'
  BY DeviceAssumption DEF IInv, TypeOK, CameraTypes, Resubmit, api, camera, files
<1>2. HandleTypes'
  BY DEF IInv, TypeOK, CameraTypes, HandleTypes, Resubmit, context
<1>3. ThreadTypes'
  BY DEF IInv, TypeOK, ThreadTypes, HPcs, Resubmit, Uses
<1>4. CallbackTypes'
  BY DeviceAssumption DEF IInv, TypeOK, CallbackTypes, Resubmit, natives
<1>5. ClientTypes'
  BY DEF IInv, TypeOK, ClientTypes, Resubmit, clients
<1>6. StageInv'
  BY DeviceAssumption DEF IInv, ThreadInv, StageInv, IsOpen, Built, Opened, Closed, Resubmit,
     api, camera, files, context
<1>7. ThreadInv'
  BY DEF IInv, TypeOK, ThreadInv, Resubmit
<1>8. CallbackInv'
  BY DEF IInv, CallbackInv, IsOpen, Resubmit, api, camera, natives
<1>9. ClientInv'
  BY DEF IInv, ClientInv, Resubmit, clients
<1>10. UsedWhileClosing'
  BY DEF IInv, UsedWhileClosing, StageInv, Built, Opened, Closed, NoThread, Resubmit, Uses
<1>. QED BY <1>1, <1>2, <1>3, <1>4, <1>5, <1>6, <1>7, <1>8, <1>9, <1>10 DEF IInv, TypeOK

LEMMA SetCallbackInv == ASSUME IInv, wild = "nobody", NEW c \in Clients, SetCallback(c) PROVE IInv'
<1>1. CameraTypes'
  BY DeviceAssumption DEF IInv, TypeOK, CameraTypes, ApiPcs, SetCallback, api, camera, files
<1>2. HandleTypes'
  BY DEF IInv, TypeOK, CameraTypes, HandleTypes, SetCallback, handle, context
<1>3. ThreadTypes'
  BY DEF IInv, TypeOK, ThreadTypes, SetCallback, thread
<1>4. CallbackTypes'
  BY DeviceAssumption DEF IInv, TypeOK, CallbackTypes, SetCallback, natives, handle
<1>5. ClientTypes'
  <2>1. PICK k \in Kinds, o \in Objects \cup {None} : arg' = [arg EXCEPT ![c] = <<k, o>>]
    BY DEF SetCallback
  <2>2. arg' \in [Clients -> Kinds \X (Objects \cup {None})]
    BY <2>1 DEF IInv, TypeOK, ClientTypes
  <2>3. sets[c] + 1 \in 0 .. MaxSets
    BY DeviceAssumption DEF IInv, TypeOK, ClientTypes, SetCallback
  <2>. QED BY <2>2, <2>3 DEF IInv, TypeOK, ClientTypes, SetCallback
<1>6. StageInv'
  BY DeviceAssumption DEF IInv, StageInv, IsOpen, Building, Built, Opened, Closed, NoThread,
     SetCallback, api, camera, files, handle, context, thread
<1>7. ThreadInv'
  BY DEF IInv, TypeOK, ThreadInv, SetCallback, handle, thread
<1>8. CallbackInv'
  BY DEF IInv, CallbackInv, IsOpen, SetCallback, api, camera, natives, handle
<1>9. ClientInv'
  BY DEF IInv, ClientInv, SetCallback
<1>10. UsedWhileClosing'
  BY DEF ThreadTypes, UsedWhileClosing, SetCallback
<1>. QED BY <1>1, <1>2, <1>3, <1>4, <1>5, <1>6, <1>7, <1>8, <1>9, <1>10 DEF IInv, TypeOK

LEMMA FindCallbackInv == ASSUME IInv, wild = "nobody", NEW c \in Clients, FindCallback(c)
  PROVE  IInv'
<1>1. CameraTypes'
  BY DeviceAssumption DEF IInv, TypeOK, CameraTypes, ApiPcs, FindCallback, api, camera, files
<1>2. HandleTypes'
  BY DEF IInv, TypeOK, CameraTypes, HandleTypes, FindCallback, handle, context
<1>3. ThreadTypes'
  BY DEF IInv, TypeOK, ThreadTypes, FindCallback, thread
<1>4. CallbackTypes'
  BY DeviceAssumption DEF IInv, TypeOK, CallbackTypes, FindCallback, natives, handle
<1>5. ClientTypes'
  BY DEF IInv, TypeOK, CallbackTypes, ClientTypes, FindCallback
<1>6. StageInv'
  BY DeviceAssumption DEF IInv, StageInv, IsOpen, Building, Built, Opened, Closed, NoThread,
     FindCallback, api, camera, files, handle, context, thread
<1>7. ThreadInv'
  BY DEF IInv, TypeOK, ThreadInv, FindCallback, handle, thread
<1>8. CallbackInv'
  BY DEF IInv, CallbackInv, IsOpen, FindCallback, api, camera, natives, handle
<1>9. ClientInv'
  BY DEF IInv, TypeOK, ClientTypes, ClientInv, FindCallback
<1>10. UsedWhileClosing'
  BY DEF ThreadTypes, UsedWhileClosing, FindCallback
<1>. QED BY <1>1, <1>2, <1>3, <1>4, <1>5, <1>6, <1>7, <1>8, <1>9, <1>10 DEF IInv, TypeOK

LEMMA ReplaceObjectInv == ASSUME IInv, wild = "nobody", NEW c \in Clients, ReplaceObject(c)
  PROVE  IInv'
<1>1. CameraTypes'
  BY DeviceAssumption DEF IInv, TypeOK, CameraTypes, ApiPcs, ReplaceObject, api, camera, files
<1>2. HandleTypes'
  BY DEF IInv, TypeOK, CameraTypes, HandleTypes, ReplaceObject, handle, context
<1>3. ThreadTypes'
  BY DEF IInv, TypeOK, ThreadTypes, ReplaceObject, thread
<1>4. CallbackTypes'
  BY DeviceAssumption DEF IInv, TypeOK, CallbackTypes, ClientTypes, ReplaceObject, handle
<1>5. ClientTypes'
  BY DEF IInv, TypeOK, ClientTypes, ReplaceObject
<1>6. StageInv'
  BY DeviceAssumption DEF IInv, StageInv, IsOpen, Building, Built, Opened, Closed, NoThread,
     ReplaceObject, api, camera, files, handle, context, thread
<1>7. ThreadInv'
  BY DEF IInv, TypeOK, ThreadInv, ReplaceObject, handle, thread
<1>8. CallbackInv'
  BY DEF IInv, CallbackInv, IsOpen, ReplaceObject, api, camera, handle
<1>9. ClientInv'
  BY DEF IInv, ClientInv, ReplaceObject
<1>10. UsedWhileClosing'
  BY DEF ThreadTypes, UsedWhileClosing, ReplaceObject
<1>. QED BY <1>1, <1>2, <1>3, <1>4, <1>5, <1>6, <1>7, <1>8, <1>9, <1>10 DEF IInv, TypeOK

LEMMA StutterInv == ASSUME IInv, UNCHANGED vars PROVE IInv'
<1>1. CameraTypes' /\ HandleTypes'
  BY DEF IInv, vars, TypeOK, CameraTypes, HandleTypes, api, camera, files, handle, context
<1>2. ThreadTypes' /\ CallbackTypes' /\ ClientTypes'
  BY DEF IInv, vars, TypeOK, ThreadTypes, CallbackTypes, ClientTypes, natives, handle, thread,
     clients
<1>3. StageInv'
  BY DEF IInv, vars, StageInv, IsOpen, Building, Built, Opened, Closed, NoThread,
     api, camera, files, handle, context, thread
<1>4. ThreadInv' /\ CallbackInv' /\ ClientInv' /\ UsedWhileClosing'
  BY DEF IInv, vars, ThreadInv, CallbackInv, ClientInv, UsedWhileClosing, IsOpen,
     api, camera, natives, handle, context, thread, clients
<1>. QED BY <1>1, <1>2, <1>3, <1>4 DEF IInv, TypeOK

LEMMA NextIInv == ASSUME IInv, [Next]_vars PROVE IInv'
<1>1. CASE UNCHANGED vars
  BY <1>1, StutterInv
<1>2. ASSUME wild = "nobody", ApiStep PROVE IInv'
  BY <1>2, ConnectInv, ConnectFailsInv, OpenDeviceInv, OpenFailsInv, SubmitStatusInv,
     SpawnHandlerInv, NewCallbackInv, CloseInv, DeleteCallbackInv, KillHandlerInv,
     SignalEventsInv, CloseUsbInv, JoinHandlerInv, FreeHandleInv, UnrefDeviceInv
     DEF ApiStep, Opening, Closing
<1>3. ASSUME wild = "nobody", EventCall \/ CallMethod PROVE IInv'
  BY <1>3, StatusEventInv, LockStatusInv, LockObjectInv, CallMethodInv, JavaReturnsInv,
     ResubmitInv DEF EventCall
<1>4. ASSUME wild = "nobody", NEW c \in Clients, ClientStep(c) PROVE IInv'
  BY <1>4, SetCallbackInv, FindCallbackInv, ReplaceObjectInv DEF ClientStep
<1>. QED BY <1>1, <1>2, <1>3, <1>4, LoopInv DEF Next

THEOREM DeviceInductive == Spec => []IInv
<1>. QED BY InitIInv, NextIInv, PTL DEF Spec

(* The references, the descriptors and the calls that are counted stay in  *)
(* their ranges, whatever fails and whoever sets a callback.               *)
THEOREM DeviceTypeCorrect == Spec => []TypeOK
<1>1. IInv => TypeOK
  BY DEF IInv
<1>. QED BY <1>1, DeviceInductive, PTL

(* However open ends, close or destroy: a camera that is not open has left *)
(* no descriptor, reference, claim, transfer or thread.                    *)
THEOREM NothingLeft == Spec => []ReleasedClean
<1>1. IInv => ReleasedClean
  <2>. SUFFICES ASSUME IInv, apiPc = "idle", ~mDeviceHandle
                PROVE  Closed /\ ~mDevice
    BY DEF ReleasedClean, Closed
  <2>. QED BY DEF IInv, StageInv, IsOpen, Building, Closed
<1>. QED BY <1>1, DeviceInductive, PTL

(* uvc_close frees the handle when no transfer flies into it any more, the *)
(* event thread is joined and the device has both its references.          *)
THEOREM FreedAlone == Spec => []FreeAlone
<1>1. IInv => FreeAlone
  BY DEF IInv, StageInv, IsOpen, Opened, FreeAlone
<1>. QED BY <1>1, DeviceInductive, PTL

(* Only between the deletion of the callback objects and the end of        *)
(* libusb_close can the event thread use something deleted.                *)
THEOREM NoStrayUse == Spec => []UsedWhileClosing
<1>1. IInv => UsedWhileClosing
  BY DEF IInv
<1>. QED BY <1>1, DeviceInductive, PTL

-----------------------------------------------------------------------------
(* The refinement.                                                         *)

LEMMA QuietCalling == ASSUME IInv, called = None PROVE Calling = Events!Quiet
  BY DEF Calling, Events!Quiet

LEMMA NoneCalled == ASSUME IInv, NoThread PROVE called = None
  BY DEF IInv, ThreadInv, NoThread

LEMMA OpenedWhenCallback == ASSUME IInv, status_xfer = "callback" PROVE devh
  BY DEF IInv, StageInv, Built, Opened, Closed

LEMMA OpenedWhenNative == ASSUME IInv, NEW k \in Kinds, callback[k] # 0 PROVE devh
<1>1. IsOpen
  BY DEF IInv, CallbackInv
<1>. QED BY <1>1 DEF IInv, StageInv, Opened

(* The opening, the closing and the loop of the event thread, as far as    *)
(* none of them makes or frees the handle, or sets an object.              *)
LEMMA PrivateSteps ==
  ASSUME IInv, IInv',
         \/ Connect \/ ConnectFails \/ SubmitStatus \/ SpawnHandler \/ Close \/ KillHandler
         \/ SignalEvents \/ CloseUsb \/ JoinHandler \/ UnrefDevice
         \/ \E k \in Kinds : DeleteCallback(k)
         \/ EventLoop \/ PollTimeout \/ WaitTimeout \/ LockStatus \/ CallMethod \/ Resubmit
         \/ (\E c \in Clients : SetCallback(c) \/ FindCallback(c)) \/ UNCHANGED vars
  PROVE  UNCHANGED Events!vars
<1>1. UNCHANGED <<devh, object, kind, called>>
  BY DEF Connect, ConnectFails, SubmitStatus, SpawnHandler, Close, KillHandler, SignalEvents,
     CloseUsb, JoinHandler, UnrefDevice, DeleteCallback, EventLoop, PollTimeout, WaitTimeout,
     CheckKill, EnterEvents, WaitForEvent, Interrupted, Loop, LockStatus, CallMethod, Resubmit,
     SetCallback, FindCallback, vars, natives, handle, thread
<1>. QED BY <1>1 DEF Events!vars, Calling

LEMMA HandleMade == ASSUME IInv, OpenDevice PROVE Events!Open
<1>1. Built /\ ~devh
  BY DEF IInv, OpenDevice, At, StageInv, IsOpen, Building, Built
<1>2. Calling = Events!Quiet
  BY <1>1, NoneCalled, QuietCalling DEF Built
<1>. QED BY <1>1, <1>2 DEF OpenDevice, Events!Open, Calling, natives, thread

LEMMA OpeningUndone == ASSUME IInv, OpenFails PROVE Events!Close \/ UNCHANGED Events!vars
<1>1. Built
  BY DEF IInv, OpenFails, At, StageInv, IsOpen, Building
<1>2. Calling = Events!Quiet
  BY <1>1, NoneCalled, QuietCalling DEF Built
<1>3. devh' = FALSE /\ UNCHANGED <<object, kind, called>>
  BY DEF OpenFails, natives, thread
<1>4. devh \in BOOLEAN
  BY DEF IInv, TypeOK, HandleTypes
<1>. QED BY <1>2, <1>3, <1>4 DEF Events!Close, Events!vars, Calling

LEMMA HandleFreed == ASSUME IInv, FreeHandle PROVE Events!Close
<1>1. Opened /\ NoThread
  BY DEF IInv, FreeHandle, At, StageInv, IsOpen, Opened
<1>2. Calling = Events!Quiet
  BY <1>1, NoneCalled, QuietCalling
<1>. QED BY <1>1, <1>2 DEF FreeHandle, Events!Close, Opened, Calling, natives, thread

LEMMA ObjectForgotten == ASSUME IInv, NEW k \in Kinds, NewCallback(k) PROVE Events!Set(k, None)
<1>1. devh
  BY DEF IInv, NewCallback, At, StageInv, IsOpen, Opened
<1>2. called = None
  BY DEF IInv, ThreadInv, NewCallback, HoldsStatus
<1>. QED BY <1>1, <1>2 DEF NewCallback, Events!Set, Calling, thread

LEMMA ObjectReplaced ==
  ASSUME IInv, NEW c \in Clients, ReplaceObject(c) PROVE Events!Next \/ UNCHANGED Events!vars
<1>. DEFINE k == arg[c][1]
            o == arg[c][2]
<1>1. k \in Kinds /\ o \in Objects \cup {None}
  BY DEF IInv, TypeOK, ClientTypes
<1>2. UNCHANGED <<devh, kind, called>>
  BY DEF ReplaceObject, handle, thread
<1>3. CASE ptr[c] = callback[k]
  <2>1. devh
    BY <1>1, <1>3, OpenedWhenNative DEF IInv, ClientInv, ReplaceObject
  <2>2. Calling[k] = None
    BY <1>1 DEF IInv, ThreadInv, ReplaceObject, LockedByEvent, HoldsObject, Calling
  <2>3. object' = [object EXCEPT ![k] = o]
    BY <1>3 DEF ReplaceObject
  <2>4. Events!Set(k, o)
    BY <1>2, <2>1, <2>2, <2>3 DEF Events!Set, Calling
  <2>. QED BY <1>1, <2>4 DEF Events!Next
<1>4. CASE ptr[c] # callback[k]
  BY <1>2, <1>4 DEF ReplaceObject, Events!vars, Calling
<1>. QED BY <1>3, <1>4

LEMMA EventTaken == ASSUME IInv, IInv', StatusEvent PROVE UNCHANGED Events!vars
<1>1. called = None /\ called' = None
  BY DEF IInv, ThreadInv, StatusEvent
<1>2. UNCHANGED <<devh, object>>
  BY DEF StatusEvent, natives
<1>. QED BY <1>1, <1>2 DEF Events!vars, Calling

LEMMA ObjectCalled == ASSUME IInv, LockObject PROVE Events!Next \/ UNCHANGED Events!vars
<1>1. kind \in Kinds /\ called = None /\ devh
  BY OpenedWhenCallback DEF IInv, ThreadInv, LockObject
<1>2. UNCHANGED <<devh, object, kind>> /\ called' = object[kind]
  BY DEF LockObject, natives, handle
<1>3. CASE object[kind] = None
  BY <1>1, <1>2, <1>3 DEF Events!vars, Calling
<1>4. CASE object[kind] # None
  <2>1. Calling = Events!Quiet
    BY <1>1, QuietCalling
  <2>2. Calling' = [Calling EXCEPT ![kind] = object[kind]]
    BY <1>1, <1>2 DEF Calling
  <2>3. Events!Call(kind)
    BY <1>1, <1>2, <1>4, <2>1, <2>2 DEF Events!Call
  <2>. QED BY <1>1, <2>3 DEF Events!Next
<1>. QED BY <1>3, <1>4

LEMMA ObjectReturns == ASSUME IInv, JavaReturns PROVE Events!Return
<1>1. kind \in Kinds /\ called # None
  BY DEF IInv, ThreadInv, JavaReturns
<1>2. Calling[kind] # Events!Quiet[kind]
  BY <1>1 DEF Calling, Events!Quiet
<1>3. Calling' = Events!Quiet
  BY DEF JavaReturns, Calling, Events!Quiet
<1>. QED BY <1>2, <1>3 DEF Events!Return, JavaReturns, natives, handle

LEMMA InitEvents == Init => Events!Init
  BY DEF Init, Events!Init, Events!Quiet, Calling

LEMMA NextEvents == ASSUME IInv, IInv', [Next]_vars PROVE [Events!Next]_Events!vars
<1>1. CASE OpenDevice
  BY <1>1, HandleMade DEF Events!Next
<1>2. CASE OpenFails
  BY <1>2, OpeningUndone DEF Events!Next
<1>3. CASE FreeHandle
  BY <1>3, HandleFreed DEF Events!Next
<1>4. ASSUME NEW k \in Kinds, NewCallback(k) PROVE Events!Next
  BY <1>4, ObjectForgotten DEF Events!Next
<1>5. ASSUME NEW c \in Clients, ReplaceObject(c) PROVE [Events!Next]_Events!vars
  BY <1>5, ObjectReplaced
<1>6. CASE StatusEvent \/ LockObject
  BY <1>6, EventTaken, ObjectCalled
<1>7. CASE JavaReturns
  BY <1>7, ObjectReturns DEF Events!Next
<1>. QED BY <1>1, <1>2, <1>3, <1>4, <1>5, <1>6, <1>7, PrivateSteps
         DEF Next, ApiStep, Opening, Closing, EventCall, ClientStep

(* Whoever opens, closes and sets callbacks, and however it fails: Java's  *)
(* objects are called one at a time, while the camera is open, and are not *)
(* replaced while they are called.                                         *)
THEOREM DeviceIsCameraEvents == Spec => ImplementsEvents
<1>. QED BY InitEvents, NextEvents, DeviceInductive, PTL DEF Spec, ImplementsEvents, Events!Spec

=============================================================================
