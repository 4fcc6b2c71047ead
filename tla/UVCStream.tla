------------------------------ MODULE UVCStream ------------------------------
(***************************************************************************)
(* The streaming half of libuvc (stream.c): the thread that starts and     *)
(* stops a stream, libusb's event thread, which calls back for completed   *)
(* transfers and assembles frames from their packets, and the thread that  *)
(* hands frames to the user's function.                                    *)
(*                                                                         *)
(* A section under cb_mutex that does not wait is one action, as is work   *)
(* on fields that only the event thread touches.  `running` is read and    *)
(* written outside cb_mutex: those accesses are actions of their own.      *)
(***************************************************************************)
EXTENDS Integers, Sequences, Functions

CONSTANTS
  NumTransfers, (* LIBUVC_NUM_TRANSFER_BUFS                                 *)
  Packets,      (* what the camera sends on one stream: of each packet its  *)
                (* frame ID bit and whether it is the last of a picture     *)
  SizeBuf,      (* size_buf, counted in packets                             *)
  Modes,        (* the values `isochronous` can have                        *)
  MayFail,      (* what may go wrong outside this code                      *)
  MaxStarts     (* bound: streams started                                   *)

ASSUME StreamAssumption ==
  /\ NumTransfers \in Nat \ {0} /\ SizeBuf \in Nat \ {0}
  /\ Modes \subseteq BOOLEAN
  /\ Packets \in Seq([fid : 0 .. 1, last : BOOLEAN])
  /\ MaxStarts \in Nat

VARIABLES
  open,          (* the stream handle is allocated                          *)
  running, isochronous,
  transfers,     (* where each transfer is; "null" once it is deleted       *)
  seq, fid, bfh_err,
  outbuf,        (* the packets gathered so far, got_bytes is its length    *)
  hold_seq, hold_bfh_err, holdbuf,
  last_seq,      (* of _uvc_user_caller                                     *)
  frame,         (* strmh->frame, with the sequence number it was held under*)
  shown,         (* the number of the frame given to user_cb last           *)
  apiPc,         (* the thread that starts and stops the stream             *)
  evPc,          (* libusb's event thread, in at most one callback at a time*)
  cbPc,          (* cb_thread                                               *)
  sent,          (* packets the camera has sent on this stream              *)
  bare,          (* those of them that came without a header (a history)    *)
  starts,        (* streams started so far                                  *)
  unplugged, refused (* the device is gone; libusb refused a transfer       *)

assembly  == <<fid, bfh_err, outbuf, seq>>
held      == <<hold_seq, hold_bfh_err, holdbuf>>
user      == <<last_seq, frame, shown>>
device    == <<unplugged, refused>>
packets   == <<sent, bare>>
vars == <<open, running, isochronous, transfers, assembly, held, user, apiPc,
          evPc, cbPc, packets, starts, device>>

Transfers == 1 .. NumTransfers
TransferStates == {"null", "allocated", "submitted", "cancelled", "callback",
                   "stranded"}
ApiPcs == {"idle", "start", "submit", "stop", "cancel", "blocked", "woken",
           "join", "free"}
EvPcs  == {"idle", "payload", "append", "decide", "resubmit", "delete"}
CbPcs  == {"none", "loop", "blocked", "woken", "decide", "inCall", "done"}

Fid(k) == Packets[k].fid

Init ==
  /\ open = FALSE /\ running = FALSE /\ isochronous = FALSE
  /\ transfers = [t \in Transfers |-> "null"]
  /\ fid = 0 /\ bfh_err = FALSE /\ outbuf = <<>> /\ seq = 0
  /\ hold_seq = 0 /\ hold_bfh_err = FALSE /\ holdbuf = <<>>
  /\ last_seq = 0 /\ frame = [seq |-> 0, data |-> <<>>] /\ shown = 0
  /\ apiPc = "idle"
  /\ evPc = "idle"
  /\ cbPc = "none"
  /\ sent = 0 /\ bare = {} /\ starts = 0
  /\ unplugged = FALSE /\ refused = FALSE

(* No thread and no transfer uses the handle.                              *)
Quiet ==
  /\ \A t \in Transfers : transfers[t] = "null"
  /\ cbPc \in {"none", "done"} /\ evPc = "idle"

(* pthread_cond_broadcast(&cb_cond).                                       *)
(* Mutant: the callback thread is not woken.                               *)
CbAsleep == cbPc

CbWoken == IF cbPc = "blocked" THEN "woken" ELSE cbPc
ApiWoken == IF apiPc = "blocked" THEN "woken" ELSE apiPc
Broadcast == cbPc' = CbWoken /\ apiPc' = ApiWoken

-----------------------------------------------------------------------------
(* The thread that starts and stops.                                       *)

(* uvc_stream_open_ctrl allocates a handle filled with zeros; when it      *)
(* fails nothing has changed.                                              *)
OpenStream ==
  /\ apiPc = "idle" /\ ~open /\ Quiet /\ starts < MaxStarts /\ ~unplugged
  /\ apiPc' = "start" /\ open' = TRUE /\ starts' = starts + 1
  /\ hold_seq' = 0 /\ hold_bfh_err' = FALSE /\ holdbuf' = <<>>
  /\ frame' = [seq |-> 0, data |-> <<>>] /\ shown' = 0 /\ last_seq' = 0
  /\ outbuf' = <<>> /\ fid' = 0 /\ bfh_err' = FALSE /\ seq' = 0
  /\ cbPc' = "none" /\ sent' = 0 /\ bare' = {}
  /\ UNCHANGED <<running, isochronous, transfers, evPc, device>>

(* uvc_stream_start_bandwidth up to the submissions: the transfers are     *)
(* set up and the callback thread is created.  Only isochronous transfers  *)
(* need the device for this: its alternate setting is chosen.              *)
StartBandwidth ==
  /\ apiPc = "start"
  /\ apiPc' = "submit" /\ running' = TRUE
  /\ isochronous' \in Modes /\ (isochronous' => ~unplugged)
  /\ transfers' = [t \in Transfers |-> "allocated"]
  /\ cbPc' = "loop"
  /\ UNCHANGED <<open, assembly, held, user, evPc, packets, starts, device>>

(* No usable frame size, endpoint or alternate setting.                    *)
StartFails ==
  /\ apiPc = "start"
  /\ "start" \in MayFail \/ (unplugged /\ TRUE \in Modes)
  /\ apiPc' = "free"
  /\ UNCHANGED <<open, running, isochronous, transfers, assembly, held, user, evPc,
                 cbPc, packets, starts, device>>

(* The transfers are submitted one after the other.                        *)
Submitting(t) ==
  /\ apiPc = "submit" /\ transfers[t] = "allocated"
  /\ \A u \in Transfers : transfers[u] = "allocated" => t <= u

SubmitTransfer(t) ==
  /\ Submitting(t) /\ ~unplugged
  /\ transfers' = [transfers EXCEPT ![t] = "submitted"]
  /\ apiPc' = IF t = NumTransfers THEN "idle" ELSE "submit"
  /\ UNCHANGED <<open, running, isochronous, assembly, held, user, evPc, cbPc, packets,
                 starts, device>>

(* A refused transfer makes the start fail; the caller then closes.        *)
SubmitFails(t) ==
  /\ Submitting(t) /\ (unplugged \/ "submit" \in MayFail)
  /\ running' = FALSE /\ refused' = TRUE
  /\ apiPc' = "free"
  /\ UNCHANGED <<open, isochronous, transfers, assembly, held, user, evPc, cbPc, packets,
                 starts, unplugged>>

(* uvc_stream_close, from uvc_stop_streaming: the stream is stopped only   *)
(* if it is running.                                                       *)
CloseStream ==
  /\ apiPc = "idle" /\ open
  /\ apiPc' = IF running THEN "stop" ELSE "free"
  /\ UNCHANGED <<open, running, isochronous, transfers, assembly, held, user, evPc,
                 cbPc, packets, starts, device>>

(* uvc_stream_stop looks at running again, and clears it.                  *)
StopStream ==
  /\ apiPc = "stop"
  /\ apiPc' = IF running THEN "cancel" ELSE "free"
  /\ running' = FALSE
  /\ UNCHANGED <<open, isochronous, transfers, assembly, held, user, evPc, cbPc, packets,
                 starts, device>>

(* Mutant: uvc_stream_stop does not wait for the transfers.                *)
NoWait == TRUE

TransfersDeleted == \A t \in Transfers : transfers[t] = "null"

(* The end of the section under cb_mutex: wait until every transfer has    *)
(* been deleted, then wake the callback thread.                            *)
WaitForTransfers(cancelled) ==
  IF TransfersDeleted
  THEN apiPc' = "join" /\ cbPc' = CbWoken /\ UNCHANGED transfers
  ELSE apiPc' = "blocked" /\ transfers' = cancelled /\ UNCHANGED cbPc

(* Every transfer that libusb holds will call back as cancelled.           *)
CancelTransfers ==
  /\ apiPc = "cancel"
  /\ WaitForTransfers([t \in Transfers |-> IF transfers[t] = "submitted" THEN "cancelled"
                                           ELSE transfers[t]])
  /\ UNCHANGED <<open, running, isochronous, assembly, held, user, evPc, packets, starts,
                 device>>

WaitedForTransfers ==
  /\ apiPc = "woken"
  /\ WaitForTransfers(transfers)
  /\ UNCHANGED <<open, running, isochronous, assembly, held, user, evPc, packets, starts,
                 device>>

(* Mutant: uvc_stream_stop leaves the callback thread alone.               *)
DetachUserCaller ==
  /\ apiPc = "join" /\ apiPc' = "free"
  /\ UNCHANGED <<open, running, isochronous, transfers, assembly, held, user, evPc,
                 cbPc, packets, starts, device>>

JoinUserCaller ==
  /\ apiPc = "join" /\ cbPc = "done"
  /\ apiPc' = "free"
  /\ UNCHANGED <<open, running, isochronous, transfers, assembly, held, user, evPc,
                 cbPc, packets, starts, device>>

(* The rest of uvc_stream_close: buffers, mutex and handle are freed.      *)
FreeStream ==
  /\ apiPc = "free"
  /\ apiPc' = "idle" /\ open' = FALSE
  /\ UNCHANGED <<running, isochronous, transfers, assembly, held, user, evPc, cbPc,
                 packets, starts, device>>

ApiStep ==
  \/ StartBandwidth \/ StartFails
  \/ \E t \in Transfers : SubmitTransfer(t) \/ SubmitFails(t)
  \/ StopStream \/ CancelTransfers \/ WaitedForTransfers
  \/ JoinUserCaller \/ FreeStream

-----------------------------------------------------------------------------
(* libusb's event thread.  What it does with a freed handle is undefined   *)
(* and is not followed.                                                    *)

EvAt(pc) == open /\ evPc = pc
MoveTransfer(to) ==
  \E t \in Transfers :
    transfers[t] = "callback" /\ transfers' = [transfers EXCEPT ![t] = to]
EvOnly == UNCHANGED <<open, isochronous, user, starts>>
EvKeepsFrame == UNCHANGED <<assembly, held, packets>>

(* _uvc_stream_callback is called for transfer t.  A cancelled transfer    *)
(* may have completed before; one of a lost device fails.                  *)
Complete(t, status) ==
  /\ EvAt("idle")
  /\ transfers[t] \in {"submitted", "cancelled"}
  /\ transfers' = [transfers EXCEPT ![t] = "callback"]
  /\ \/ status = "completed" /\ evPc' = "payload" /\ UNCHANGED running
     \/ status = "timedOut" /\ evPc' = "decide" /\ UNCHANGED running
     \/ /\ status = "cancelled" /\ transfers[t] = "cancelled"
        /\ evPc' = "delete" /\ UNCHANGED running
     \/ /\ status = "error" /\ "error" \in MayFail
        /\ evPc' = "delete" /\ UNCHANGED running
     \/ /\ status = "noDevice" /\ unplugged
        /\ evPc' = "delete" /\ running' = FALSE
  /\ EvOnly /\ EvKeepsFrame /\ UNCHANGED <<apiPc, cbPc, device>>

(* _uvc_swap_buffers: what was assembled becomes the held frame, and the   *)
(* next one begins, with its error flag.                                   *)
SwapBuffers(data, err, nextErr) ==
  /\ holdbuf' = data /\ hold_bfh_err' = err /\ hold_seq' = seq
  /\ outbuf' = <<>> /\ bfh_err' = nextErr /\ seq' = seq + 1
  /\ Broadcast

Gather(data, err) ==
  /\ outbuf' = data /\ bfh_err' = err
  /\ UNCHANGED <<seq, held, apiPc, cbPc>>

(* Mutant: the frame ID bit is ignored.                                    *)
NeverFlipped(bit) == FALSE

(* The frame ID bit changed although the last frame had no end.            *)
Flipped(bit) == fid # bit /\ outbuf # <<>>

(* _uvc_process_payload(_iso) on the next packet: first its header,        *)
ReceivePacket ==
  /\ EvAt("payload") /\ sent < Len(Packets)
  /\ sent' = sent + 1
  /\ IF Flipped(Fid(sent')) THEN SwapBuffers(outbuf, bfh_err, FALSE)
     ELSE Gather(outbuf, bfh_err)
  /\ fid' = Fid(sent')
  /\ evPc' = "append"
  /\ EvOnly /\ UNCHANGED <<running, transfers, bare, device>>

(* Mutant: the boundary check of _uvc_process_payload is missing.          *)
FitsAlways(data) == TRUE

Fits(data) == isochronous \/ Len(data) + 1 < SizeBuf

(* then its data, if it has any, and its end-of-frame bit, which a bulk    *)
(* transfer without data is not looked at for.                             *)
AppendPacket(data, eof) ==
  /\ EvAt("append")
  /\ data \/ "noData" \in MayFail
  /\ eof => Packets[sent].last
  /\ Packets[sent].last => eof \/ "noEof" \in MayFail
  /\ LET got == IF data /\ Fits(outbuf) THEN Append(outbuf, sent) ELSE outbuf
         err == bfh_err \/ (data /\ ~Fits(outbuf))
         end == eof /\ (IF isochronous THEN got # <<>> ELSE data)
     IN  IF end THEN SwapBuffers(got, err, FALSE) ELSE Gather(got, err)
  /\ evPc' = "payload"
  /\ EvOnly /\ UNCHANGED <<running, transfers, fid, packets, device>>

(* A bulk payload whose header is shorter than 2 bytes, as the data of an  *)
(* iSight camera is: it is appended, but no frame ID is compared and no    *)
(* end of the frame is looked for.  (Without data it is a lost one.)       *)
HeaderlessPayload ==
  /\ EvAt("payload") /\ ~isochronous /\ "header" \in MayFail /\ sent < Len(Packets)
  /\ sent' = sent + 1 /\ bare' = bare \cup {sent'}
  /\ Gather(IF Fits(outbuf) THEN Append(outbuf, sent') ELSE outbuf,
            bfh_err \/ ~Fits(outbuf))
  /\ EvOnly /\ UNCHANGED <<running, transfers, evPc, fid, device>>

(* An isochronous packet that arrived broken, or a bulk payload that is    *)
(* shorter than its header says.                                           *)
BrokenPacket ==
  /\ EvAt("payload") /\ "packet" \in MayFail /\ sent < Len(Packets)
  /\ sent' = sent + 1 /\ bfh_err' = TRUE
  /\ EvOnly
  /\ UNCHANGED <<running, transfers, evPc, fid, outbuf, seq, held, apiPc, cbPc, bare,
                 device>>

(* An isochronous packet of no bytes: what is taken for its header is what *)
(* the buffer held before.  Unless that begins with 0 the packet is        *)
(* shorter than its header, which marks the frame as broken.               *)
EmptyPacket(bit, short, eof) ==
  /\ EvAt("payload") /\ isochronous /\ "empty" \in MayFail
  /\ fid' = bit
  /\ IF Flipped(bit) \/ (eof /\ ~short /\ outbuf # <<>>)
     THEN SwapBuffers(outbuf, bfh_err, short)
     ELSE Gather(outbuf, bfh_err \/ short)
  /\ EvOnly /\ UNCHANGED <<running, transfers, evPc, packets, device>>

EndPayloads ==
  /\ EvAt("payload") /\ evPc' = "decide"
  /\ EvOnly /\ EvKeepsFrame
  /\ UNCHANGED <<running, transfers, apiPc, cbPc, device>>

Decide ==
  /\ EvAt("decide") /\ evPc' = IF running THEN "resubmit" ELSE "delete"
  /\ EvOnly /\ EvKeepsFrame
  /\ UNCHANGED <<running, transfers, apiPc, cbPc, device>>

(* The result of libusb_submit_transfer is not looked at.                  *)
Resubmit ==
  /\ EvAt("resubmit") /\ evPc' = "idle"
  /\ \/ ~unplugged /\ UNCHANGED refused
        /\ MoveTransfer("submitted")
     \/ (unplugged \/ "resubmit" \in MayFail) /\ refused' = TRUE
        /\ MoveTransfer("stranded")
  /\ EvOnly /\ EvKeepsFrame
  /\ UNCHANGED <<running, apiPc, cbPc, unplugged>>

(* Mutant: nobody is told that a transfer is gone.                         *)
DeleteQuietly ==
  /\ EvAt("delete") /\ evPc' = "idle"
  /\ MoveTransfer("null")
  /\ EvOnly /\ EvKeepsFrame /\ UNCHANGED <<running, apiPc, cbPc, device>>

DeleteTransfer ==
  /\ EvAt("delete") /\ evPc' = "idle"
  /\ MoveTransfer("null")
  /\ Broadcast
  /\ EvOnly /\ EvKeepsFrame /\ UNCHANGED <<running, device>>

EventStep ==
  \/ ReceivePacket \/ HeaderlessPayload \/ BrokenPacket
  \/ \E data, eof \in BOOLEAN : AppendPacket(data, eof)
  \/ \E bit \in 0 .. 1, short, eof \in BOOLEAN : EmptyPacket(bit, short, eof)
  \/ EndPayloads \/ Decide \/ Resubmit \/ DeleteTransfer

-----------------------------------------------------------------------------
(* The callback thread, _uvc_user_caller.                                  *)

CbGoto(from, to) == open /\ cbPc = from /\ cbPc' = to
CbOnly == UNCHANGED <<open, running, isochronous, transfers, assembly, held, apiPc,
                      evPc, packets, starts, device>>

Populated == [seq |-> hold_seq, data |-> holdbuf]

(* One section under cb_mutex; the wait in it is in a loop.                *)
WaitForFrame(from) ==
  /\ \/ running /\ last_seq = hold_seq
        /\ CbGoto(from, "blocked") /\ UNCHANGED <<last_seq, frame>>
     \/ ~running /\ CbGoto(from, "done") /\ UNCHANGED <<last_seq, frame>>
     \/ /\ running /\ last_seq # hold_seq
        /\ CbGoto(from, "decide")
        /\ last_seq' = hold_seq
        /\ frame' = IF hold_bfh_err THEN frame ELSE Populated
  /\ CbOnly /\ UNCHANGED shown

(* The error flag is read again, now without cb_mutex.                     *)
CallUser ==
  /\ CbGoto("decide", "inCall") /\ ~hold_bfh_err
  /\ shown' = frame.seq
  /\ CbOnly /\ UNCHANGED <<last_seq, frame>>

SkipFrame ==
  /\ CbGoto("decide", "loop") /\ hold_bfh_err
  /\ CbOnly /\ UNCHANGED user

UserReturns == CbGoto("inCall", "loop") /\ CbOnly /\ UNCHANGED user

CallbackStep ==
  \/ WaitForFrame("loop") \/ WaitForFrame("woken")
  \/ CallUser \/ SkipFrame \/ UserReturns

-----------------------------------------------------------------------------
(* The camera sends packets whether a transfer takes them or not, and may  *)
(* be pulled out.  A packet with its error bit set, which an isochronous   *)
(* transfer skips, is lost too.                                            *)
LosePacket ==
  /\ open /\ "loss" \in MayFail /\ sent < Len(Packets) /\ evPc # "append"
  /\ sent' = sent + 1
  /\ UNCHANGED <<open, running, isochronous, transfers, assembly, held, user, apiPc,
                 evPc, cbPc, bare, starts, device>>

Unplug ==
  /\ "unplug" \in MayFail /\ ~unplugged /\ unplugged' = TRUE
  /\ UNCHANGED <<open, running, isochronous, transfers, assembly, held, user, apiPc,
                 evPc, cbPc, packets, starts, refused>>

Statuses == {"completed", "timedOut", "cancelled", "error", "noDevice"}
CompleteSome(t) == \E status \in Statuses : Complete(t, status)

Next ==
  \/ OpenStream \/ CloseStream \/ ApiStep
  \/ (\E t \in Transfers : CompleteSome(t)) \/ EventStep
  \/ CallbackStep
  \/ LosePacket \/ Unplug

Spec == Init /\ [][Next]_vars

(* Every thread runs; the user's function returns; a transfer completes,   *)
(* at the latest after its timeout of 5 seconds, and has finitely many     *)
(* packets.  Nothing makes the application close, or the camera send.      *)
FairSpec ==
  /\ Spec
  /\ WF_vars(ApiStep) /\ WF_vars(EventStep) /\ WF_vars(EndPayloads)
  /\ WF_vars(CallbackStep)
  /\ \A t \in Transfers : WF_vars(CompleteSome(t))

-----------------------------------------------------------------------------
(* Properties                                                              *)

(* Every variable has its type, and a bulk frame fits into its buffer.     *)
TypeOK ==
  /\ open \in BOOLEAN /\ running \in BOOLEAN /\ isochronous \in BOOLEAN
  /\ transfers \in [Transfers -> TransferStates]
  /\ seq \in Nat /\ fid \in 0 .. 1 /\ bfh_err \in BOOLEAN
  /\ outbuf \in Seq(DOMAIN Packets) /\ (isochronous \/ Len(outbuf) < SizeBuf)
  /\ hold_seq \in Nat /\ hold_bfh_err \in BOOLEAN /\ holdbuf \in Seq(DOMAIN Packets)
  /\ last_seq \in Nat /\ frame \in [seq : Nat, data : Seq(DOMAIN Packets)] /\ shown \in Nat
  /\ apiPc \in ApiPcs /\ evPc \in EvPcs /\ cbPc \in CbPcs
  /\ sent \in 0 .. Len(Packets) /\ bare \subseteq DOMAIN Packets /\ starts \in Nat
  /\ unplugged \in BOOLEAN /\ refused \in BOOLEAN

(* A frame's packets are in the order they were sent, and those that came  *)
(* with a header are never of two successive pictures: only the loss of a  *)
(* whole picture can join two.  A bulk payload without a header is         *)
(* appended to whatever is being gathered, so nothing is said of it.       *)
OneFrame(data) ==
  \A i, j \in DOMAIN data :
    i < j => /\ data[i] < data[j]
             /\ {data[i], data[j]} \cap bare = {} => Fid(data[i]) = Fid(data[j])
FrameIntegrity == OneFrame(holdbuf) /\ OneFrame(frame.data)

(* Stopping a stream whose device works ends its threads and its           *)
(* transfers before the handle is freed.                                   *)
Broken == unplugged \/ refused
StopDrains == ~open /\ ~Broken => Quiet

(* libuvc shows its user frames in order, one call at a time, and none     *)
(* after it was stopped (FrameSource): what UVCPreview relies on.          *)
Source == INSTANCE FrameSource WITH
            started <- open, calling <- cbPc = "inCall", last <- shown,
            broken <- Broken
ImplementsSource == Source!Spec

(* Who waits on cb_cond waits for something that is still to come: the     *)
(* callback thread for a frame it has not looked at, or for the end of a   *)
(* stop that has not come to its join; uvc_stream_stop for a transfer that *)
(* is still there.                                                         *)
NoWakeupLost ==
  /\ cbPc = "blocked" /\ running => last_seq = hold_seq
  /\ cbPc = "blocked" => apiPc # "join"
  /\ apiPc = "blocked" => ~TransfersDeleted

(* No wakeup of the callback thread is lost: a held frame is looked at.    *)
FramesReachCaller ==
  open /\ running /\ last_seq # hold_seq ~> last_seq = hold_seq \/ ~running

(* Once called, close returns, also when the device is pulled out, unless  *)
(* libusb refused to take a transfer back.                                 *)
CloseReturns == apiPc \in {"stop", "free"} ~> (apiPc = "idle" \/ refused)

(* Each frame is given to the user's function at most once (the empty one, *)
(* before the first is populated, is not counted: UVCPreview ignores it).  *)
ShownOnce ==
  [][cbPc = "decide" /\ cbPc' = "inCall" => shown' > shown \/ frame.data = <<>>]_vars

(* uvc_stop_streaming "ends threads": none is left that uses the handle.   *)
CloseEndsThreads == ~open => Quiet
=============================================================================
