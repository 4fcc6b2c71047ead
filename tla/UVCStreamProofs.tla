--------------------------- MODULE UVCStreamProofs ---------------------------
(* Theorems about UVCStream for every number of transfers and packets,     *)
(* whatever the camera sends and whatever fails.                           *)
EXTENDS UVCStream, TLAPS

-----------------------------------------------------------------------------
(* The frames.  What is being gathered are packets in the order they were  *)
(* sent; those with a header have one frame ID, the current one.           *)
FrameInv ==
  /\ OneFrame(outbuf) /\ FrameIntegrity
  /\ \A i \in DOMAIN outbuf :
       outbuf[i] <= sent /\ (outbuf[i] \notin bare => Fid(outbuf[i]) = fid)
  /\ evPc = "append" =>
       /\ sent \in DOMAIN Packets /\ Fid(sent) = fid
       /\ \A i \in DOMAIN outbuf : outbuf[i] < sent

LEMMA EmptyFrame == OneFrame(<<>>) /\ DOMAIN <<>> = {}
  BY DEF OneFrame

(* OneFrame, when those of B came without a header.                        *)
OneFrameBut(data, B) ==
  \A i, j \in DOMAIN data :
    i < j => /\ data[i] < data[j]
             /\ {data[i], data[j]} \cap B = {} => Fid(data[i]) = Fid(data[j])

(* Those of data that are not of B have the frame ID bit.                  *)
HasFid(data, B, bit) == \A i \in DOMAIN data : data[i] \notin B => Fid(data[i]) = bit

(* Another packet keeps it one frame, if it has no header or the frame ID  *)
(* of those that have one; so does knowing more packets without a header.  *)
LEMMA LongerFrame ==
  ASSUME NEW data \in Seq(DOMAIN Packets), NEW k \in DOMAIN Packets, NEW B, NEW bit,
         OneFrameBut(data, B), HasFid(data, B, bit), k \in B \/ Fid(k) = bit,
         \A i \in DOMAIN data : data[i] < k
  PROVE  /\ OneFrameBut(Append(data, k), B) /\ HasFid(Append(data, k), B, bit)
         /\ \A i \in DOMAIN Append(data, k) : Append(data, k)[i] <= k
<1>1. DOMAIN Packets \subseteq Nat
  BY StreamAssumption
<1>2. /\ DOMAIN data = 1 .. Len(data)
      /\ DOMAIN Append(data, k) = 1 .. Len(data) + 1
      /\ Len(data) \in Nat
  OBVIOUS
<1>3. Append(data, k)[Len(data) + 1] = k /\ \A i \in 1 .. Len(data) : Append(data, k)[i] = data[i]
  BY <1>2
<1>4. \A i \in 1 .. Len(data) : data[i] \in Nat
  BY <1>1, <1>2
<1>5. k \in Nat
  BY <1>1
<1> QED
  BY <1>2, <1>3, <1>4, <1>5 DEF OneFrameBut, HasFid

LEMMA MoreBare ==
  ASSUME NEW data, NEW A, NEW B, A \subseteq B, OneFrameBut(data, A)
  PROVE  OneFrameBut(data, B)
  BY DEF OneFrameBut

LEMMA SeqElement == ASSUME NEW S, NEW s \in Seq(S), NEW k \in DOMAIN s PROVE s[k] \in S
  OBVIOUS

LEMMA PacketFid == \A k \in DOMAIN Packets : Fid(k) \in 0 .. 1
<1>1. Packets \in Seq([fid : 0 .. 1, last : BOOLEAN])
  BY StreamAssumption
<1>2. \A k \in DOMAIN Packets : Packets[k] \in [fid : 0 .. 1, last : BOOLEAN]
  BY <1>1, SeqElement
<1> QED
  BY <1>2 DEF Fid

(* sent + 1 is a packet as long as there is one.                           *)
LEMMA NextPacket ==
  ASSUME TypeOK, sent < Len(Packets)
  PROVE  /\ sent + 1 \in DOMAIN Packets /\ sent + 1 \in 0 .. Len(Packets)
         /\ Fid(sent + 1) \in 0 .. 1
<1>1. Packets \in Seq([fid : 0 .. 1, last : BOOLEAN])
  BY StreamAssumption
<1>2. Len(Packets) \in Nat /\ DOMAIN Packets = 1 .. Len(Packets)
  BY <1>1
<1>3. sent + 1 \in DOMAIN Packets
  BY <1>2 DEF TypeOK
<1> QED
  BY <1>2, <1>3, PacketFid

-----------------------------------------------------------------------------
(* Which places in the code the threads can be at together.                *)
StageInv ==
  /\ evPc = "idle" => \A t \in Transfers : transfers[t] # "callback"
  /\ evPc # "idle" => \E t \in Transfers : transfers[t] = "callback"
  /\ \A t, u \in Transfers : transfers[t] = "callback" /\ transfers[u] = "callback" => t = u
  /\ apiPc # "idle" => open
  /\ apiPc = "start" => Quiet /\ outbuf = <<>>
  /\ open /\ apiPc \in {"submit", "idle", "stop"} /\ ~Broken => running
  /\ apiPc = "join" => TransfersDeleted
  /\ (apiPc = "free" \/ ~open) /\ ~Broken => Quiet

IInv == TypeOK /\ FrameInv /\ StageInv

LEMMA GatheredNumbers ==
  ASSUME TypeOK
  PROVE  sent \in Nat /\ \A i \in DOMAIN outbuf : outbuf[i] \in Nat
  BY SeqElement, StreamAssumption DEF TypeOK

LEMMA FreshTypes ==
  /\ [seq |-> 0, data |-> <<>>] \in [seq : Nat, data : Seq(DOMAIN Packets)]
  /\ <<>> \in Seq(DOMAIN Packets) /\ Len(<<>>) < SizeBuf
  BY StreamAssumption

LEMMA InitInv == Init => IInv
<1> SUFFICES ASSUME Init PROVE IInv
  OBVIOUS
<1>1. Len(Packets) \in Nat /\ 0 \in 0 .. Len(Packets)
  BY StreamAssumption
<1>2. TypeOK
  <2>1. transfers \in [Transfers -> TransferStates]
    BY DEF Init, TransferStates
  <2> QED
    <3>1. frame \in [seq : Nat, data : Seq(DOMAIN Packets)]
      BY FreshTypes DEF Init
    <3>2. outbuf \in Seq(DOMAIN Packets) /\ Len(outbuf) < SizeBuf
      BY FreshTypes DEF Init
    <3>3. holdbuf \in Seq(DOMAIN Packets)
      BY FreshTypes DEF Init
    <3>4. apiPc \in ApiPcs /\ evPc \in EvPcs /\ cbPc \in CbPcs
      BY DEF Init, ApiPcs, EvPcs, CbPcs
    <3>5. fid \in 0 .. 1 /\ sent \in 0 .. Len(Packets) /\ bare \subseteq DOMAIN Packets
      BY <1>1 DEF Init
    <3> QED
      BY <2>1, <3>1, <3>2, <3>3, <3>4, <3>5 DEF Init, TypeOK
<1>3. FrameInv
  BY EmptyFrame DEF Init, FrameInv, FrameIntegrity
<1>4. StageInv
  BY DEF Init, StageInv, Quiet
<1> QED
  BY <1>2, <1>3, <1>4 DEF IInv

-----------------------------------------------------------------------------
(* Types.                                                                  *)

LEMMA SwapTypes ==
  ASSUME TypeOK, NEW data \in Seq(DOMAIN Packets), NEW err \in BOOLEAN, NEW nextErr \in BOOLEAN,
         SwapBuffers(data, err, nextErr), UNCHANGED isochronous
  PROVE  /\ seq' \in Nat /\ bfh_err' \in BOOLEAN
         /\ outbuf' \in Seq(DOMAIN Packets) /\ (isochronous' \/ Len(outbuf') < SizeBuf)
         /\ hold_seq' \in Nat /\ hold_bfh_err' \in BOOLEAN /\ holdbuf' \in Seq(DOMAIN Packets)
         /\ apiPc' \in ApiPcs /\ cbPc' \in CbPcs
  BY StreamAssumption
  DEF TypeOK, SwapBuffers, Broadcast, CbWoken, ApiWoken, ApiPcs, CbPcs

LEMMA GatherTypes ==
  ASSUME TypeOK, NEW data \in Seq(DOMAIN Packets), NEW err \in BOOLEAN,
         isochronous \/ Len(data) < SizeBuf,
         Gather(data, err), UNCHANGED isochronous
  PROVE  /\ seq' \in Nat /\ bfh_err' \in BOOLEAN
         /\ outbuf' \in Seq(DOMAIN Packets) /\ (isochronous' \/ Len(outbuf') < SizeBuf)
         /\ hold_seq' \in Nat /\ hold_bfh_err' \in BOOLEAN /\ holdbuf' \in Seq(DOMAIN Packets)
         /\ apiPc' \in ApiPcs /\ cbPc' \in CbPcs
  BY DEF TypeOK, Gather, held

LEMMA ApiTypes ==
  ASSUME IInv, OpenStream \/ CloseStream \/ ApiStep
  PROVE  TypeOK'
<1> USE DEF IInv, assembly, held, user, device, packets
<1>1. CASE OpenStream
  <2>1. 0 \in 0 .. Len(Packets)
    BY DEF TypeOK
  <2> QED
    <3>1. frame' \in [seq : Nat, data : Seq(DOMAIN Packets)]
      BY <1>1, FreshTypes DEF OpenStream
    <3>2. outbuf' \in Seq(DOMAIN Packets) /\ Len(outbuf') < SizeBuf
      BY <1>1, FreshTypes DEF OpenStream
    <3>3. holdbuf' \in Seq(DOMAIN Packets)
      BY <1>1, FreshTypes DEF OpenStream
    <3>4. apiPc' \in ApiPcs /\ cbPc' \in CbPcs /\ starts' \in Nat
      BY <1>1 DEF OpenStream, ApiPcs, CbPcs, TypeOK
    <3>5. fid' \in 0 .. 1 /\ sent' \in 0 .. Len(Packets) /\ bare' \subseteq DOMAIN Packets
      BY <1>1, <2>1 DEF OpenStream
    <3> QED
      BY <1>1, <3>1, <3>2, <3>3, <3>4, <3>5 DEF OpenStream, TypeOK
<1>2. CASE CloseStream
  BY <1>2 DEF CloseStream, TypeOK, ApiPcs
<1>3. CASE StartBandwidth
  BY <1>3, StreamAssumption
  DEF StartBandwidth, TypeOK, StageInv, ApiPcs, CbPcs, TransferStates
<1>4. CASE StartFails
  BY <1>4 DEF StartFails, TypeOK, ApiPcs
<1>5. CASE \E t \in Transfers : SubmitTransfer(t)
  BY <1>5 DEF SubmitTransfer, TypeOK, ApiPcs, TransferStates
<1>6. CASE \E t \in Transfers : SubmitFails(t)
  <2>1. running' = FALSE /\ refused' = TRUE /\ apiPc' = "free"
    BY <1>6 DEF SubmitFails
  <2>2. UNCHANGED <<open, isochronous, transfers, assembly, held, user, evPc, cbPc, packets,
                    starts, unplugged>>
    BY <1>6 DEF SubmitFails
  <2> QED
    BY <2>1, <2>2 DEF TypeOK, ApiPcs
<1>7. CASE StopStream
  BY <1>7 DEF StopStream, TypeOK, ApiPcs
<1>8. CASE CancelTransfers
  BY <1>8 DEF CancelTransfers, WaitForTransfers, CbWoken, TypeOK, ApiPcs, CbPcs, TransferStates
<1>9. CASE WaitedForTransfers
  BY <1>9 DEF WaitedForTransfers, WaitForTransfers, CbWoken, TypeOK, ApiPcs, CbPcs
<1>10. CASE JoinUserCaller
  BY <1>10 DEF JoinUserCaller, TypeOK, ApiPcs
<1>11. CASE FreeStream
  BY <1>11 DEF FreeStream, TypeOK, ApiPcs
<1> QED
  BY <1>1, <1>2, <1>3, <1>4, <1>5, <1>6, <1>7, <1>8, <1>9, <1>10, <1>11 DEF ApiStep

LEMMA MoveTypes ==
  ASSUME TypeOK, NEW to \in TransferStates, MoveTransfer(to)
  PROVE  transfers' \in [Transfers -> TransferStates]
  BY DEF MoveTransfer, TypeOK

LEMMA EventTypes ==
  ASSUME IInv, EventStep
  PROVE  TypeOK'
<1> USE DEF IInv, assembly, held, user, device, packets, EvOnly, EvKeepsFrame, EvAt
<1>1. CASE ReceivePacket
  <2>1. sent < Len(Packets) /\ sent' = sent + 1 /\ fid' = Fid(sent')
    BY <1>1 DEF ReceivePacket
  <2>2. fid' \in 0 .. 1 /\ sent' \in 0 .. Len(Packets)
    BY <2>1, NextPacket
  <2>3. SwapBuffers(outbuf, bfh_err, FALSE) \/ Gather(outbuf, bfh_err)
    BY <1>1 DEF ReceivePacket
  <2>4. UNCHANGED isochronous
    BY <1>1 DEF ReceivePacket
  <2> QED
    BY <1>1, <2>2, <2>3, <2>4, SwapTypes, GatherTypes DEF ReceivePacket, TypeOK, EvPcs
<1>2. CASE BrokenPacket
  <2>1. sent' \in 0 .. Len(Packets)
    BY <1>2, NextPacket DEF BrokenPacket
  <2> QED
    BY <1>2, <2>1 DEF BrokenPacket, TypeOK
<1>3. ASSUME NEW data \in BOOLEAN, NEW eof \in BOOLEAN, AppendPacket(data, eof)
      PROVE  TypeOK'
  <2> DEFINE got == IF data /\ Fits(outbuf) THEN Append(outbuf, sent) ELSE outbuf
             err == bfh_err \/ (data /\ ~Fits(outbuf))
  <2>1. sent \in DOMAIN Packets
    BY <1>3 DEF AppendPacket, FrameInv
  <2>2. Append(outbuf, sent) \in Seq(DOMAIN Packets) /\ Len(Append(outbuf, sent)) = Len(outbuf) + 1
    BY <2>1 DEF TypeOK
  <2>3. got \in Seq(DOMAIN Packets) /\ (isochronous \/ Len(got) < SizeBuf)
    BY <2>2 DEF TypeOK, Fits
  <2>4. err \in BOOLEAN
    BY DEF TypeOK
  <2>5. SwapBuffers(got, err, FALSE) \/ Gather(got, err)
    BY <1>3 DEF AppendPacket
  <2>6. UNCHANGED isochronous
    BY <1>3 DEF AppendPacket
  <2> HIDE DEF got, err
  <2> QED
    BY <1>3, <2>3, <2>4, <2>5, <2>6, SwapTypes, GatherTypes DEF AppendPacket, TypeOK, EvPcs
<1>4. ASSUME NEW bit \in 0 .. 1, NEW short \in BOOLEAN, NEW eof \in BOOLEAN,
             EmptyPacket(bit, short, eof)
      PROVE  TypeOK'
  <2>1. SwapBuffers(outbuf, bfh_err, short) \/ Gather(outbuf, bfh_err \/ short)
    BY <1>4 DEF EmptyPacket
  <2>2. UNCHANGED isochronous
    BY <1>4 DEF EmptyPacket
  <2>3. bfh_err \/ short \in BOOLEAN
    BY DEF TypeOK
  <2> QED
    BY <1>4, <2>1, <2>2, <2>3, SwapTypes, GatherTypes DEF EmptyPacket, TypeOK
<1>5. CASE EndPayloads
  BY <1>5 DEF EndPayloads, TypeOK, EvPcs
<1>6. CASE Decide
  BY <1>6 DEF Decide, TypeOK, EvPcs
<1>7. CASE Resubmit
  BY <1>7, MoveTypes DEF Resubmit, TypeOK, EvPcs, TransferStates
<1>8. CASE DeleteTransfer
  BY <1>8, MoveTypes
  DEF DeleteTransfer, TypeOK, EvPcs, TransferStates, Broadcast, CbWoken, ApiWoken, CbPcs, ApiPcs
<1>9. CASE HeaderlessPayload
  <2> DEFINE got == IF Fits(outbuf) THEN Append(outbuf, sent + 1) ELSE outbuf
             err == bfh_err \/ ~Fits(outbuf)
  <2>1. sent + 1 \in DOMAIN Packets /\ sent + 1 \in 0 .. Len(Packets)
    BY <1>9, NextPacket DEF HeaderlessPayload
  <2>2. Append(outbuf, sent + 1) \in Seq(DOMAIN Packets)
        /\ Len(Append(outbuf, sent + 1)) = Len(outbuf) + 1
    BY <2>1 DEF TypeOK
  <2>3. got \in Seq(DOMAIN Packets) /\ (isochronous \/ Len(got) < SizeBuf)
    BY <2>2 DEF TypeOK, Fits
  <2>4. err \in BOOLEAN
    BY DEF TypeOK, Fits
  <2>5. Gather(got, err) /\ UNCHANGED isochronous
    BY <1>9 DEF HeaderlessPayload
  <2>6. sent' \in 0 .. Len(Packets) /\ bare' \subseteq DOMAIN Packets
    BY <1>9, <2>1 DEF HeaderlessPayload, TypeOK
  <2> HIDE DEF got, err
  <2> QED
    BY <1>9, <2>3, <2>4, <2>5, <2>6, GatherTypes DEF HeaderlessPayload, TypeOK
<1> QED
  BY <1>1, <1>2, <1>3, <1>4, <1>5, <1>6, <1>7, <1>8, <1>9 DEF EventStep

LEMMA OtherTypes ==
  ASSUME IInv,
         (\E t \in Transfers : CompleteSome(t)) \/ CallbackStep \/ LosePacket \/ Unplug
  PROVE  TypeOK'
<1> USE DEF IInv, assembly, held, user, device, packets, EvOnly, EvKeepsFrame, CbOnly, CbGoto
<1>1. ASSUME NEW t \in Transfers, NEW status \in Statuses, Complete(t, status)
      PROVE  TypeOK'
  BY <1>1 DEF Complete, TypeOK, TransferStates, EvPcs
<1>2. ASSUME NEW from, WaitForFrame(from)
      PROVE  TypeOK'
  <2>1. Populated \in [seq : Nat, data : Seq(DOMAIN Packets)]
    BY DEF Populated, TypeOK
  <2>2. frame' \in [seq : Nat, data : Seq(DOMAIN Packets)]
    BY <1>2, <2>1 DEF WaitForFrame, TypeOK
  <2> QED
    BY <1>2, <2>2 DEF WaitForFrame, TypeOK, CbPcs
<1>3. CASE CallUser \/ SkipFrame \/ UserReturns
  BY <1>3 DEF CallUser, SkipFrame, UserReturns, TypeOK, CbPcs
<1>4. CASE LosePacket
  <2>1. sent' \in 0 .. Len(Packets)
    BY <1>4, NextPacket DEF LosePacket
  <2> QED
    BY <1>4, <2>1 DEF LosePacket, TypeOK
<1>5. CASE Unplug
  BY <1>5 DEF Unplug, TypeOK
<1> QED
  BY <1>1, <1>2, <1>3, <1>4, <1>5 DEF CompleteSome, CallbackStep

-----------------------------------------------------------------------------
(* Frames.                                                                 *)

(* _uvc_swap_buffers holds one frame and begins the next.                  *)
LEMMA SwapFrames ==
  ASSUME NEW data, NEW err, NEW nextErr, SwapBuffers(data, err, nextErr),
         OneFrame(data), FrameInv, UNCHANGED <<frame, bare>>
  PROVE  OneFrame(outbuf)' /\ FrameIntegrity' /\ DOMAIN outbuf' = {}
  BY EmptyFrame DEF SwapBuffers, FrameInv, FrameIntegrity, OneFrame

LEMMA GatherFrames ==
  ASSUME NEW data, NEW err, Gather(data, err),
         OneFrameBut(data, bare'), FrameInv, UNCHANGED frame, bare \subseteq bare'
  PROVE  OneFrame(outbuf)' /\ FrameIntegrity' /\ outbuf' = data
<1>1. outbuf' = data /\ UNCHANGED <<holdbuf, frame>>
  BY DEF Gather, held
<1>2. OneFrameBut(holdbuf, bare') /\ OneFrameBut(frame.data, bare')
  <2>1. OneFrameBut(holdbuf, bare) /\ OneFrameBut(frame.data, bare)
    BY DEF FrameInv, FrameIntegrity, OneFrame, OneFrameBut
  <2> QED
    BY <2>1, MoreBare
<1> QED
  BY <1>1, <1>2 DEF OneFrame, OneFrameBut, FrameIntegrity

LEMMA EventFrames ==
  ASSUME IInv, EventStep
  PROVE  FrameInv'
<1> USE DEF IInv, EvOnly, EvKeepsFrame, EvAt, user, packets
<1>1. CASE ReceivePacket
  <2>1. sent < Len(Packets) /\ sent' = sent + 1 /\ fid' = Fid(sent')
    BY <1>1 DEF ReceivePacket
  <2>2. sent' \in DOMAIN Packets /\ sent' > sent /\ sent' \in Nat /\ sent \in Nat
    BY <2>1, NextPacket DEF TypeOK
  <2>3. UNCHANGED <<frame, bare>> /\ OneFrameBut(outbuf, bare)
    BY <1>1 DEF ReceivePacket, FrameInv, OneFrame, OneFrameBut
  <2>4. CASE Flipped(Fid(sent'))
    BY <1>1, <2>1, <2>2, <2>3, <2>4, SwapFrames DEF ReceivePacket, FrameInv
  <2>5. CASE ~Flipped(Fid(sent'))
    <3>1. outbuf' = outbuf /\ OneFrame(outbuf)' /\ FrameIntegrity'
      BY <1>1, <2>3, <2>5, GatherFrames DEF ReceivePacket
    <3>2. outbuf = <<>> \/ fid = Fid(sent')
      BY <2>5 DEF Flipped
    <3>3. \A i \in DOMAIN outbuf :
            outbuf[i] < sent' /\ (outbuf[i] \notin bare => Fid(outbuf[i]) = fid')
      <4> SUFFICES ASSUME NEW i \in DOMAIN outbuf
                   PROVE  outbuf[i] < sent' /\ (outbuf[i] \notin bare => Fid(outbuf[i]) = fid')
        OBVIOUS
      <4>1. outbuf # <<>>
        BY EmptyFrame
      <4>2. outbuf[i] <= sent /\ (outbuf[i] \notin bare => Fid(outbuf[i]) = fid)
        BY DEF FrameInv
      <4> QED
        BY <2>1, <2>2, <3>2, <4>1, <4>2, GatheredNumbers
    <3>4. \A i \in DOMAIN outbuf : outbuf[i] <= sent'
      BY <2>2, <3>3, GatheredNumbers
    <3> QED
      BY <2>1, <2>2, <2>3, <3>1, <3>3, <3>4 DEF FrameInv
  <2> QED
    BY <2>4, <2>5
<1>2. CASE BrokenPacket
  <2>1. /\ UNCHANGED <<outbuf, holdbuf, frame, fid, bare, evPc>>
        /\ sent' = sent + 1 /\ evPc = "payload"
    BY <1>2 DEF BrokenPacket, held
  <2> QED
    BY <2>1, GatheredNumbers DEF FrameInv, FrameIntegrity, OneFrame
<1>3. ASSUME NEW data \in BOOLEAN, NEW eof \in BOOLEAN, AppendPacket(data, eof)
      PROVE  FrameInv'
  <2> DEFINE got == IF data /\ Fits(outbuf) THEN Append(outbuf, sent) ELSE outbuf
             err == bfh_err \/ (data /\ ~Fits(outbuf))
  <2>1. /\ sent \in DOMAIN Packets /\ Fid(sent) = fid
        /\ \A i \in DOMAIN outbuf :
             outbuf[i] < sent /\ (outbuf[i] \notin bare => Fid(outbuf[i]) = fid)
        /\ OneFrameBut(outbuf, bare)
    BY <1>3 DEF AppendPacket, FrameInv, OneFrame, OneFrameBut
  <2>2. /\ OneFrameBut(got, bare)
        /\ \A i \in DOMAIN got : got[i] <= sent /\ (got[i] \notin bare => Fid(got[i]) = fid)
    <3>1. /\ outbuf \in Seq(DOMAIN Packets) /\ HasFid(outbuf, bare, fid)
          /\ \A i \in DOMAIN outbuf : outbuf[i] < sent
      BY <2>1 DEF TypeOK, HasFid
    <3>2. /\ OneFrameBut(Append(outbuf, sent), bare) /\ HasFid(Append(outbuf, sent), bare, fid)
          /\ \A i \in DOMAIN Append(outbuf, sent) : Append(outbuf, sent)[i] <= sent
      BY <2>1, <3>1, LongerFrame
    <3>3. CASE data /\ Fits(outbuf)
      BY <3>2, <3>3 DEF HasFid
    <3>4. CASE ~(data /\ Fits(outbuf))
      BY <2>1, <3>4, GatheredNumbers
    <3> QED
      BY <3>3, <3>4
  <2>3. SwapBuffers(got, err, FALSE) \/ Gather(got, err)
    BY <1>3 DEF AppendPacket
  <2>4. UNCHANGED <<frame, sent, bare, fid>> /\ evPc' = "payload"
    BY <1>3 DEF AppendPacket
  <2> HIDE DEF got, err
  <2>5. OneFrame(got)
    BY <2>2 DEF OneFrame, OneFrameBut
  <2>6. OneFrame(outbuf)' /\ FrameIntegrity' /\ (DOMAIN outbuf' = {} \/ outbuf' = got)
    BY <2>2, <2>3, <2>4, <2>5, SwapFrames, GatherFrames
  <2> QED
    BY <2>2, <2>4, <2>6 DEF FrameInv
<1>4. ASSUME NEW bit \in 0 .. 1, NEW short \in BOOLEAN, NEW eof \in BOOLEAN,
             EmptyPacket(bit, short, eof)
      PROVE  FrameInv'
  <2>1. /\ UNCHANGED <<frame, sent, bare, evPc>> /\ evPc = "payload" /\ fid' = bit
        /\ OneFrameBut(outbuf, bare)
    BY <1>4 DEF EmptyPacket, FrameInv, OneFrame, OneFrameBut
  <2>2. CASE SwapBuffers(outbuf, bfh_err, short)
    BY <2>1, <2>2, SwapFrames DEF FrameInv
  <2>3. CASE Gather(outbuf, bfh_err \/ short) /\ ~Flipped(bit)
    <3>1. outbuf' = outbuf /\ OneFrame(outbuf)' /\ FrameIntegrity'
      BY <2>1, <2>3, GatherFrames
    <3>2. outbuf = <<>> \/ fid = bit
      BY <2>3 DEF Flipped
    <3> QED
      BY <2>1, <3>1, <3>2, EmptyFrame DEF FrameInv
  <2> QED
    BY <1>4, <2>2, <2>3 DEF EmptyPacket
<1>5. CASE EndPayloads \/ Decide \/ Resubmit \/ DeleteTransfer
  <2>1. UNCHANGED <<outbuf, holdbuf, frame, fid, sent, bare>> /\ evPc' # "append"
    BY <1>5 DEF EndPayloads, Decide, Resubmit, DeleteTransfer, assembly, held
  <2> QED
    BY <2>1 DEF FrameInv, FrameIntegrity, OneFrame
<1>6. CASE HeaderlessPayload
  <2> DEFINE got == IF Fits(outbuf) THEN Append(outbuf, sent + 1) ELSE outbuf
             err == bfh_err \/ ~Fits(outbuf)
  <2>1. /\ sent' = sent + 1 /\ bare' = bare \cup {sent + 1} /\ UNCHANGED <<frame, fid, evPc>>
        /\ evPc = "payload" /\ Gather(got, err)
    BY <1>6 DEF HeaderlessPayload
  <2>2. sent + 1 \in DOMAIN Packets /\ sent \in Nat /\ sent' > sent
    BY <1>6, <2>1, NextPacket DEF HeaderlessPayload, TypeOK
  <2>3. OneFrameBut(outbuf, bare')
    <3>1. OneFrameBut(outbuf, bare)
      BY DEF FrameInv, OneFrame, OneFrameBut
    <3> QED
      BY <2>1, <3>1, MoreBare
  <2>4. \A i \in DOMAIN outbuf :
          outbuf[i] < sent + 1 /\ (outbuf[i] \notin bare' => Fid(outbuf[i]) = fid)
    BY <2>1, <2>2, GatheredNumbers DEF FrameInv
  <2>5. /\ OneFrameBut(got, bare')
        /\ \A i \in DOMAIN got :
             got[i] <= sent + 1 /\ (got[i] \notin bare' => Fid(got[i]) = fid)
    <3>1. CASE Fits(outbuf)
      <4>1. /\ outbuf \in Seq(DOMAIN Packets) /\ sent + 1 \in bare'
            /\ HasFid(outbuf, bare', fid) /\ \A i \in DOMAIN outbuf : outbuf[i] < sent + 1
        BY <2>1, <2>4 DEF TypeOK, HasFid
      <4>2. /\ OneFrameBut(Append(outbuf, sent + 1), bare')
            /\ HasFid(Append(outbuf, sent + 1), bare', fid)
            /\ \A i \in DOMAIN Append(outbuf, sent + 1) : Append(outbuf, sent + 1)[i] <= sent + 1
        BY <2>2, <2>3, <4>1, LongerFrame
      <4> QED
        BY <3>1, <4>2 DEF HasFid
    <3>2. CASE ~Fits(outbuf)
      BY <2>2, <2>3, <2>4, <3>2, GatheredNumbers
    <3> QED
      BY <3>1, <3>2
  <2> HIDE DEF got, err
  <2>6. outbuf' = got /\ OneFrame(outbuf)' /\ FrameIntegrity'
    BY <2>1, <2>5, GatherFrames
  <2> QED
    BY <2>1, <2>5, <2>6 DEF FrameInv
<1> QED
  BY <1>1, <1>2, <1>3, <1>4, <1>5, <1>6 DEF EventStep

LEMMA OtherFrames ==
  ASSUME IInv,
         \/ OpenStream \/ CloseStream \/ ApiStep
         \/ \E t \in Transfers : CompleteSome(t)
         \/ CallbackStep \/ LosePacket \/ Unplug
  PROVE  FrameInv'
<1> USE DEF IInv, assembly, held, user, packets, FrameIntegrity
<1>1. CASE OpenStream
  <2>1. evPc' # "append"
    BY <1>1 DEF OpenStream, Quiet
  <2> QED
    BY <1>1, <2>1, EmptyFrame DEF OpenStream, FrameInv, OneFrame
<1>2. CASE CloseStream \/ ApiStep \/ Unplug
  <2>1. UNCHANGED <<outbuf, holdbuf, frame, fid, packets, evPc>>
    BY <1>2
    DEF CloseStream, ApiStep, Unplug, StartBandwidth, StartFails, SubmitTransfer, SubmitFails,
        StopStream, CancelTransfers, WaitedForTransfers, JoinUserCaller, FreeStream
  <2> QED
    BY <2>1 DEF FrameInv, OneFrame
<1>3. ASSUME NEW t \in Transfers, NEW status \in Statuses, Complete(t, status)
      PROVE  FrameInv'
  <2>1. UNCHANGED <<outbuf, holdbuf, frame, fid, packets>> /\ evPc' # "append"
    BY <1>3 DEF Complete, EvOnly, EvKeepsFrame
  <2> QED
    BY <2>1 DEF FrameInv, OneFrame
<1>4. ASSUME NEW from, WaitForFrame(from)
      PROVE  FrameInv'
  <2>1. UNCHANGED <<outbuf, holdbuf, fid, packets, evPc>>
    BY <1>4 DEF WaitForFrame, CbOnly
  <2>2. frame' = frame \/ frame'.data = holdbuf
    BY <1>4 DEF WaitForFrame, Populated
  <2> QED
    BY <2>1, <2>2 DEF FrameInv, OneFrame
<1>5. CASE CallUser \/ SkipFrame \/ UserReturns
  <2>1. UNCHANGED <<outbuf, holdbuf, frame, fid, packets, evPc>>
    BY <1>5 DEF CallUser, SkipFrame, UserReturns, CbOnly
  <2> QED
    BY <2>1 DEF FrameInv, OneFrame
<1>6. CASE LosePacket
  <2>1. UNCHANGED <<outbuf, holdbuf, frame, fid, bare, evPc>> /\ sent' = sent + 1 /\ evPc # "append"
    BY <1>6 DEF LosePacket
  <2> QED
    BY <2>1, GatheredNumbers DEF FrameInv, OneFrame
<1> QED
  BY <1>1, <1>2, <1>3, <1>4, <1>5, <1>6 DEF CompleteSome, CallbackStep

-----------------------------------------------------------------------------
(* Stages.                                                                 *)

(* The callbacks of the event thread that leave the handle alone: at most  *)
(* the transfer they were called for changes, and a wakeup is sent.        *)
LEMMA CallbackEnds ==
  ASSUME StageInv, NEW to \in {"submitted", "stranded", "null"}, MoveTransfer(to),
         transfers \in [Transfers -> TransferStates]
  PROVE  \A t \in Transfers : transfers'[t] # "callback"
  BY DEF MoveTransfer, StageInv

(* A broadcast wakes who is blocked, and nobody else moves.                *)
BroadcastOnly ==
  /\ apiPc' = apiPc \/ (apiPc = "blocked" /\ apiPc' = "woken")
  /\ cbPc' = cbPc \/ (cbPc = "blocked" /\ cbPc' = "woken")

LEMMA BroadcastIs == Broadcast => BroadcastOnly
  BY DEF Broadcast, BroadcastOnly, CbWoken, ApiWoken

LEMMA EventStages ==
  ASSUME IInv, EventStep
  PROVE  StageInv'
<1> USE DEF IInv, EvOnly, EvKeepsFrame, EvAt, device
<1>1. UNCHANGED <<open, running, unplugged>> /\ evPc # "idle" /\ (refused => refused')
  BY DEF EventStep, ReceivePacket, HeaderlessPayload, BrokenPacket, AppendPacket, EmptyPacket,
         EndPayloads, Decide, Resubmit, DeleteTransfer, TypeOK
<1>2. BroadcastOnly
  BY BroadcastIs
  DEF BroadcastOnly, EventStep, ReceivePacket, HeaderlessPayload, BrokenPacket, AppendPacket, EmptyPacket,
      EndPayloads, Decide, Resubmit, DeleteTransfer, SwapBuffers, Gather
<1>3. ~Quiet /\ ~TransfersDeleted
  BY <1>1 DEF StageInv, Quiet, TransfersDeleted
<1>4. apiPc \notin {"start", "join"} /\ ((apiPc = "free" \/ ~open) => Broken)
  BY <1>3 DEF StageInv
<1>5. CASE Resubmit \/ DeleteTransfer
  <2>1. evPc' = "idle" /\ \A t \in Transfers : transfers'[t] # "callback"
    BY <1>5, CallbackEnds DEF Resubmit, DeleteTransfer, TypeOK
  <2> QED
    BY <1>1, <1>2, <1>4, <2>1 DEF StageInv, BroadcastOnly, Broken
<1>6. CASE ReceivePacket \/ HeaderlessPayload \/ BrokenPacket \/ EndPayloads \/ Decide
           \/ (\E data, eof \in BOOLEAN : AppendPacket(data, eof))
           \/ (\E bit \in 0 .. 1, short, eof \in BOOLEAN : EmptyPacket(bit, short, eof))
  <2>1. evPc' # "idle" /\ UNCHANGED transfers
    BY <1>6 DEF ReceivePacket, HeaderlessPayload, BrokenPacket, AppendPacket, EmptyPacket, EndPayloads, Decide
  <2> QED
    BY <1>1, <1>2, <1>4, <2>1 DEF StageInv, BroadcastOnly, Broken
<1> QED
  BY <1>5, <1>6 DEF EventStep

LEMMA ApiStages ==
  ASSUME IInv, OpenStream \/ CloseStream \/ ApiStep
  PROVE  StageInv'
<1> USE DEF IInv, assembly, device
<1>1. CASE OpenStream
  BY <1>1 DEF OpenStream, StageInv, Quiet, Broken, TypeOK
<1>2. CASE CloseStream
  BY <1>2 DEF CloseStream, StageInv, Quiet, Broken
<1>3. CASE StartBandwidth
  BY <1>3 DEF StartBandwidth, StageInv, Quiet, Broken
<1>4. CASE StartFails
  BY <1>4 DEF StartFails, StageInv, Quiet, Broken
<1>5. ASSUME NEW t \in Transfers, SubmitTransfer(t)
      PROVE  StageInv'
  BY <1>5 DEF SubmitTransfer, Submitting, StageInv, Quiet, Broken, TypeOK
<1>6. ASSUME NEW t \in Transfers, SubmitFails(t)
      PROVE  StageInv'
  BY <1>6 DEF SubmitFails, Submitting, StageInv, Quiet, Broken
<1>7. CASE StopStream
  BY <1>7 DEF StopStream, StageInv, Quiet, Broken
<1>8. CASE CancelTransfers
  BY <1>8 DEF CancelTransfers, WaitForTransfers, StageInv, Quiet, Broken, TransfersDeleted, TypeOK
<1>9. CASE WaitedForTransfers
  BY <1>9 DEF WaitedForTransfers, WaitForTransfers, StageInv, Quiet, Broken, TransfersDeleted
<1>10. CASE JoinUserCaller
  BY <1>10 DEF JoinUserCaller, StageInv, Quiet, Broken, TransfersDeleted
<1>11. CASE FreeStream
  BY <1>11 DEF FreeStream, StageInv, Quiet, Broken
<1> QED
  BY <1>1, <1>2, <1>3, <1>4, <1>5, <1>6, <1>7, <1>8, <1>9, <1>10, <1>11 DEF ApiStep

LEMMA OtherStages ==
  ASSUME IInv,
         (\E t \in Transfers : CompleteSome(t)) \/ CallbackStep \/ LosePacket \/ Unplug
  PROVE  StageInv'
<1> USE DEF IInv, assembly, device
<1>1. ASSUME NEW t \in Transfers, NEW status \in Statuses, Complete(t, status)
      PROVE  StageInv'
  <2>1. /\ evPc = "idle" /\ evPc' # "idle" /\ transfers[t] \in {"submitted", "cancelled"}
        /\ transfers' = [transfers EXCEPT ![t] = "callback"]
        /\ UNCHANGED <<open, apiPc, cbPc, unplugged, refused>>
        /\ running' = running \/ unplugged
    BY <1>1 DEF Complete, EvAt, EvOnly
  <2>2. ~Quiet /\ ~TransfersDeleted
    BY <2>1 DEF Quiet, TransfersDeleted
  <2> QED
    BY <2>1, <2>2 DEF StageInv, Broken, TypeOK
<1>2. CASE CallbackStep
  <2>1. UNCHANGED <<open, running, transfers, outbuf, apiPc, evPc, unplugged, refused>>
    BY <1>2 DEF CallbackStep, WaitForFrame, CallUser, SkipFrame, UserReturns, CbOnly
  <2>2. cbPc \notin {"none", "done"}
    BY <1>2 DEF CallbackStep, WaitForFrame, CallUser, SkipFrame, UserReturns, CbGoto
  <2> QED
    BY <2>1, <2>2 DEF StageInv, Quiet, Broken, TransfersDeleted
<1>3. CASE LosePacket
  BY <1>3 DEF LosePacket, StageInv, Quiet, Broken, TransfersDeleted
<1>4. CASE Unplug
  BY <1>4 DEF Unplug, StageInv, Quiet, Broken, TransfersDeleted
<1> QED
  BY <1>1, <1>2, <1>3, <1>4 DEF CompleteSome

-----------------------------------------------------------------------------
LEMMA StepInv == ASSUME IInv, [Next]_vars PROVE IInv'
<1>1. CASE Next
  BY <1>1, ApiTypes, EventTypes, OtherTypes, EventFrames, OtherFrames,
     ApiStages, EventStages, OtherStages
  DEF Next, IInv
<1>2. CASE UNCHANGED vars
  <2> USE <1>2 DEF vars, assembly, held, user, device, packets
  <2>1. TypeOK'
    BY DEF IInv, TypeOK
  <2>2. FrameInv'
    BY DEF IInv, FrameInv, FrameIntegrity, OneFrame
  <2>3. StageInv'
    BY DEF IInv, StageInv, Quiet, Broken, TransfersDeleted
  <2> QED
    BY <2>1, <2>2, <2>3 DEF IInv
<1> QED
  BY <1>1, <1>2

THEOREM StreamInductive == Spec => []IInv
  BY InitInv, StepInv, PTL DEF Spec

(* In every behaviour all variables have their types, and the boundary     *)
(* check of a bulk payload keeps the frame within its buffer.              *)
THEOREM StreamTypeCorrect == Spec => []TypeOK
<1>1. IInv => TypeOK
  BY DEF IInv
<1> QED
  BY <1>1, StreamInductive, PTL

(* Whatever packets are lost or broken on the way, a held or shown frame   *)
(* has its packets in order, and those of them that came with a header are *)
(* not of two successive pictures.                                         *)
THEOREM FramesWhole == Spec => []FrameIntegrity
<1>1. IInv => FrameIntegrity
  BY DEF IInv, FrameInv
<1> QED
  BY <1>1, StreamInductive, PTL

(* When a stream whose device works has been closed, none of its threads   *)
(* and transfers is left.                                                  *)
THEOREM CloseDrains == Spec => []StopDrains
<1>1. IInv => StopDrains
  BY DEF IInv, StageInv, StopDrains
<1> QED
  BY <1>1, StreamInductive, PTL

-----------------------------------------------------------------------------
(* The refinement of FrameSource.  Frames move on from being gathered to   *)
(* held to populated to shown, so their numbers are ordered.               *)
OrderInv == shown <= frame.seq /\ frame.seq <= hold_seq /\ hold_seq <= seq

LEMMA OrderStep ==
  ASSUME IInv, OrderInv, [Next]_vars
  PROVE  OrderInv'
<1> USE DEF IInv, assembly, held, user, EvOnly, EvKeepsFrame, CbOnly
<1>1. /\ shown \in Nat /\ hold_seq \in Nat /\ seq \in Nat
      /\ frame \in [seq : Nat, data : Seq(DOMAIN Packets)]
  BY DEF TypeOK
<1>2. CASE OpenStream
  BY <1>2 DEF OpenStream, OrderInv
<1>3. CASE EventStep
  <2>1. UNCHANGED <<shown, frame>>
    BY <1>3 DEF EventStep, ReceivePacket, HeaderlessPayload, BrokenPacket, AppendPacket, EmptyPacket,
                EndPayloads, Decide, Resubmit, DeleteTransfer
  <2>2. \/ UNCHANGED <<hold_seq, seq>>
        \/ hold_seq' = seq /\ seq' = seq + 1
    BY <1>3 DEF EventStep, ReceivePacket, HeaderlessPayload, BrokenPacket, AppendPacket, EmptyPacket,
                EndPayloads, Decide, Resubmit, DeleteTransfer, SwapBuffers, Gather
  <2> QED
    BY <1>1, <2>1, <2>2 DEF OrderInv
<1>4. ASSUME NEW from, WaitForFrame(from)
      PROVE  OrderInv'
  BY <1>1, <1>4 DEF WaitForFrame, Populated, OrderInv
<1>5. CASE CallUser \/ SkipFrame \/ UserReturns
  BY <1>1, <1>5 DEF CallUser, SkipFrame, UserReturns, OrderInv
<1>6. CASE \/ CloseStream \/ ApiStep \/ LosePacket \/ Unplug
           \/ \E t \in Transfers : CompleteSome(t)
           \/ UNCHANGED vars
  <2>1. UNCHANGED <<shown, frame, hold_seq, seq>>
    BY <1>6
    DEF CloseStream, ApiStep, Unplug, StartBandwidth, StartFails, SubmitTransfer, SubmitFails,
        StopStream, CancelTransfers, WaitedForTransfers, JoinUserCaller, FreeStream, LosePacket,
        CompleteSome, Complete, vars
  <2> QED
    BY <2>1 DEF OrderInv
<1> QED
  BY <1>2, <1>3, <1>4, <1>5, <1>6 DEF Next, CallbackStep

LEMMA SourceStep ==
  ASSUME IInv, OrderInv, [Next]_vars
  PROVE  [Source!Next]_(Source!sourceVars)
<1> USE DEF IInv, assembly, held, user, device, packets, EvOnly, EvKeepsFrame, CbOnly, CbGoto,
        Source!sourceVars, Source!Next
<1>1. CASE OpenStream
  <2>1. ~open /\ open' = TRUE /\ shown' = 0 /\ cbPc # "inCall" /\ cbPc' # "inCall"
    BY <1>1 DEF OpenStream, Quiet
  <2>2. Broken' = Broken
    BY <1>1 DEF OpenStream, Broken
  <2> QED
    BY <2>1, <2>2 DEF Source!Start
<1>2. CASE FreeStream
  <2>1. open /\ open' = FALSE /\ UNCHANGED <<cbPc, shown>> /\ Broken' = Broken
    BY <1>2 DEF FreeStream, StageInv, Broken
  <2>2. cbPc # "inCall" \/ Broken
    BY <1>2 DEF FreeStream, StageInv, Quiet
  <2> QED
    BY <2>1, <2>2 DEF Source!Stop
<1>3. CASE CallUser
  <2>1. open /\ cbPc # "inCall" /\ cbPc' = "inCall" /\ UNCHANGED open /\ Broken' = Broken
    BY <1>3 DEF CallUser, Broken
  <2>2. shown' \in Nat /\ shown' >= shown
    BY <1>3 DEF CallUser, OrderInv, TypeOK
  <2> QED
    BY <2>1, <2>2 DEF Source!Show
<1>4. CASE UserReturns
  <2>1. cbPc = "inCall" /\ cbPc' # "inCall" /\ UNCHANGED <<open, shown>> /\ Broken' = Broken
    BY <1>4 DEF UserReturns, Broken
  <2> QED
    BY <2>1 DEF Source!Return
<1>5. ASSUME UNCHANGED <<open, shown>>, cbPc' = "inCall" <=> cbPc = "inCall",
             Broken => Broken'
      PROVE  [Source!Next]_(Source!sourceVars)
  BY <1>5 DEF Source!Break, Broken, TypeOK
<1>6. CASE EventStep
  <2>1. UNCHANGED <<open, shown>>
    BY <1>6 DEF EventStep, ReceivePacket, HeaderlessPayload, BrokenPacket, AppendPacket, EmptyPacket,
                EndPayloads, Decide, Resubmit, DeleteTransfer
  <2>2. UNCHANGED unplugged
    BY <1>6 DEF EventStep, ReceivePacket, HeaderlessPayload, BrokenPacket, AppendPacket, EmptyPacket,
                EndPayloads, Decide, Resubmit, DeleteTransfer
  <2>3. refused' = refused \/ refused' = TRUE
    BY <1>6 DEF EventStep, ReceivePacket, HeaderlessPayload, BrokenPacket, AppendPacket, EmptyPacket,
                EndPayloads, Decide, Resubmit, DeleteTransfer
  <2>4. cbPc' = cbPc \/ cbPc' = CbWoken
    BY <1>6 DEF EventStep, ReceivePacket, HeaderlessPayload, BrokenPacket, AppendPacket, EmptyPacket,
                EndPayloads, Decide, Resubmit, DeleteTransfer, SwapBuffers, Gather, Broadcast
  <2> QED
    BY <1>5, <2>1, <2>2, <2>3, <2>4 DEF CbWoken, Broken
<1>7. CASE \/ CloseStream \/ LosePacket \/ Unplug \/ SkipFrame
           \/ WaitForFrame("loop") \/ WaitForFrame("woken")
           \/ (\E t \in Transfers : CompleteSome(t))
           \/ UNCHANGED vars
  <2>1. UNCHANGED <<open, shown>> /\ (Broken => Broken') /\ (cbPc' = "inCall" <=> cbPc = "inCall")
    BY <1>7 DEF CloseStream, LosePacket, Unplug, SkipFrame, WaitForFrame, CompleteSome, Complete,
                Broken, vars
  <2> QED
    BY <1>5, <2>1
<1>8. CASE ApiStep /\ ~FreeStream
  <2>1. CASE StartBandwidth
    BY <1>5, <2>1 DEF StartBandwidth, StageInv, Quiet, Broken
  <2>2. CASE ~StartBandwidth
    <3>1. UNCHANGED <<open, shown>>
      BY <1>8, <2>2
      DEF ApiStep, StartFails, SubmitTransfer, SubmitFails, StopStream, CancelTransfers,
          WaitedForTransfers, JoinUserCaller
    <3>2. UNCHANGED unplugged /\ (refused' = refused \/ refused' = TRUE)
      BY <1>8, <2>2
      DEF ApiStep, StartFails, SubmitTransfer, SubmitFails, StopStream, CancelTransfers,
          WaitedForTransfers, JoinUserCaller
    <3>3. cbPc' = cbPc \/ cbPc' = CbWoken
      BY <1>8, <2>2
      DEF ApiStep, StartFails, SubmitTransfer, SubmitFails, StopStream, CancelTransfers,
          WaitedForTransfers, JoinUserCaller, WaitForTransfers
    <3> QED
      BY <1>5, <3>1, <3>2, <3>3 DEF CbWoken, Broken
  <2> QED
    BY <2>1, <2>2
<1> QED
  BY <1>1, <1>2, <1>3, <1>4, <1>6, <1>7, <1>8 DEF Next, ApiStep, CallbackStep

(* libuvc's streaming is a FrameSource: what UVCPreview takes for granted  *)
(* about uvc_start_streaming and uvc_stop_streaming.                       *)
THEOREM StreamIsSource == Spec => ImplementsSource
<1>1. Init => OrderInv /\ Source!Init
  BY DEF Init, OrderInv, Source!Init, Broken
<1>2. Spec => []OrderInv
  BY <1>1, OrderStep, StreamInductive, PTL DEF Spec
<1> QED
  BY <1>1, <1>2, SourceStep, StreamInductive, PTL DEF Spec, ImplementsSource, Source!Spec

-----------------------------------------------------------------------------
(* Sleeping and waking.                                                    *)

(* From the moment that a stop decides to wait, the stream does not run;   *)
(* the callback thread takes this from running, before it sleeps again.    *)
StoppedInv == apiPc \in {"cancel", "blocked", "woken", "join"} => ~running
WakeupInv == StoppedInv /\ NoWakeupLost

LEMMA ApiWakeups ==
  ASSUME IInv, WakeupInv, OpenStream \/ CloseStream \/ ApiStep
  PROVE  WakeupInv'
<1> USE DEF WakeupInv, StoppedInv, NoWakeupLost, assembly, held, user, device, TransfersDeleted
<1>1. CASE OpenStream \/ CloseStream
  BY <1>1 DEF OpenStream, CloseStream
<1>2. CASE StartBandwidth \/ StartFails
  <2>1. apiPc' \in {"submit", "free"} /\ (cbPc' = "loop" \/ UNCHANGED <<running, cbPc, hold_seq, last_seq>>)
    BY <1>2 DEF StartBandwidth, StartFails
  <2> QED
    BY <2>1
<1>3. ASSUME NEW t \in Transfers, SubmitTransfer(t) \/ SubmitFails(t)
      PROVE  WakeupInv'
  BY <1>3 DEF SubmitTransfer, SubmitFails
<1>4. CASE StopStream
  BY <1>4 DEF StopStream
<1>5. ASSUME NEW after, WaitForTransfers(after), apiPc \in {"cancel", "woken"},
             \A t \in Transfers : transfers[t] # "null" => after[t] # "null",
             UNCHANGED <<running, held, user>>
      PROVE  WakeupInv'
  BY <1>5 DEF WaitForTransfers, CbWoken
<1>6. CASE CancelTransfers
  BY <1>5, <1>6 DEF CancelTransfers
<1>7. CASE WaitedForTransfers
  BY <1>5, <1>7 DEF WaitedForTransfers
<1>8. CASE JoinUserCaller \/ FreeStream
  BY <1>8 DEF JoinUserCaller, FreeStream
<1> QED
  BY <1>1, <1>2, <1>3, <1>4, <1>6, <1>7, <1>8 DEF ApiStep

(* _uvc_swap_buffers wakes the callback thread for the frame it holds, and *)
(* _uvc_delete_transfer whoever waits for a transfer to be gone.           *)
LEMMA EventWakeups ==
  ASSUME IInv, WakeupInv, EventStep
  PROVE  WakeupInv'
<1> USE DEF WakeupInv, StoppedInv, NoWakeupLost, EvOnly, EvKeepsFrame, held, user
<1>1. CASE DeleteTransfer
  BY <1>1 DEF DeleteTransfer, Broadcast, CbWoken, ApiWoken
<1>2. CASE Decide
  BY <1>2 DEF Decide, TransfersDeleted
<1>3. CASE Resubmit
  <2>1. evPc = "resubmit" /\ UNCHANGED <<running, apiPc, cbPc, held, last_seq>>
    BY <1>3 DEF Resubmit, EvAt
  <2>2. ~TransfersDeleted'
    BY <1>3 DEF Resubmit, MoveTransfer, TransfersDeleted, IInv, TypeOK
  <2> QED
    BY <2>1, <2>2
<1>4. CASE \/ ReceivePacket \/ HeaderlessPayload \/ BrokenPacket \/ EndPayloads
           \/ \E data, eof \in BOOLEAN : AppendPacket(data, eof)
           \/ \E bit \in 0 .. 1, short, eof \in BOOLEAN : EmptyPacket(bit, short, eof)
  <2>1. UNCHANGED <<running, transfers, last_seq>>
    BY <1>4 DEF ReceivePacket, HeaderlessPayload, BrokenPacket, EndPayloads, AppendPacket, EmptyPacket
  <2>2. \/ UNCHANGED <<apiPc, cbPc, hold_seq>>
        \/ cbPc' = CbWoken /\ apiPc' = ApiWoken
    BY <1>4 DEF ReceivePacket, HeaderlessPayload, BrokenPacket, EndPayloads, AppendPacket, EmptyPacket, SwapBuffers,
                Gather, Broadcast
  <2> QED
    BY <2>1, <2>2 DEF CbWoken, ApiWoken, TransfersDeleted
<1> QED
  BY <1>1, <1>2, <1>3, <1>4 DEF EventStep

LEMMA OtherWakeups ==
  ASSUME IInv, WakeupInv,
         (\E t \in Transfers : CompleteSome(t)) \/ CallbackStep \/ LosePacket \/ Unplug
  PROVE  WakeupInv'
<1> USE DEF WakeupInv, StoppedInv, NoWakeupLost, held, user
<1>1. ASSUME NEW t \in Transfers, NEW status \in Statuses, Complete(t, status)
      PROVE  WakeupInv'
  <2>1. /\ transfers' = [transfers EXCEPT ![t] = "callback"]
        /\ UNCHANGED <<apiPc, cbPc, hold_seq, last_seq>> /\ (running' => running)
    BY <1>1 DEF Complete, EvOnly, EvKeepsFrame
  <2> QED
    BY <2>1 DEF TransfersDeleted, IInv, TypeOK
<1>2. CASE CallbackStep
  BY <1>2 DEF CallbackStep, WaitForFrame, CallUser, SkipFrame, UserReturns, CbGoto, CbOnly,
              TransfersDeleted
<1>3. CASE LosePacket \/ Unplug
  BY <1>3 DEF LosePacket, Unplug, TransfersDeleted
<1> QED
  BY <1>1, <1>2, <1>3 DEF CompleteSome

(* In every behaviour, whoever sleeps on cb_cond sleeps for a reason: what *)
(* it waits for has not happened, and who does it will send the wakeup.    *)
THEOREM WakeupsKept == Spec => []NoWakeupLost
<1>1. Init => WakeupInv
  BY DEF Init, WakeupInv, StoppedInv, NoWakeupLost
<1>2. ASSUME IInv, WakeupInv, [Next]_vars
      PROVE  WakeupInv'
  <2>1. CASE UNCHANGED vars
    BY <1>2, <2>1 DEF vars, held, user, WakeupInv, StoppedInv, NoWakeupLost, TransfersDeleted
  <2> QED
    BY <1>2, <2>1, ApiWakeups, EventWakeups, OtherWakeups DEF Next
<1>3. WakeupInv => NoWakeupLost
  BY DEF WakeupInv
<1> QED
  BY <1>1, <1>2, <1>3, StreamInductive, PTL DEF Spec
=============================================================================
