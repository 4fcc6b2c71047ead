--------------------------- MODULE RecordingProofs ---------------------------
(***************************************************************************)
(* Proofs about Recording, for any number of encoders and frames: the      *)
(* muxer's count is right, and the file is used as MuxerFile says.         *)
(***************************************************************************)
EXTENDS Recording, FiniteSetTheorems, TLAPS

(* The encoders whose startRecording was called.                           *)
Begun(e) ==
  step \in {"recording", "stop", "stopped"} \/ (step = "start" /\ e < turn)

(* An encoder captures, and has a track, only after it was started; it     *)
(* waits for the muxer only inside drain; past that the muxer has started. *)
EncoderInv(e) ==
  /\ mIsCapturing[e] => Begun(e)
  /\ mMuxerStarted[e] => Begun(e)
  /\ codec[e].format <=> mMuxerStarted[e]
  /\ drainPc[e] # "poll" => pc[e] \in Draining /\ mMuxerStarted[e] /\ ~collected
  /\ mMuxerStarted[e] /\ drainPc[e] = "poll" => file # "open"

AllAdded == mEncoderCount = IF step = "add" THEN turn - 1 ELSE NumEncoders

IInv == TypeOK /\ MuxerCount /\ AllAdded /\ \A e \in Encoders : EncoderInv(e)

LEMMA EncodersFinite ==
  /\ IsFiniteSet(Encoders) /\ Cardinality(Encoders) = NumEncoders
  /\ \A S \in SUBSET Encoders : IsFiniteSet(S) /\ Cardinality(S) \in Nat
<1>1. IsFiniteSet(Encoders) /\ Cardinality(Encoders) = NumEncoders
  BY RecordingAssumption, FS_Interval DEF Encoders
<1>2. \A S \in SUBSET Encoders : IsFiniteSet(S)
  BY <1>1, FS_Subset
<1>. QED BY <1>1, <1>2, FS_CardinalityType

(* A step that starts and ends no encoder leaves the count right.          *)
LEMMA MuxingUnchanged ==
  ASSUME \A e \in Encoders : mMuxerStarted'[e] = mMuxerStarted[e],
         \A e \in Encoders : drainPc'[e] = "start" <=> drainPc[e] = "start",
         \A e \in Encoders : Ended(e)' <=> Ended(e)
  PROVE  Muxing' = Muxing
  BY DEF Muxing

(* The codec's fields keep their types.                                    *)
LEMMA CodecUpdate ==
  ASSUME TypeOK, NEW e \in Encoders, NEW n \in Nat, NEW b \in BOOLEAN
  PROVE  /\ codec[e].frames \in Nat
         /\ [codec EXCEPT ![e].frames = n] \in [Encoders -> Codecs]
         /\ [codec EXCEPT ![e].format = b] \in [Encoders -> Codecs]
         /\ [codec EXCEPT ![e].eos = b] \in [Encoders -> Codecs]
         /\ [codec EXCEPT ![e].alive = b] \in [Encoders -> Codecs]
<1>1. codec \in [Encoders -> Codecs] /\ codec[e] \in Codecs
  BY DEF TypeOK
<1>2. /\ codec[e].frames \in Nat
      /\ [codec[e] EXCEPT !.frames = n] \in Codecs /\ [codec[e] EXCEPT !.format = b] \in Codecs
      /\ [codec[e] EXCEPT !.eos = b] \in Codecs /\ [codec[e] EXCEPT !.alive = b] \in Codecs
  BY <1>1 DEF Codecs
<1>. QED BY <1>1, <1>2

(* The camera thread goes on to an encoder there is.                       *)
LEMMA NextTurn ==
  ASSUME TypeOK, NEW e \in Encoders, NEW now \in Steps, NEW next \in Steps,
         ForEach(e, now, next)
  PROVE  step' \in Steps /\ turn' \in Encoders /\ encodeSrc' = encodeSrc
  BY RecordingAssumption DEF TypeOK, ForEach, Encoders

LEMMA InitIInv == Init => IInv
<1>. SUFFICES ASSUME Init PROVE IInv
  OBVIOUS
<1>a. 1 \in Encoders /\ encodeSrc \in [Encoders -> 0 .. 3]
  BY RecordingAssumption DEF Init, Encoders
<1>b. codec \in [Encoders -> Codecs]
  BY DEF Init, Codecs
<1>1. TypeOK
  BY <1>a, <1>b DEF Init, TypeOK, Steps, Pcs, DrainPcs
<1>2. Muxing = {} /\ Cardinality(Muxing) = 0
  BY FS_EmptySet DEF Init, Muxing
<1>. QED BY <1>1, <1>2 DEF Init, IInv, MuxerCount, AllAdded, EncoderInv

LEMMA AddEncoderInv == ASSUME IInv, NEW e \in Encoders, AddEncoder(e) PROVE IInv'
<1>a. step' \in Steps /\ turn' \in Encoders /\ encodeSrc' = encodeSrc
  BY NextTurn DEF IInv, Steps, AddEncoder
<1>1. TypeOK'
  BY <1>a DEF IInv, TypeOK, AddEncoder, Pcs, camera, muxer, flags, threads, inputs
<1>c. \A d \in Encoders : ~mMuxerStarted[d] /\ ~mMuxerStarted'[d]
  BY DEF IInv, TypeOK, EncoderInv, Begun, AddEncoder, ForEach, Pcs, camera, muxer, flags, threads, inputs
<1>2. Muxing' = Muxing
  BY <1>c DEF Muxing
<1>3. MuxerCount'
  BY <1>2, <1>c DEF IInv, TypeOK, MuxerCount, AddEncoder, ForEach, Pcs, camera, muxer, flags, threads, inputs
<1>4. AllAdded'
  BY RecordingAssumption DEF IInv, TypeOK, AllAdded, Encoders, AddEncoder, ForEach, Pcs, camera, muxer, flags, threads, inputs
<1>5. ASSUME NEW d \in Encoders PROVE EncoderInv(d)'
  BY RecordingAssumption, <1>c DEF IInv, TypeOK, EncoderInv, Begun, Encoders, AddEncoder, ForEach, Pcs, camera, muxer, flags, threads, inputs
<1>. QED BY <1>1, <1>2, <1>3, <1>4, <1>5 DEF IInv

LEMMA PrepareInv == ASSUME IInv, NEW e \in Encoders, Prepare(e) PROVE IInv'
<1>a. step' \in Steps /\ turn' \in Encoders /\ encodeSrc' = encodeSrc
  BY NextTurn DEF IInv, Steps, Prepare
<1>b. codec' \in [Encoders -> Codecs]
  <2>1. \A b \in BOOLEAN : [codec EXCEPT ![e].alive = b] \in [Encoders -> Codecs]
    BY CodecUpdate DEF IInv
  <2>. QED BY <2>1 DEF IInv, TypeOK, Prepare
<1>1. TypeOK'
  BY <1>a, <1>b DEF IInv, TypeOK, Prepare, camera, muxer, flags, threads, inputs
<1>c. \A d \in Encoders : ~mMuxerStarted[d] /\ ~mMuxerStarted'[d]
  BY DEF IInv, TypeOK, EncoderInv, Begun, Prepare, ForEach, camera, muxer, flags, threads, inputs
<1>2. Muxing' = Muxing
  BY <1>c DEF Muxing
<1>3. MuxerCount'
  BY <1>2, <1>c DEF IInv, TypeOK, MuxerCount, Prepare, ForEach, camera, muxer, flags, threads, inputs
<1>4. AllAdded'
  BY RecordingAssumption DEF IInv, TypeOK, AllAdded, Encoders, Prepare, ForEach, camera, muxer, flags, threads, inputs
<1>5. ASSUME NEW d \in Encoders PROVE EncoderInv(d)'
  BY RecordingAssumption, <1>c DEF IInv, TypeOK, EncoderInv, Begun, Encoders, Prepare, ForEach, camera, muxer, flags, threads, inputs
<1>. QED BY <1>1, <1>2, <1>3, <1>4, <1>5 DEF IInv

LEMMA PrepareFailsInv == ASSUME IInv, NEW e \in Encoders, PrepareFails(e) PROVE IInv'
<1>1. TypeOK'
  BY RecordingAssumption DEF IInv, TypeOK, PrepareFails, Steps, camera, muxer, flags, threads, inputs
<1>2. Muxing' = Muxing
  BY MuxingUnchanged DEF IInv, TypeOK, Ended, EncoderInv, PrepareFails, Steps, camera, muxer, flags, threads, inputs
<1>3. MuxerCount'
  BY <1>2 DEF IInv, TypeOK, MuxerCount, PrepareFails, Steps, camera, muxer, flags, threads, inputs
<1>4. AllAdded'
  BY RecordingAssumption DEF IInv, TypeOK, AllAdded, Encoders, PrepareFails, Steps, camera, muxer, flags, threads, inputs
<1>5. ASSUME NEW d \in Encoders PROVE EncoderInv(d)'
  BY RecordingAssumption DEF IInv, TypeOK, EncoderInv, Begun, Encoders, PrepareFails, Steps, camera, muxer, flags, threads, inputs
<1>. QED BY <1>1, <1>2, <1>3, <1>4, <1>5 DEF IInv

LEMMA StartRecordingInv == ASSUME IInv, NEW e \in Encoders, StartRecording(e) PROVE IInv'
<1>a. step' \in Steps /\ turn' \in Encoders /\ encodeSrc' = encodeSrc
  BY NextTurn DEF IInv, Steps, StartRecording
<1>1. TypeOK'
  BY <1>a DEF IInv, TypeOK, StartRecording, Notify, Woken, Pcs, camera, muxer, flags, threads, inputs
<1>2. Muxing' = Muxing
  BY MuxingUnchanged DEF IInv, TypeOK, Ended, EncoderInv, StartRecording, ForEach, Notify, Woken, Pcs, camera, muxer, flags, threads, inputs
<1>3. MuxerCount'
  BY <1>2 DEF IInv, TypeOK, MuxerCount, StartRecording, ForEach, Notify, Woken, Pcs, camera, muxer, flags, threads, inputs
<1>4. AllAdded'
  BY RecordingAssumption DEF IInv, TypeOK, AllAdded, Encoders, StartRecording, ForEach, Notify, Woken, Pcs, camera, muxer, flags, threads, inputs
<1>5. ASSUME NEW d \in Encoders PROVE EncoderInv(d)'
  BY RecordingAssumption DEF IInv, TypeOK, EncoderInv, Begun, Encoders, StartRecording, ForEach, Notify, Woken, Pcs, camera, muxer, flags, threads, inputs
<1>. QED BY <1>1, <1>2, <1>3, <1>4, <1>5 DEF IInv

LEMMA StopRecordingInv == ASSUME IInv, NEW e \in Encoders, StopRecording(e) PROVE IInv'
<1>a. step' \in Steps /\ turn' \in Encoders /\ encodeSrc' = encodeSrc
  BY NextTurn DEF IInv, Steps, StopRecording
<1>b. codec' \in [Encoders -> Codecs]
  <2>1. \A b \in BOOLEAN : [codec EXCEPT ![e].eos = b] \in [Encoders -> Codecs]
    BY CodecUpdate DEF IInv
  <2>. QED BY <2>1 DEF IInv, TypeOK, StopRecording
<1>d. \A d \in Encoders : codec'[d].format = codec[d].format
  BY DEF IInv, TypeOK, Codecs, StopRecording
<1>e. pc' = pc \/ pc' = [pc EXCEPT ![e] = Woken(e)]
  BY DEF StopRecording, Notify
<1>f. /\ pc' \in [Encoders -> Pcs]
      /\ \A d \in Encoders : pc'[d] = pc[d] \/ (pc[d] = "blocked" /\ pc'[d] = "check")
  BY <1>e DEF IInv, TypeOK, Woken, Pcs
<1>g. mRequestStop' \in [Encoders -> BOOLEAN] /\ crashed' \in BOOLEAN
  BY DEF IInv, TypeOK, StopRecording
<1>1. TypeOK'
  BY <1>a, <1>b, <1>f, <1>g DEF IInv, TypeOK, StopRecording, muxer, inputs
<1>2. Muxing' = Muxing
  BY MuxingUnchanged DEF IInv, TypeOK, Ended, EncoderInv, StopRecording, ForEach, Notify, Woken, Pcs, camera, muxer, flags, threads, inputs
<1>3. MuxerCount'
  BY <1>2 DEF IInv, TypeOK, MuxerCount, StopRecording, ForEach, Notify, Woken, Pcs, camera, muxer, flags, threads, inputs
<1>4. AllAdded'
  BY RecordingAssumption DEF IInv, TypeOK, AllAdded, Encoders, StopRecording, ForEach, Notify, Woken, Pcs, camera, muxer, flags, threads, inputs
<1>5. ASSUME NEW d \in Encoders PROVE EncoderInv(d)'
  BY RecordingAssumption, <1>d, <1>f DEF IInv, TypeOK, EncoderInv, Begun, Encoders, Draining,
     StopRecording, ForEach, muxer
<1>. QED BY <1>1, <1>2, <1>3, <1>4, <1>5 DEF IInv

LEMMA FeedInv == ASSUME IInv, NEW e \in Encoders, Feed(e) PROVE IInv'
<1>b. codec' \in [Encoders -> Codecs]
  <2>1. codec[e].frames \in Nat
    BY CodecUpdate DEF IInv
  <2>2. \A n \in Nat : [codec EXCEPT ![e].frames = n] \in [Encoders -> Codecs]
    BY CodecUpdate DEF IInv
  <2>3. codec' \in {codec, [codec EXCEPT ![e].frames = codec[e].frames + 1]}
    BY DEF Feed
  <2>. QED BY <2>1, <2>2, <2>3 DEF IInv, TypeOK
<1>1. TypeOK'
  BY <1>b DEF IInv, TypeOK, Feed, Draining, camera, muxer, flags, threads, inputs
<1>2. Muxing' = Muxing
  BY MuxingUnchanged DEF IInv, TypeOK, Ended, EncoderInv, Feed, Draining, camera, muxer, flags, threads, inputs
<1>3. MuxerCount'
  BY <1>2 DEF IInv, TypeOK, MuxerCount, Feed, Draining, camera, muxer, flags, threads, inputs
<1>4. AllAdded'
  BY RecordingAssumption DEF IInv, TypeOK, AllAdded, Encoders, Feed, Draining, camera, muxer, flags, threads, inputs
<1>5. ASSUME NEW d \in Encoders PROVE EncoderInv(d)'
  BY RecordingAssumption DEF IInv, TypeOK, EncoderInv, Begun, Encoders, Feed, Draining, camera, muxer, flags, threads, inputs
<1>. QED BY <1>1, <1>2, <1>3, <1>4, <1>5 DEF IInv

LEMMA AnnounceInv == ASSUME IInv, NEW e \in Encoders, Announce(e) PROVE IInv'
<1>1. TypeOK'
  BY RecordingAssumption DEF IInv, TypeOK, Announce, Notify, Woken, Pcs, Draining, camera, muxer, flags, threads, inputs
<1>2. Muxing' = Muxing
  BY MuxingUnchanged DEF IInv, TypeOK, Ended, EncoderInv, Announce, Notify, Woken, Pcs, Draining, camera, muxer, flags, threads, inputs
<1>3. MuxerCount'
  BY <1>2 DEF IInv, TypeOK, MuxerCount, Announce, Notify, Woken, Pcs, Draining, camera, muxer, flags, threads, inputs
<1>4. AllAdded'
  BY RecordingAssumption DEF IInv, TypeOK, AllAdded, Encoders, Announce, Notify, Woken, Pcs, Draining, camera, muxer, flags, threads, inputs
<1>5. ASSUME NEW d \in Encoders PROVE EncoderInv(d)'
  <2>1. CASE d = e
    BY RecordingAssumption, <2>1 DEF IInv, TypeOK, EncoderInv, Begun, Encoders, Announce, Notify, Woken, Pcs, Draining, camera, muxer, flags, threads, inputs
  <2>2. CASE d # e
    BY <2>2 DEF IInv, TypeOK, EncoderInv, Begun, Announce, Notify, Woken, Pcs, Draining, camera, muxer, flags, threads, inputs
  <2>. QED BY <2>1, <2>2
<1>. QED BY <1>1, <1>2, <1>3, <1>4, <1>5 DEF IInv

LEMMA CheckInv == ASSUME IInv, NEW e \in Encoders, Check(e) PROVE IInv'
<1>1. TypeOK'
  BY RecordingAssumption DEF IInv, TypeOK, Check, Goto, Pcs, Draining, camera, muxer, flags, threads, inputs
<1>2. Muxing' = Muxing
  BY MuxingUnchanged DEF IInv, TypeOK, Ended, EncoderInv, Check, Goto, Pcs, Draining, camera, muxer, flags, threads, inputs
<1>3. MuxerCount'
  BY <1>2 DEF IInv, TypeOK, MuxerCount, Check, Goto, Pcs, Draining, camera, muxer, flags, threads, inputs
<1>4. AllAdded'
  BY RecordingAssumption DEF IInv, TypeOK, AllAdded, Encoders, Check, Goto, Pcs, Draining, camera, muxer, flags, threads, inputs
<1>5. ASSUME NEW d \in Encoders PROVE EncoderInv(d)'
  BY RecordingAssumption DEF IInv, TypeOK, EncoderInv, Begun, Encoders, Check, Goto, Pcs, Draining, camera, muxer, flags, threads, inputs
<1>. QED BY <1>1, <1>2, <1>3, <1>4, <1>5 DEF IInv

LEMMA ParkInv == ASSUME IInv, NEW e \in Encoders, Park(e) PROVE IInv'
<1>1. TypeOK'
  BY RecordingAssumption DEF IInv, TypeOK, Park, Goto, Pcs, Draining, camera, muxer, flags, threads, inputs
<1>2. Muxing' = Muxing
  BY MuxingUnchanged DEF IInv, TypeOK, Ended, EncoderInv, Park, Goto, Pcs, Draining, camera, muxer, flags, threads, inputs
<1>3. MuxerCount'
  BY <1>2 DEF IInv, TypeOK, MuxerCount, Park, Goto, Pcs, Draining, camera, muxer, flags, threads, inputs
<1>4. AllAdded'
  BY RecordingAssumption DEF IInv, TypeOK, AllAdded, Encoders, Park, Goto, Pcs, Draining, camera, muxer, flags, threads, inputs
<1>5. ASSUME NEW d \in Encoders PROVE EncoderInv(d)'
  BY RecordingAssumption DEF IInv, TypeOK, EncoderInv, Begun, Encoders, Park, Goto, Pcs, Draining, camera, muxer, flags, threads, inputs
<1>. QED BY <1>1, <1>2, <1>3, <1>4, <1>5 DEF IInv

LEMMA DrainFormatInv == ASSUME IInv, NEW e \in Encoders, DrainFormat(e) PROVE IInv'
<1>b. codec' \in [Encoders -> Codecs]
  <2>1. \A b \in BOOLEAN : [codec EXCEPT ![e].format = b] \in [Encoders -> Codecs]
    BY CodecUpdate DEF IInv
  <2>. QED BY <2>1 DEF IInv, TypeOK, DrainFormat
<1>1. TypeOK'
  BY <1>b DEF IInv, TypeOK, DrainFormat, Polling, DrainPcs, Draining, camera, muxer, flags, threads, inputs
<1>2. Muxing' = Muxing
  BY DEF IInv, TypeOK, EncoderInv, Muxing, Ended, DrainFormat, Polling, DrainPcs, Draining, camera, muxer, flags, threads, inputs
<1>3. MuxerCount'
  BY <1>2 DEF IInv, TypeOK, MuxerCount, EncoderInv, DrainFormat, Polling, DrainPcs, Draining, camera, muxer, flags, threads, inputs
<1>4. AllAdded'
  BY RecordingAssumption DEF IInv, TypeOK, AllAdded, Encoders, DrainFormat, Polling, DrainPcs, Draining, camera, muxer, flags, threads, inputs
<1>5. ASSUME NEW d \in Encoders PROVE EncoderInv(d)'
  <2>1. CASE d = e
    BY RecordingAssumption, <2>1 DEF IInv, TypeOK, EncoderInv, Begun, Encoders, DrainFormat, Polling, DrainPcs, Draining, camera, muxer, flags, threads, inputs
  <2>2. CASE d # e
    BY <2>2 DEF IInv, TypeOK, EncoderInv, Begun, DrainFormat, Polling, DrainPcs, Draining, camera, muxer, flags, threads, inputs
  <2>. QED BY <2>1, <2>2
<1>. QED BY <1>1, <1>2, <1>3, <1>4, <1>5 DEF IInv

LEMMA MuxerReadyInv == ASSUME IInv, NEW e \in Encoders, MuxerReady(e) PROVE IInv'
<1>1. TypeOK'
  BY RecordingAssumption DEF IInv, TypeOK, MuxerReady, IsStarted, DrainPcs, Draining, camera, muxer, flags, threads, inputs
<1>2. Muxing' = Muxing
  BY MuxingUnchanged DEF IInv, TypeOK, Ended, EncoderInv, MuxerReady, IsStarted, DrainPcs, Draining, camera, muxer, flags, threads, inputs
<1>3. MuxerCount'
  BY <1>2 DEF IInv, TypeOK, MuxerCount, MuxerReady, IsStarted, DrainPcs, Draining, camera, muxer, flags, threads, inputs
<1>4. AllAdded'
  BY RecordingAssumption DEF IInv, TypeOK, AllAdded, Encoders, MuxerReady, IsStarted, DrainPcs, Draining, camera, muxer, flags, threads, inputs
<1>5. ASSUME NEW d \in Encoders PROVE EncoderInv(d)'
  BY RecordingAssumption DEF IInv, TypeOK, EncoderInv, MuxerCount, Begun, Encoders, MuxerReady, IsStarted, DrainPcs, Draining, camera, muxer, flags, threads, inputs
<1>. QED BY <1>1, <1>2, <1>3, <1>4, <1>5 DEF IInv

LEMMA DrainDataInv == ASSUME IInv, NEW e \in Encoders, DrainData(e) PROVE IInv'
<1>b. codec' \in [Encoders -> Codecs]
  <2>1. codec[e].frames \in Nat
    BY CodecUpdate DEF IInv
  <2>2. \A n \in Nat : [codec EXCEPT ![e].frames = n] \in [Encoders -> Codecs]
    BY CodecUpdate DEF IInv
  <2>3. codec' = [codec EXCEPT ![e].frames = codec[e].frames - 1] /\ codec[e].frames > 0
    BY DEF DrainData
  <2>. QED BY <2>1, <2>2, <2>3
<1>1. TypeOK'
  BY <1>b DEF IInv, TypeOK, DrainData, Polling, Draining, camera, muxer, flags, threads, inputs
<1>2. Muxing' = Muxing
  BY MuxingUnchanged DEF IInv, TypeOK, Ended, EncoderInv, DrainData, Polling, Draining, camera, muxer, flags, threads, inputs
<1>3. MuxerCount'
  BY <1>2 DEF IInv, TypeOK, MuxerCount, DrainData, Polling, Draining, camera, muxer, flags, threads, inputs
<1>4. AllAdded'
  BY RecordingAssumption DEF IInv, TypeOK, AllAdded, Encoders, DrainData, Polling, Draining, camera, muxer, flags, threads, inputs
<1>5. ASSUME NEW d \in Encoders PROVE EncoderInv(d)'
  <2>1. CASE d = e
    BY <2>1 DEF IInv, TypeOK, EncoderInv, Begun, DrainData, Polling, Draining, camera, flags,
                threads, inputs
  <2>2. CASE d # e
    BY <2>2 DEF IInv, TypeOK, EncoderInv, Begun, DrainData, Polling, Draining, camera, muxer, flags, threads, inputs
  <2>. QED BY <2>1, <2>2
<1>. QED BY <1>1, <1>2, <1>3, <1>4, <1>5 DEF IInv

LEMMA DrainEosInv == ASSUME IInv, NEW e \in Encoders, DrainEos(e) PROVE IInv'
<1>1. TypeOK'
  BY RecordingAssumption DEF IInv, TypeOK, DrainEos, Polling, AfterDrain, Pcs, Draining, camera, muxer, flags, threads, inputs
<1>2. Muxing' = Muxing
  BY MuxingUnchanged DEF IInv, TypeOK, Ended, EncoderInv, DrainEos, Polling, AfterDrain, Pcs, Draining, camera, muxer, flags, threads, inputs
<1>3. MuxerCount'
  BY <1>2 DEF IInv, TypeOK, MuxerCount, DrainEos, Polling, AfterDrain, Pcs, Draining, camera, muxer, flags, threads, inputs
<1>4. AllAdded'
  BY RecordingAssumption DEF IInv, TypeOK, AllAdded, Encoders, DrainEos, Polling, AfterDrain, Pcs, Draining, camera, muxer, flags, threads, inputs
<1>5. ASSUME NEW d \in Encoders PROVE EncoderInv(d)'
  BY RecordingAssumption DEF IInv, TypeOK, EncoderInv, Begun, Encoders, DrainEos, Polling, AfterDrain, Pcs, Draining, camera, muxer, flags, threads, inputs
<1>. QED BY <1>1, <1>2, <1>3, <1>4, <1>5 DEF IInv

LEMMA DrainDoneInv == ASSUME IInv, NEW e \in Encoders, DrainDone(e) PROVE IInv'
<1>1. TypeOK'
  BY RecordingAssumption DEF IInv, TypeOK, DrainDone, AfterDrain, Pcs, Draining, camera, muxer, flags, threads, inputs
<1>2. Muxing' = Muxing
  BY MuxingUnchanged DEF IInv, TypeOK, Ended, EncoderInv, DrainDone, AfterDrain, Pcs, Draining, camera, muxer, flags, threads, inputs
<1>3. MuxerCount'
  BY <1>2 DEF IInv, TypeOK, MuxerCount, DrainDone, AfterDrain, Pcs, Draining, camera, muxer, flags, threads, inputs
<1>4. AllAdded'
  BY RecordingAssumption DEF IInv, TypeOK, AllAdded, Encoders, DrainDone, AfterDrain, Pcs, Draining, camera, muxer, flags, threads, inputs
<1>5. ASSUME NEW d \in Encoders PROVE EncoderInv(d)'
  BY RecordingAssumption DEF IInv, TypeOK, EncoderInv, Begun, Encoders, DrainDone, AfterDrain, Pcs, Draining, camera, muxer, flags, threads, inputs
<1>. QED BY <1>1, <1>2, <1>3, <1>4, <1>5 DEF IInv

LEMMA SignalEndOfInputStreamInv == ASSUME IInv, NEW e \in Encoders, SignalEndOfInputStream(e) PROVE IInv'
<1>1. TypeOK'
  BY RecordingAssumption DEF IInv, TypeOK, SignalEndOfInputStream, Goto, Pcs, Draining, camera, muxer, flags, threads, inputs
<1>2. Muxing' = Muxing
  BY MuxingUnchanged DEF IInv, TypeOK, Ended, EncoderInv, SignalEndOfInputStream, Goto, Pcs, Draining, camera, muxer, flags, threads, inputs
<1>3. MuxerCount'
  BY <1>2 DEF IInv, TypeOK, MuxerCount, SignalEndOfInputStream, Goto, Pcs, Draining, camera, muxer, flags, threads, inputs
<1>4. AllAdded'
  BY RecordingAssumption DEF IInv, TypeOK, AllAdded, Encoders, SignalEndOfInputStream, Goto, Pcs, Draining, camera, muxer, flags, threads, inputs
<1>5. ASSUME NEW d \in Encoders PROVE EncoderInv(d)'
  BY RecordingAssumption DEF IInv, TypeOK, EncoderInv, Begun, Encoders, SignalEndOfInputStream, Goto, Pcs, Draining, camera, muxer, flags, threads, inputs
<1>. QED BY <1>1, <1>2, <1>3, <1>4, <1>5 DEF IInv

LEMMA ReleaseInv == ASSUME IInv, NEW e \in Encoders, Release(e) PROVE IInv'
<1>b. codec' \in [Encoders -> Codecs]
  <2>1. \A b \in BOOLEAN : [codec EXCEPT ![e].alive = b] \in [Encoders -> Codecs]
    BY CodecUpdate DEF IInv
  <2>. QED BY <2>1 DEF IInv, TypeOK, Release
<1>1. TypeOK'
  BY <1>b DEF IInv, TypeOK, Release, Goto, Pcs, Draining, camera, muxer, flags, threads, inputs
<1>2. Muxing' = Muxing
  BY MuxingUnchanged DEF IInv, TypeOK, Ended, EncoderInv, Release, Goto, Pcs, Draining, camera, muxer, flags, threads, inputs
<1>3. MuxerCount'
  BY <1>2 DEF IInv, TypeOK, MuxerCount, Release, Goto, Pcs, Draining, camera, muxer, flags, threads, inputs
<1>4. AllAdded'
  BY RecordingAssumption DEF IInv, TypeOK, AllAdded, Encoders, Release, Goto, Pcs, Draining, camera, muxer, flags, threads, inputs
<1>5. ASSUME NEW d \in Encoders PROVE EncoderInv(d)'
  <2>1. CASE d = e
    BY <2>1 DEF IInv, TypeOK, EncoderInv, Begun, Release, Goto, Draining, camera, muxer
  <2>2. CASE d # e
    BY <2>2 DEF IInv, TypeOK, EncoderInv, Begun, Release, Goto, Pcs, Draining, camera, muxer, flags, threads, inputs
  <2>. QED BY <2>1, <2>2
<1>. QED BY <1>1, <1>2, <1>3, <1>4, <1>5 DEF IInv

LEMMA ExitInv == ASSUME IInv, NEW e \in Encoders, Exit(e) PROVE IInv'
<1>1. TypeOK'
  BY RecordingAssumption DEF IInv, TypeOK, Exit, Goto, Pcs, Draining, camera, muxer, flags, threads, inputs
<1>2. Muxing' = Muxing
  BY MuxingUnchanged DEF IInv, TypeOK, Ended, EncoderInv, Exit, Goto, Pcs, Draining, camera, muxer, flags, threads, inputs
<1>3. MuxerCount'
  BY <1>2 DEF IInv, TypeOK, MuxerCount, Exit, Goto, Pcs, Draining, camera, muxer, flags, threads, inputs
<1>4. AllAdded'
  BY RecordingAssumption DEF IInv, TypeOK, AllAdded, Encoders, Exit, Goto, Pcs, Draining, camera, muxer, flags, threads, inputs
<1>5. ASSUME NEW d \in Encoders PROVE EncoderInv(d)'
  BY RecordingAssumption DEF IInv, TypeOK, EncoderInv, Begun, Encoders, Exit, Goto, Pcs, Draining, camera, muxer, flags, threads, inputs
<1>. QED BY <1>1, <1>2, <1>3, <1>4, <1>5 DEF IInv

(* The last encoder that starts the muxer is the one that starts the file. *)
LEMMA MuxerStartInv == ASSUME IInv, NEW e \in Encoders, MuxerStart(e) PROVE IInv'
<1>. DEFINE rest == <<camera, mEncoderCount, collected, samples, flags, pc, codec, inputs,
                      crashed>>
<1>0. /\ rest' = rest /\ ~collected /\ drainPc[e] = "start" /\ mStatredCount' = mStatredCount + 1
      /\ pc[e] \in Draining /\ mMuxerStarted[e]
      /\ file = "open" /\ ~mIsStarted /\ mEncoderCount = NumEncoders
  BY RecordingAssumption DEF IInv, TypeOK, MuxerCount, AllAdded, EncoderInv, Begun, MuxerStart
<1>a. /\ drainPc' \in [Encoders -> DrainPcs] /\ drainPc'[e] # "start"
      /\ \A d \in Encoders \ {e} : drainPc'[d] = drainPc[d]
  BY DEF IInv, TypeOK, DrainPcs, MuxerStart
<1>2. Muxing' = Muxing \cup {e} /\ e \notin Muxing
  BY <1>0, <1>a DEF Muxing, Ended, Draining, flags
<1>3. Cardinality(Muxing') = mStatredCount'
  <2>1. IsFiniteSet(Muxing)
    BY EncodersFinite DEF Muxing
  <2>2. Cardinality(Muxing') = Cardinality(Muxing) + 1
    BY <1>2, <2>1, FS_AddElement
  <2>. QED BY <1>0, <2>2 DEF IInv, MuxerCount
<1>4. AllStarted(mStatredCount') <=> Muxing' = Encoders
  <2>1. Muxing' \subseteq Encoders
    BY <1>2 DEF Muxing
  <2>. QED BY <1>0, <1>3, <2>1, EncodersFinite, FS_Subset, RecordingAssumption DEF AllStarted
<1>5. /\ Muxing' = Encoders
          => mIsStarted' = TRUE /\ file' = "started" /\ drainPc'[e] = "poll"
      /\ Muxing' # Encoders
          => mIsStarted' = FALSE /\ file' = "open" /\ drainPc'[e] = "wait"
  BY <1>0, <1>4 DEF IInv, TypeOK, MuxerStart
<1>1. TypeOK'
  <2>1. mStatredCount' \in Nat
    BY <1>0 DEF IInv, TypeOK
  <2>2. mIsStarted' \in BOOLEAN /\ file' \in {"open", "started"}
    BY <1>5
  <2>. QED BY <1>0, <1>a, <2>1, <2>2 DEF IInv, TypeOK, camera, flags, inputs
<1>6. MuxerCount'
  <2>1. file' # "open" => \A d \in Encoders : mMuxerStarted'[d] /\ drainPc'[d] # "start"
    BY <1>5, <1>2, <1>0, <1>a DEF Muxing, flags
  <2>2. Muxing' # {}
    BY <1>2
  <2>. QED BY <1>3, <1>5, <2>1, <2>2 DEF MuxerCount
<1>7. AllAdded'
  BY <1>0 DEF IInv, AllAdded, camera
<1>8. ASSUME NEW d \in Encoders PROVE EncoderInv(d)'
  BY <1>0, <1>a, <1>5 DEF IInv, EncoderInv, Begun, camera, flags
<1>. QED BY <1>1, <1>6, <1>7, <1>8 DEF IInv

(* The last encoder that stops the muxer is the one that ends the file.    *)
LEMMA MuxerStopInv == ASSUME IInv, NEW e \in Encoders, MuxerStop(e) PROVE IInv'
<1>. DEFINE rest == <<camera, mEncoderCount, collected, samples, flags, drainPc, codec,
                      inputs, crashed>>
<1>0. /\ rest' = rest /\ pc[e] = "unmux" /\ pc' = [pc EXCEPT ![e] = "exit"]
      /\ drainPc[e] = "poll" /\ ~Ended(e) /\ Ended(e)'
      /\ \A d \in Encoders \ {e} : Ended(d)' <=> Ended(d)
  BY DEF IInv, TypeOK, EncoderInv, MuxerStop, Goto, Ended, Draining, DrainPcs
<1>a. pc' \in [Encoders -> Pcs] /\ \A d \in Encoders : pc'[d] \in Draining <=> pc[d] \in Draining
  BY <1>0 DEF IInv, TypeOK, Pcs, Draining
<1>b. UNCHANGED <<mMuxerStarted, drainPc, mEncoderCount, collected>>
  BY <1>0 DEF flags
<1>7. AllAdded'
  BY <1>0 DEF IInv, AllAdded, camera
<1>8. CASE ~mMuxerStarted[e] \/ collected
  <2>1. UNCHANGED <<mStatredCount, file, mIsStarted>>
    BY <1>8 DEF MuxerStop, HasStarted
  <2>2. Muxing' = Muxing \ {e} /\ (~collected => Muxing' = Muxing)
    BY <1>8, <1>0, <1>b DEF Muxing
  <2>3. TypeOK'
    BY <1>0, <1>a, <2>1 DEF IInv, TypeOK, camera, flags, inputs
  <2>4. MuxerCount'
    BY <1>b, <2>1, <2>2 DEF IInv, MuxerCount
  <2>5. ASSUME NEW d \in Encoders PROVE EncoderInv(d)'
    BY <1>0, <1>a, <2>1 DEF IInv, EncoderInv, Begun, camera, flags
  <2>. QED BY <1>7, <2>3, <2>4, <2>5 DEF IInv
<1>9. CASE mMuxerStarted[e] /\ ~collected
  <2>1. Muxing' = Muxing \ {e} /\ e \in Muxing
    BY <1>9, <1>0, <1>b DEF Muxing
  <2>2. mStatredCount' = mStatredCount - 1
    BY <1>9 DEF MuxerStop, HasStarted
  <2>3. mStatredCount' = Cardinality(Muxing') /\ mStatredCount' \in Nat
    <3>1. IsFiniteSet(Muxing) /\ Cardinality(Muxing') \in Nat
      BY <2>1, EncodersFinite DEF Muxing
    <3>2. Cardinality(Muxing') = Cardinality(Muxing) - 1
      BY <2>1, <3>1, FS_RemoveElement
    <3>. QED BY <1>9, <2>2, <3>1, <3>2 DEF IInv, MuxerCount
  <2>4. file = "started" /\ mIsStarted
    BY <1>9, <1>0, <2>1 DEF IInv, TypeOK, MuxerCount, EncoderInv
  <2>5. mEncoderCount = NumEncoders /\ NumEncoders > 0
    BY <1>9, RecordingAssumption DEF IInv, AllAdded, EncoderInv, Begun
  <2>6. NoneLeft(mStatredCount') <=> Muxing' = {}
    <3>1. IsFiniteSet(Muxing')
      BY <2>1, EncodersFinite DEF Muxing
    <3>. QED BY <1>b, <2>3, <2>5, <3>1, FS_EmptySet DEF NoneLeft
  <2>7. /\ Muxing' = {} => file' = "stopped" /\ mIsStarted' = FALSE
        /\ Muxing' # {} => file' = "started" /\ mIsStarted' = TRUE
    BY <1>9, <2>4, <2>6 DEF IInv, TypeOK, MuxerStop, HasStarted
  <2>8. TypeOK'
    <3>1. mIsStarted' \in BOOLEAN /\ file' \in {"started", "stopped"}
      BY <2>7
    <3>. QED BY <1>0, <1>a, <2>3, <3>1 DEF IInv, TypeOK, camera, flags, inputs
  <2>9. MuxerCount'
    BY <1>b, <2>3, <2>4, <2>7 DEF IInv, MuxerCount
  <2>10. ASSUME NEW d \in Encoders PROVE EncoderInv(d)'
    BY <1>0, <1>a, <2>7 DEF IInv, EncoderInv, Begun, camera, flags
  <2>. QED BY <1>7, <2>8, <2>9, <2>10 DEF IInv
<1>. QED BY <1>8, <1>9

LEMMA BeginStopInv == ASSUME IInv, BeginStop PROVE IInv'
<1>1. TypeOK'
  BY DEF IInv, TypeOK, BeginStop, Steps, muxer, flags, threads, inputs
<1>2. Muxing' = Muxing
  BY MuxingUnchanged DEF BeginStop, flags, threads, Ended
<1>3. MuxerCount'
  BY <1>2 DEF IInv, MuxerCount, BeginStop, muxer, flags, threads
<1>4. AllAdded'
  BY DEF IInv, AllAdded, BeginStop, muxer
<1>5. ASSUME NEW d \in Encoders PROVE EncoderInv(d)'
  BY DEF IInv, EncoderInv, Begun, BeginStop, muxer, flags, threads
<1>. QED BY <1>1, <1>2, <1>3, <1>4, <1>5 DEF IInv

(* Nobody is inside drain when the muxer is collected.                     *)
LEMMA CollectInv == ASSUME IInv, Collect PROVE IInv'
<1>1. TypeOK'
  BY DEF IInv, TypeOK, Collect, camera, flags, threads, inputs
<1>2. Muxing' = Muxing
  BY MuxingUnchanged DEF Collect, flags, threads, Ended
<1>3. MuxerCount'
  BY <1>2 DEF IInv, MuxerCount, Collect, flags, threads
<1>4. AllAdded'
  BY DEF IInv, AllAdded, Collect, camera
<1>5. ASSUME NEW d \in Encoders PROVE EncoderInv(d)'
  BY DEF IInv, EncoderInv, Begun, Collect, camera, flags, threads
<1>. QED BY <1>1, <1>2, <1>3, <1>4, <1>5 DEF IInv

LEMMA NextIInv == ASSUME IInv, [Next]_vars PROVE IInv'
<1>1. CASE BeginStop \/ Collect
  BY <1>1, BeginStopInv, CollectInv
<1>2. ASSUME NEW e \in Encoders, CameraStep(e) PROVE IInv'
  BY <1>2, AddEncoderInv, PrepareInv, PrepareFailsInv, StartRecordingInv, StopRecordingInv
     DEF CameraStep
<1>3. ASSUME NEW e \in Encoders, EncoderStep(e) PROVE IInv'
  BY <1>3, CheckInv, ParkInv, DrainFormatInv, MuxerStartInv, MuxerReadyInv, DrainDataInv,
     DrainEosInv, DrainDoneInv, SignalEndOfInputStreamInv, ReleaseInv, MuxerStopInv, ExitInv
     DEF EncoderStep
<1>4. CASE UNCHANGED vars
  <2>1. Muxing' = Muxing
    BY <1>4, MuxingUnchanged DEF vars, flags, threads, Ended
  <2>. QED BY <1>4, <2>1 DEF vars, camera, muxer, flags, threads, inputs, IInv, TypeOK, MuxerCount,
                AllAdded, EncoderInv, Begun
<1>. QED BY <1>1, <1>2, <1>3, <1>4, FeedInv, AnnounceInv DEF Next

LEMMA RecordingInductive == Spec => []IInv
  BY InitIInv, NextIInv, PTL DEF Spec

(* In every behaviour all variables have their types.                      *)
THEOREM RecordingTypeCorrect == Spec => []TypeOK
<1>1. IInv => TypeOK
  BY DEF IInv
<1>. QED BY RecordingInductive, <1>1, PTL

(* The muxer counts right, whatever the number of encoders: addTrack and   *)
(* drain never throw, no sample is lost to a muxer that is not started.    *)
THEOREM MuxerCounts == Spec => []MuxerCount
<1>1. IInv => MuxerCount
  BY DEF IInv
<1>. QED BY RecordingInductive, <1>1, PTL

-----------------------------------------------------------------------------
(* The recording implements MuxerFile.                                     *)

Tracks == {e \in Encoders : mMuxerStarted[e]}
EndedTracks == {e \in Encoders : mMuxerStarted[e] /\ Ended(e)}

(* A step of anybody but an encoder inside drain or leaving the muxer does *)
(* not touch the file.                                                     *)
LEMMA FileUntouched ==
  ASSUME UNCHANGED <<file, collected, samples>>,
         \A e \in Encoders : mMuxerStarted'[e] = mMuxerStarted[e],
         \A e \in Encoders : mMuxerStarted[e] => (Ended(e)' <=> Ended(e))
  PROVE  UNCHANGED File!vars
<1>. Tracks' = Tracks /\ EndedTracks' = EndedTracks
  BY DEF Tracks, EndedTracks
<1>. QED BY DEF File!vars, Tracks, EndedTracks

LEMMA CameraKeepsFile ==
  ASSUME IInv, NEW e \in Encoders, CameraStep(e) PROVE UNCHANGED File!vars
<1>1. \A d \in Encoders : mMuxerStarted'[d] = mMuxerStarted[d]
  <2>1. CASE Prepare(e)
    <3>1. ~mMuxerStarted[e] /\ mMuxerStarted' = [mMuxerStarted EXCEPT ![e] = FALSE]
      BY <2>1 DEF IInv, TypeOK, EncoderInv, Begun, Prepare, ForEach
    <3>. QED BY <3>1 DEF IInv, TypeOK
  <2>2. CASE AddEncoder(e) \/ PrepareFails(e) \/ StartRecording(e) \/ StopRecording(e)
    BY <2>2 DEF AddEncoder, PrepareFails, StartRecording, StopRecording, flags
  <2>. QED BY <2>1, <2>2 DEF CameraStep
<1>2. \A d \in Encoders : mMuxerStarted[d] => (Ended(d)' <=> Ended(d))
  <2>1. CASE AddEncoder(e)
    <3>1. ~mMuxerStarted[e] /\ pc' = [pc EXCEPT ![e] = "check"]
      BY <2>1 DEF IInv, TypeOK, EncoderInv, Begun, AddEncoder, ForEach
    <3>. QED BY <3>1 DEF IInv, TypeOK, Ended
  <2>2. CASE StartRecording(e) \/ StopRecording(e)
    <3>1. pc' = pc \/ pc' = [pc EXCEPT ![e] = Woken(e)]
      BY <2>2 DEF StartRecording, StopRecording, Notify
    <3>. QED BY <3>1 DEF IInv, TypeOK, Ended, Woken
  <2>3. CASE Prepare(e) \/ PrepareFails(e)
    BY <2>3 DEF Prepare, PrepareFails, Ended, threads
  <2>. QED BY <2>1, <2>2, <2>3 DEF CameraStep
<1>3. UNCHANGED <<file, collected, samples>>
  BY DEF CameraStep, AddEncoder, Prepare, PrepareFails, StartRecording, StopRecording, muxer
<1>. QED BY <1>1, <1>2, <1>3, FileUntouched

LEMMA SourceKeepsFile ==
  ASSUME IInv, NEW e \in Encoders, Feed(e) \/ Announce(e) PROVE UNCHANGED File!vars
<1>1. \A d \in Encoders : Ended(d)' <=> Ended(d)
  BY DEF IInv, TypeOK, Ended, Feed, Announce, Notify, Woken, threads
<1>. QED BY <1>1, FileUntouched DEF Feed, Announce, muxer, flags

(* The steps of an encoder's thread that do not concern the file.          *)
Private(e) ==
  \/ Check(e) \/ Park(e) \/ MuxerReady(e) \/ DrainEos(e) \/ DrainDone(e)
  \/ SignalEndOfInputStream(e) \/ Release(e) \/ Exit(e)

LEMMA PrivateKeepsFile ==
  ASSUME IInv, NEW e \in Encoders, Private(e) PROVE UNCHANGED File!vars
<1>1. UNCHANGED <<file, collected, samples, mMuxerStarted>>
  BY DEF Private, Check, Park, MuxerReady, DrainEos, DrainDone, SignalEndOfInputStream,
         Release, Exit, muxer, flags
<1>2. CASE MuxerReady(e)
  BY <1>1, <1>2, FileUntouched DEF MuxerReady, Ended
<1>3. CASE ~MuxerReady(e)
  <2>1. \E p \in Pcs : /\ pc' = [pc EXCEPT ![e] = p]
                       /\ p \in {"exit", "exited"} <=> pc[e] \in {"exit", "exited"}
    BY <1>3 DEF IInv, TypeOK, Private, Check, Park, DrainEos, DrainDone,
           SignalEndOfInputStream, Release, Exit, Goto, AfterDrain, Polling, Draining, Pcs
  <2>2. \A d \in Encoders : Ended(d)' <=> Ended(d)
    BY <2>1 DEF IInv, TypeOK, Ended
  <2>. QED BY <1>1, <2>2, FileUntouched
<1>. QED BY <1>2, <1>3

LEMMA FormatAddsTrack ==
  ASSUME IInv, NEW e \in Encoders, DrainFormat(e) PROVE File!AddTrack(e)
<1>1. ~mMuxerStarted[e] /\ file = "open" /\ ~collected
  BY DEF IInv, TypeOK, MuxerCount, EncoderInv, DrainFormat, Polling
<1>2. UNCHANGED <<file, collected, samples, pc>> /\ mMuxerStarted' = [mMuxerStarted EXCEPT ![e] = TRUE]
  BY DEF DrainFormat, muxer
<1>3. Tracks' = Tracks \cup {e} /\ e \notin Tracks
  BY <1>1, <1>2 DEF IInv, TypeOK, Tracks
<1>4. EndedTracks' = EndedTracks
  BY <1>2 DEF IInv, TypeOK, EndedTracks, Ended, DrainFormat, Polling, Draining
<1>. QED BY <1>1, <1>2, <1>3, <1>4 DEF File!AddTrack, Tracks, EndedTracks

LEMMA StartStartsFile ==
  ASSUME IInv, NEW e \in Encoders, MuxerStart(e) PROVE File!Start \/ UNCHANGED File!vars
<1>. DEFINE rest == <<camera, mEncoderCount, collected, samples, flags, pc, codec, inputs,
                      crashed>>
<1>0. rest' = rest /\ file = "open" /\ ~collected
  BY DEF IInv, TypeOK, MuxerCount, EncoderInv, MuxerStart
<1>1. Tracks' = Tracks /\ EndedTracks' = EndedTracks /\ samples' = samples
  BY <1>0 DEF flags, Tracks, EndedTracks, Ended
<1>2. CASE file' = file
  BY <1>0, <1>1, <1>2 DEF File!vars, Tracks, EndedTracks
<1>3. CASE file' # file
  <2>1. file' = "started" /\ MuxerCount'
    BY <1>3, MuxerStartInv DEF MuxerStart, IInv
  <2>2. Tracks' = Encoders
    BY <2>1 DEF MuxerCount, Tracks
  <2>. QED BY <1>0, <1>1, <2>1, <2>2 DEF File!Start, Tracks, EndedTracks
<1>. QED BY <1>2, <1>3

LEMMA DataIsWritten ==
  ASSUME IInv, NEW e \in Encoders, DrainData(e) PROVE File!Write(e)
<1>1. /\ pc[e] \in Draining /\ drainPc[e] = "poll" /\ codec[e].format
      /\ ~collected /\ UNCHANGED <<file, collected, mMuxerStarted, pc>>
  BY DEF DrainData, Polling, flags, threads
<1>2. mMuxerStarted[e] /\ ~Ended(e)
  BY <1>1 DEF IInv, EncoderInv, Ended, Draining
<1>3. e \in Muxing /\ file = "started"
  BY <1>1, <1>2 DEF IInv, TypeOK, MuxerCount, EncoderInv, Muxing
<1>4. mStatredCount > 0
  <2>1. IsFiniteSet(Muxing) /\ Cardinality(Muxing) \in Nat
    BY EncodersFinite DEF Muxing
  <2>2. Cardinality(Muxing) # 0
    BY <1>3, <2>1, FS_EmptySet
  <2>. QED BY <1>1, <2>1, <2>2 DEF IInv, MuxerCount
<1>5. samples' = [samples EXCEPT ![e] = @ + 1]
  BY <1>4 DEF DrainData
<1>6. Tracks' = Tracks /\ EndedTracks' = EndedTracks /\ e \notin EndedTracks
  BY <1>1, <1>2 DEF Tracks, EndedTracks, Ended
<1>. QED BY <1>1, <1>3, <1>5, <1>6 DEF File!Write, Tracks, EndedTracks

LEMMA StopEndsTrack ==
  ASSUME IInv, NEW e \in Encoders, MuxerStop(e) PROVE File!End(e) \/ UNCHANGED File!vars
<1>1. /\ UNCHANGED <<collected, samples, mMuxerStarted, drainPc>>
      /\ pc[e] = "unmux" /\ pc' = [pc EXCEPT ![e] = "exit"]
  BY DEF MuxerStop, Goto, flags
<1>2. ~Ended(e) /\ Ended(e)' /\ \A d \in Encoders \ {e} : Ended(d)' <=> Ended(d)
  BY <1>1 DEF IInv, TypeOK, Ended
<1>3. Tracks' = Tracks
  BY <1>1 DEF Tracks
<1>4. CASE ~mMuxerStarted[e]
  <2>1. UNCHANGED file
    BY <1>4 DEF MuxerStop, HasStarted
  <2>. QED BY <1>1, <1>2, <1>4, <2>1, FileUntouched
<1>5. CASE mMuxerStarted[e]
  <2>1. EndedTracks' = EndedTracks \cup {e} /\ e \notin EndedTracks
    BY <1>1, <1>2, <1>5 DEF EndedTracks
  <2>2. drainPc[e] = "poll"
    BY <1>1 DEF IInv, TypeOK, EncoderInv, Draining, DrainPcs
  <2>3. file = "started" /\ e \in Muxing
    BY <1>2, <1>5, <2>2 DEF IInv, TypeOK, MuxerCount, EncoderInv, Muxing
  <2>4. CASE collected
    <3>1. UNCHANGED file
      BY <2>4 DEF MuxerStop
    <3>. QED BY <1>1, <1>3, <2>1, <2>3, <2>4, <3>1 DEF File!End, Tracks, EndedTracks
  <2>5. CASE ~collected
    <3>1. file' \in {"started", "stopped"} /\ MuxerCount'
      BY <2>3, MuxerStopInv DEF MuxerStop, IInv
    <3>2. \A d \in Encoders : mMuxerStarted'[d] /\ drainPc'[d] # "start"
      BY <2>3, <1>1 DEF IInv, MuxerCount
    <3>3. file' = "stopped" <=> EndedTracks' = Encoders
      BY <1>1, <2>5, <3>1, <3>2 DEF MuxerCount, Muxing, EndedTracks
    <3>. QED BY <1>1, <1>3, <2>1, <2>3, <2>5, <3>1, <3>3 DEF File!End, Tracks, EndedTracks
  <2>. QED BY <2>4, <2>5
<1>. QED BY <1>4, <1>5

LEMMA CollectLosesFile == ASSUME IInv, Collect PROVE File!Lose \/ UNCHANGED File!vars
<1>1. ~collected /\ collected' /\ UNCHANGED <<file, samples, mMuxerStarted, pc>>
  BY DEF Collect, flags, threads
<1>2. Tracks' = Tracks /\ EndedTracks' = EndedTracks
  BY <1>1 DEF Tracks, EndedTracks, Ended
<1>. QED BY <1>1, <1>2 DEF IInv, TypeOK, File!Lose, File!vars, Tracks, EndedTracks

LEMMA InitFile == Init => File!Init
  BY DEF Init, File!Init

LEMMA NextFile == ASSUME IInv, [Next]_vars PROVE [File!Next]_File!vars
<1>1. CASE BeginStop \/ UNCHANGED vars
  BY <1>1, FileUntouched DEF BeginStop, vars, muxer, flags, threads, Ended
<1>2. ASSUME NEW e \in Encoders, EncoderStep(e) PROVE [File!Next]_File!vars
  <2>1. Private(e) \/ DrainFormat(e) \/ MuxerStart(e) \/ DrainData(e) \/ MuxerStop(e)
    BY <1>2 DEF EncoderStep, Private
  <2>. QED BY <2>1, PrivateKeepsFile, FormatAddsTrack, StartStartsFile, DataIsWritten,
             StopEndsTrack DEF File!Next
<1>. QED BY <1>1, <1>2, CameraKeepsFile, SourceKeepsFile, CollectLosesFile
     DEF Next, File!Next

(* Whatever the order in which the encoders start, write and end, the file *)
(* is used as MediaMuxer demands: started with every track, written only   *)
(* then, finished once, by the last.                                       *)
THEOREM RecordingImplementsMuxerFile == Spec => ImplementsMuxerFile
<1>. QED BY RecordingInductive, InitFile, NextFile, PTL DEF Spec, ImplementsMuxerFile, File!Spec
=============================================================================
