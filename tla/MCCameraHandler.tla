--------------------------- MODULE MCCameraHandler ---------------------------
(* Instances of CameraHandler for TLC.                                     *)
EXTENDS CameraHandler

(* A thread that uses the camera, and one that reacts when the device was  *)
(* lost or the activity ends.                                              *)
TwoCallers == << {"open", "start", "stop", "record"}, {"stopRecord", "close", "release"} >>
FourAndOne == <<4, 1>>

(* removeMessages leaves the other messages, in their order.               *)
ASSUME RemovesMessages ==
  \A n \in 0 .. 4 : \A q \in [1 .. n -> {"start", "stop", "update"}] :
    removeMessages(q, "start") = SelectSeq(q, LAMBDA m : m # "start")

=============================================================================
