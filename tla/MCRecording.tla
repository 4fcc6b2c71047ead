----------------------------- MODULE MCRecording -----------------------------
(* Instances of Recording for TLC.                                         *)
EXTENDS Recording

(* Each kind of video encoder, together with the audio encoder.            *)
VideoAndAudio == {<<video, 1>> : video \in {0, 2, 3}}

(* Two pictures and one piece of sound.                                    *)
TwoAndOne == <<2, 1>>

=============================================================================
