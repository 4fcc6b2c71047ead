------------------------------ MODULE MuxerFile ------------------------------
(***************************************************************************)
(* What a recording promises about its file: each encoder adds one track,  *)
(* the file is started once all of them have, samples are written only     *)
(* while it is started, and it is finished once, by the encoder that ends  *)
(* last.  A file may also be lost: then nothing more is written.           *)
(***************************************************************************)
EXTENDS Naturals

CONSTANT Encoders

VARIABLES phase,   (* "open", "started", "stopped" or "lost"               *)
          tracks,  (* the encoders that have added their track             *)
          ended,   (* the encoders that will write nothing more            *)
          samples  (* the samples each encoder has written                 *)

vars == <<phase, tracks, ended, samples>>

Init ==
  /\ phase = "open" /\ tracks = {} /\ ended = {}
  /\ samples = [e \in Encoders |-> 0]

AddTrack(e) ==
  /\ phase = "open" /\ e \notin tracks
  /\ tracks' = tracks \cup {e}
  /\ UNCHANGED <<phase, ended, samples>>

Start ==
  /\ phase = "open" /\ tracks = Encoders
  /\ phase' = "started"
  /\ UNCHANGED <<tracks, ended, samples>>

Write(e) ==
  /\ phase = "started" /\ e \notin ended
  /\ samples' = [samples EXCEPT ![e] = @ + 1]
  /\ UNCHANGED <<phase, tracks, ended>>

End(e) ==
  /\ phase \in {"started", "lost"} /\ e \notin ended
  /\ ended' = ended \cup {e}
  /\ phase' = IF phase = "started" /\ ended' = Encoders THEN "stopped" ELSE phase
  /\ UNCHANGED <<tracks, samples>>

Lose ==
  /\ phase \in {"open", "started"} /\ phase' = "lost"
  /\ UNCHANGED <<tracks, ended, samples>>

Next == Start \/ Lose \/ \E e \in Encoders : AddTrack(e) \/ Write(e) \/ End(e)

Spec == Init /\ [][Next]_vars

=============================================================================
