----------------------------- MODULE MCUVCStream -----------------------------
(* Instances of UVCStream for TLC.                                         *)
EXTENDS UVCStream

(* A picture of one packet and a picture of two.                           *)
TwoPictures == << [fid |-> 0, last |-> TRUE],
                  [fid |-> 1, last |-> FALSE], [fid |-> 1, last |-> TRUE] >>

(* Pictures of one packet each.                                            *)
SmallPictures == [k \in 1 .. 5 |-> [fid |-> k % 2, last |-> TRUE]]

=============================================================================
