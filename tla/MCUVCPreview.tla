---------------------------- MODULE MCUVCPreview ----------------------------
(* Instances of UVCPreview for TLC.                                        *)
EXTENDS UVCPreview, TLC

FrameSymmetry == Permutations(Frames)

=============================================================================
