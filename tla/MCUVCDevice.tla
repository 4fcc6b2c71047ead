----------------------------- MODULE MCUVCDevice -----------------------------
(* Instances of UVCDevice for TLC.                                         *)
EXTENDS UVCDevice

(* Everything outside may fail.                                            *)
AllFailures == {"init", "find", "open", "submit", "thread", "endpoint", "error",
                "refused", "method"}

=============================================================================
