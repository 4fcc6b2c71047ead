----------------------------- MODULE FrameSource -----------------------------
(***************************************************************************)
(* What libuvc's streaming promises its user, without transfers, packets,  *)
(* buffers or threads: between start and stop it shows frames, one call of *)
(* the user's function at a time, never one older than the last; after     *)
(* stop it calls no more.  With a broken device only the order is left.    *)
(***************************************************************************)
EXTENDS Naturals

VARIABLES started,    (* start was called and stop has not returned         *)
          calling,    (* the user's function is running                     *)
          last,       (* the number of the frame shown last                 *)
          broken      (* the device is gone or refuses transfers            *)

sourceVars == <<started, calling, last, broken>>

Init == ~started /\ ~calling /\ last = 0 /\ ~broken

Start ==
  /\ ~started /\ ~calling
  /\ started' = TRUE /\ last' = 0
  /\ UNCHANGED <<calling, broken>>

Show ==
  /\ started /\ ~calling
  /\ calling' = TRUE
  /\ last' \in Nat /\ last' >= last
  /\ UNCHANGED <<started, broken>>

Return ==
  /\ calling /\ calling' = FALSE
  /\ UNCHANGED <<started, last, broken>>

Stop ==
  /\ started /\ (~calling \/ broken)
  /\ started' = FALSE
  /\ UNCHANGED <<calling, last, broken>>

Break == broken' = TRUE /\ UNCHANGED <<started, calling, last>>

Next == Start \/ Show \/ Return \/ Stop \/ Break

Spec == Init /\ [][Next]_sourceVars
=============================================================================
