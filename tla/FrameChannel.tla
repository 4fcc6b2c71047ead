---------------------------- MODULE FrameChannel ----------------------------
(***************************************************************************)
(* What the preview pipeline promises about pictures, without threads,     *)
(* queues, pools or locks: a channel from the camera to onFrame that may   *)
(* lose pictures but neither reorders, repeats nor invents any.  Pictures  *)
(* are numbered as they are accepted, so those on their way are a set, and *)
(* the next one to arrive is the one with the least number.                *)
(***************************************************************************)
EXTENDS Naturals

VARIABLES accepted,   (* pictures copied out of libuvc so far               *)
          inFlight,   (* the numbers of those still on their way            *)
          delivered   (* the number of the last one given to onFrame        *)

channelVars == <<accepted, inFlight, delivered>>

Init == accepted = 0 /\ inFlight = {} /\ delivered = 0

Accept ==
  /\ accepted' = accepted + 1
  /\ inFlight' = inFlight \cup {accepted'}
  /\ UNCHANGED delivered

Lose ==
  /\ inFlight' \in SUBSET inFlight
  /\ UNCHANGED <<accepted, delivered>>

Deliver ==
  /\ \E n \in inFlight :
       /\ \A m \in inFlight : n <= m
       /\ delivered' = n
       /\ inFlight' = inFlight \ {n}
  /\ UNCHANGED accepted

Next == Accept \/ Lose \/ Deliver

Spec == Init /\ [][Next]_channelVars
=============================================================================
