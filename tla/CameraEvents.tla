---------------------------- MODULE CameraEvents -----------------------------
(***************************************************************************)
(* What setStatusCallback and setButtonCallback promise: the events of an  *)
(* open camera reach the object that is set, one at a time.  An object is  *)
(* not replaced, nor the camera closed, while one of its events is there.  *)
(***************************************************************************)
CONSTANTS Kinds, Objects, None

VARIABLES
  open,
  listener,   (* the object set for each kind of event                      *)
  calling     (* the object that handles an event of each kind, or None     *)

vars == <<open, listener, calling>>

Quiet == [k \in Kinds |-> None]

Init == open = FALSE /\ listener = Quiet /\ calling = Quiet

Open == ~open /\ calling = Quiet /\ open' = TRUE /\ UNCHANGED <<listener, calling>>

Set(k, o) ==
  /\ open /\ calling[k] = None
  /\ listener' = [listener EXCEPT ![k] = o]
  /\ UNCHANGED <<open, calling>>

Call(k) ==
  /\ open /\ calling = Quiet /\ listener[k] # None
  /\ calling' = [calling EXCEPT ![k] = listener[k]]
  /\ UNCHANGED <<open, listener>>

Return == calling # Quiet /\ calling' = Quiet /\ UNCHANGED <<open, listener>>

Close == open /\ calling = Quiet /\ open' = FALSE /\ UNCHANGED <<listener, calling>>

Next ==
  \/ Open \/ Close \/ Return
  \/ \E k \in Kinds : Call(k) \/ \E o \in Objects \cup {None} : Set(k, o)

Spec == Init /\ [][Next]_vars

=============================================================================
