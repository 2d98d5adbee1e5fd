--------------------------- MODULE VolumeNotifier ---------------------------
(***************************************************************************)
(* What MicRecorder promises the VolumeChangeEvent it was constructed      *)
(* with.  The microphone hears a sequence of frames, with silence between  *)
(* and behind them; the recorder listens to some of it and reports the     *)
(* volume tokens it finds, one call per token.  Frames may be missed, but  *)
(* what is reported comes from a frame that was heard, in the order of the *)
(* frames and of the tokens in them, a frame at a time and, until a read   *)
(* has failed, once.                                                       *)
(***************************************************************************)
EXTENDS Integers, Sequences

CONSTANTS
  Labels      \* for each frame number, the tokens in the frame; 0 is silence

VARIABLES
  captured,   \* number of the last frame the microphone heard
  frame,      \* number of the last frame listened to, 0 before the first
  todo,       \* tokens of what was listened to, not looked at yet
  notified,   \* tokens reported
  failed      \* a read has failed: the last frame may be reported again

vars == <<captured, frame, todo, notified, failed>>

Init == captured = 0 /\ frame = 0 /\ todo = <<>> /\ notified = <<>> /\ ~failed

Capture ==
  /\ captured' > captured
  /\ UNCHANGED <<frame, todo, notified, failed>>

ReadFails ==
  /\ failed' = TRUE
  /\ UNCHANGED <<captured, frame, todo, notified>>

Listen ==
  /\ todo = <<>>
  /\ \E k \in 1..captured :
       /\ k > frame \/ (failed /\ k = frame)
       /\ frame' = k
       /\ todo' = Labels[k]
  /\ UNCHANGED <<captured, notified, failed>>

ListenToSilence ==
  /\ todo = <<>>
  /\ todo' = Labels[0]
  /\ UNCHANGED <<captured, frame, notified, failed>>

Report ==
  /\ todo # <<>>
  /\ Head(todo) # "NOISE"
  /\ notified' = Append(notified, Head(todo))
  /\ todo' = Tail(todo)
  /\ UNCHANGED <<captured, frame, failed>>

Skip ==
  /\ todo # <<>>
  /\ Head(todo) = "NOISE"
  /\ todo' = Tail(todo)
  /\ UNCHANGED <<captured, frame, notified, failed>>

Next == Capture \/ ReadFails \/ Listen \/ ListenToSilence \/ Report \/ Skip

Spec == Init /\ [][Next]_vars
=============================================================================
