--------------------------- MODULE RealTimeFactor ---------------------------
(***************************************************************************)
(* The loop of RecordingThread with its clock: how long the classification *)
(* of a frame takes, and the warning that it takes longer than the frame.  *)
(* What else the loop does is in MicRecorder.  Time is in milliseconds;    *)
(* the quotients of doubles are compared by cross multiplication.          *)
(***************************************************************************)
EXTENDS Integers

CONSTANTS
  frameSize_,   \* samples per read
  sampleRate_,  \* samples per second
  Durations,    \* how long model_.read may take
  MaxTime       \* bound: the clock

VARIABLES
  now,                  \* System.currentTimeMillis()
  startTime, endTime,   \* the locals of run()
  pc,                   \* "read", "classify", "judge", "dispatch"
  warned                \* history: the last frame was warned of

vars == <<now, startTime, endTime, pc, warned>>

Init == now = 0 /\ startTime = 0 /\ endTime = 0 /\ pc = "read" /\ warned = FALSE

\* mic.read blocks for at most the length of a frame.
MicRead ==
  /\ pc = "read" /\ now < MaxTime
  /\ now' \in {now, now + (1000 * frameSize_) \div sampleRate_}
  /\ startTime' = now'
  /\ pc' = "classify"
  /\ UNCHANGED <<endTime, warned>>

Classify ==
  /\ pc = "classify"
  /\ \E d \in Durations : now' = now + d
  /\ endTime' = now'
  /\ pc' = "judge"
  /\ UNCHANGED <<startTime, warned>>

\* ((endTime - startTime) / 1000.0) / (sampleRate_ / frameSize_) > 1.0
ExceedsOne == (endTime - startTime) * frameSize_ > 1000 * sampleRate_

Judge ==
  /\ pc = "judge"
  /\ warned' = ExceedsOne
  /\ pc' = "dispatch"
  /\ UNCHANGED <<now, startTime, endTime>>

Dispatch == pc = "dispatch" /\ pc' = "read" /\ UNCHANGED <<now, startTime, endTime, warned>>

Next == MicRead \/ Classify \/ Judge \/ Dispatch

Spec == Init /\ [][Next]_vars

\* "RTF exceeded 1!!!": a frame whose classification took longer than its
\* audio lasts, the meaning of a real-time factor above 1, is warned of.
SlowIsWarned ==
  pc = "dispatch" /\ (endTime - startTime) * sampleRate_ > 1000 * frameSize_ => warned
=============================================================================
