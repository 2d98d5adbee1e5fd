--------------------------- MODULE LabelService ---------------------------
(***************************************************************************)
(* What JEarpodModel promises MicRecorder, whatever happens in Java, C++   *)
(* and the object between: a question is an array, and the answer depends  *)
(* on nothing but that array, neither on the questions before nor on their *)
(* answers.  A question may stay without an answer, as when the process    *)
(* crashes; then there is no other one.                                    *)
(***************************************************************************)

CONSTANTS
  Arrays,     \* what may be asked
  Labels,     \* the answer to each, a function on Arrays
  null

VARIABLES
  asked,      \* the last question, or null
  answer,     \* the last answer, or null
  waiting     \* the last question has no answer yet

vars == <<asked, answer, waiting>>

Init == asked = null /\ answer = null /\ waiting = FALSE

Ask(a) ==
  /\ ~waiting
  /\ asked' = a
  /\ waiting' = TRUE
  /\ UNCHANGED answer

Reply ==
  /\ waiting
  /\ answer' = Labels[asked]
  /\ waiting' = FALSE
  /\ UNCHANGED asked

Next == (\E a \in Arrays : Ask(a)) \/ Reply

Spec == Init /\ [][Next]_vars
=============================================================================
