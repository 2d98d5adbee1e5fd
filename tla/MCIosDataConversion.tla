------------------------ MODULE MCIosDataConversion ------------------------
(***************************************************************************)
(* Values for TLC: frames of 2 samples, audio of 0, 10 (odd lengths: 7)    *)
(* and 20 bytes, and up to three lines behind a shift of 1 or -1.  Times   *)
(* from -3 to 9 put events before the audio, close to each other, exactly  *)
(* one frame apart and beyond the end.                                     *)
(***************************************************************************)
EXTENDS IosDataConversion

Times == -3..9
Ev(k, v) == [kind |-> k, value |-> v]

Captures ==
  {<<Ev("Shift", s)>> \o evs : s \in {-1, 1},
     evs \in UNION {[1..n -> [kind : {"VolUp", "VolDown"}, value : Times]] : n \in 0..2}}

ThreeEvents ==
  {<<Ev("Shift", 1), Ev("VolUp", a), Ev("VolDown", b), Ev("VolUp", c)>> :
     a, b, c \in Times}

\* What the script rejects, and shifts in between.
Odd ==
  {<<Ev("VolUp", 1)>>, <<Ev("Malformed", 0)>>, <<Ev("Shift", 0), Ev("VolUp", 1)>>,
   <<Ev("Shift", 1), Ev("Other", 3), Ev("VolUp", 5)>>,
   <<Ev("Shift", 4), Ev("VolUp", 5), Ev("Shift", -4), Ev("VolUp", 6), Ev("VolUp", 9)>>}

MCInputs == [audio : {0, 7, 10, 20}, lines : Captures \cup ThreeEvents \cup Odd]
=============================================================================
