-------------------------- MODULE MCRealTimeFactor --------------------------
(***************************************************************************)
(* Values for TLC: calls just under and over the tenth of a second that a  *)
(* frame lasts, of a second, and over the ten seconds the code compares    *)
(* with.                                                                   *)
(***************************************************************************)
EXTENDS RealTimeFactor

MCDurations == {0, 50, 100, 150, 1000, 10000, 10001}
=============================================================================
