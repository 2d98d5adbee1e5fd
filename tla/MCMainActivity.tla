--------------------------- MODULE MCMainActivity ---------------------------
(***************************************************************************)
(* Values for TLC: one frame with both volume tokens, then silence.  Two   *)
(* recorders, so that a second one meets what the first one left behind.   *)
(***************************************************************************)
EXTENDS MainActivity

MCTokens == [k \in FrameNo |->
  IF k = 1 THEN <<"VOLUME_UP", "VOLUME_DOWN">> ELSE <<"NOISE", "NOISE">>]
=============================================================================
