--------------------------- MODULE MCMicRecorder ---------------------------
(***************************************************************************)
(* Values for TLC: a call of model_.read answers two tokens (an array of   *)
(* 4410 samples is two frames of the classifier), and the frames have two, *)
(* one and no volume tokens in them.  Frame 0 is silence.                  *)
(***************************************************************************)
EXTENDS MicRecorder

UpDown    == <<"VOLUME_UP", "VOLUME_DOWN">>
NoiseUp   == <<"NOISE", "VOLUME_UP">>
NoiseOnly == <<"NOISE", "NOISE">>

MCTokens == [k \in FrameNo |-> CASE k = 1 -> UpDown
                                 [] k = 3 -> NoiseUp
                                 [] OTHER -> NoiseOnly]
=============================================================================
