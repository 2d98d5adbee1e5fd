--------------------------- MODULE MCFrontendTest ---------------------------
(***************************************************************************)
(* Values for TLC: the first samples of a wave, and calls with any bytes   *)
(* they may be written as.                                                 *)
(***************************************************************************)
EXTENDS FrontendTest

MCBuckets == <<<<5, 1>>, <<5, 2>>, <<5, 4>>, <<5, 8>>, <<5, 16>>, <<5, 32>>,
               <<5, 64>>, <<3, 128>>, <<1, 84>>>>

MCSines == {0, 16383, 32767, -1, -32767}

MCCalls == [size : {4410}, bytes : {Written(n) : n \in MCSines}, coefficient : {0}]
=============================================================================
